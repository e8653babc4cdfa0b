----------------------------- MODULE SymbolLoader -----------------------------
(***************************************************************************)
(* What the symbol loader of StackResolver::spawn promises the readers     *)
(* that call StackResolver::resolve, with its loop, its sleep and its      *)
(* last_map left out: the recorder may change the followed pid at any      *)
(* time; the loader tries the symbol table of a file at most once, keeps   *)
(* every table it loaded, and may fail a load only where SymbolTable::load *)
(* can fail; and the map it publishes is one ProcessMap::new returned for  *)
(* some followed pid, all of whose files it has already tried.             *)
(***************************************************************************)
CONSTANTS Pids, Files, MapsOf, LoadCanFail

VARIABLES
    pid,       \* the pid the recorder follows, 0 for none
    tried,     \* the files whose table the loader has tried to load
    tables,    \* the files whose table resolve can find
    shown      \* the map resolve uses: <<>> for None, <<m>> for Some(m)

vars == <<pid, tried, tables, shown>>

Init ==
    /\ pid = 0
    /\ tried = {}
    /\ tables = {}
    /\ shown = <<>>

Follow(p) ==
    /\ pid' = p
    /\ UNCHANGED <<tried, tables, shown>>

(* One load of a file not tried before; it succeeds, or fails if loads    *)
(* can fail.                                                              *)
Try(f) ==
    /\ f \notin tried
    /\ tried' = tried \cup {f}
    /\ \/ tables' = tables \cup {f}
       \/ LoadCanFail /\ tables' = tables
    /\ UNCHANGED <<pid, shown>>

(* A map read for some followed pid, all of whose files were tried. *)
Show(m) ==
    /\ \E q \in Pids : m \in MapsOf[q]
    /\ m \subseteq tried
    /\ shown' = <<m>>
    /\ UNCHANGED <<pid, tried, tables>>

Next ==
    \/ \E p \in Pids \cup {0} : Follow(p)
    \/ \E f \in Files : Try(f)
    \/ \E m \in SUBSET Files : Show(m)

Spec == Init /\ [][Next]_vars

=============================================================================
