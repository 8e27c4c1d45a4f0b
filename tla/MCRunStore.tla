---------------------------- MODULE MCRunStore ----------------------------
(* The instances of RunStore that TLC explores. *)
EXTENDS RunStore, TLC

CONSTANTS tui, daemon, tui1, daemon1, daemon2

\* One worker thread in the TUI, the others in the daemon.
MCProcOf == [t \in Thread |-> IF t = tui1 THEN tui ELSE daemon]

\* With a thread each, the two processes are interchangeable.
Swap == {tui :> daemon @@ daemon :> tui @@ tui1 :> daemon1 @@ daemon1 :> tui1}

\* finish_turn as a successful turn calls it, and as the other turns do.
DrainingEnds == {<<"done", TRUE, FALSE>>}
AllEnds == DrainingEnds \cup {<<"done", FALSE, FALSE>>, <<"done", FALSE, TRUE>>,
                              <<"cancelled", TRUE, FALSE>>}
===========================================================================
