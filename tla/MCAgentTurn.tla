---------------------------- MODULE MCAgentTurn ----------------------------
EXTENDS AgentTurn

Call(k, p) == [kind |-> k, policy |-> p]

(* A read beside a write that needs approval, a plugin's tool behind a    *)
(* refused call, and a batch beyond the limit of calls.                    *)
MCBatch == {<<Call("write", "ask"), Call("read", "allow")>>,
            <<Call("plugin", "refuse"), Call("plugin", "allow")>>,
            <<Call("read", "allow"), Call("read", "allow"), Call("read", "allow")>>}

(* One call at a time. *)
MCSingle == {<<Call("read", "allow")>>}
=============================================================================
