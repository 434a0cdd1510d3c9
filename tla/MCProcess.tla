----------------------------- MODULE MCProcess -----------------------------
(* Instances of Process: one plugin with an option that is always set and   *)
(* one that is set only with a value.                                      *)
EXTENDS Process, TLC

SomeSettings ==
    <<[plugin |-> "webauthn", option |-> "callback", always |-> TRUE],
      [plugin |-> "webauthn", option |-> "device", always |-> FALSE]>>

Symmetry == Permutations(Threads) \cup Permutations(Envs)
                \cup Permutations(Dbcs)
============================================================================
