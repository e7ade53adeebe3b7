-------------------------- MODULE MutationContract --------------------------
(***************************************************************************)
(* What idempotency promises of mutations that carry a key: one is         *)
(* executed only while nothing is remembered of its key, and is what is    *)
(* remembered from then on until the key is forgotten; and whoever is      *)
(* answered is told, once, of an execution that was asked for in the same  *)
(* way.  How requests race, wait, are sent again, fail or find copies is   *)
(* not in it.                                                              *)
(***************************************************************************)
CONSTANTS Requests, Keys, KeyOf, Fingerprint, NoRequest

VARIABLES remembered, executed, answer

contractVars == <<remembered, executed, answer>>

Init ==
  /\ remembered = [k \in Keys |-> NoRequest]
  /\ executed = {}
  /\ answer = [r \in Requests |-> NoRequest]

Execute(r) ==
  /\ r \notin executed /\ remembered[KeyOf[r]] = NoRequest
  /\ executed' = executed \cup {r}
  /\ remembered' = [remembered EXCEPT ![KeyOf[r]] = r]
  /\ UNCHANGED answer

Forget(k) ==
  /\ remembered' = [remembered EXCEPT ![k] = NoRequest]
  /\ UNCHANGED <<executed, answer>>

Tell(r, x) ==
  /\ answer[r] = NoRequest
  /\ x \in executed /\ KeyOf[x] = KeyOf[r] /\ Fingerprint[x] = Fingerprint[r]
  /\ answer' = [answer EXCEPT ![r] = x]
  /\ UNCHANGED <<remembered, executed>>

Next ==
  \/ \E k \in Keys : Forget(k)
  \/ \E r \in Requests : Execute(r)
  \/ \E r, x \in Requests : Tell(r, x)

Spec == Init /\ [][Next]_contractVars
=============================================================================
