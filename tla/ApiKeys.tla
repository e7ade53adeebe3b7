------------------------------ MODULE ApiKeys ------------------------------
(***************************************************************************)
(* One API key of a store, the requests that authenticate with it and the  *)
(* calls that revoke it.  Neither locks the row between reading it and     *)
(* writing it back.                                                        *)
(***************************************************************************)

CONSTANTS ApiRequests, Revocations

VARIABLES
  revoked,     \* api_keys: revoked_at is set
  guard,       \* requests: how far CombinedAuthGuard is
  revocation,  \* calls of RevokeApiKey
  tooLate      \* requests that came after a revocation was answered

apiKeyVars == <<revoked, guard, revocation, tooLate>>

ApiKeysInit ==
  /\ revoked = FALSE
  /\ guard = [r \in ApiRequests |-> "none"]
  /\ revocation = [m \in Revocations |-> "none"]
  /\ tooLate = {}

GuardTo(r, place) == guard' = [guard EXCEPT ![r] = place]

\* Mutant: the row is written back as it was read, an empty column too.
SaveWholeKey(asRead) == revoked' = asRead

\* ApiKeyRepository.update writes revokedAt as the entity has it, and what is
\* undefined there is left as it is in the row.
SaveKey(asRead) == revoked' = (revoked \/ asRead)

-----------------------------------------------------------------------------
(* ValidateApiKey, in the guard of a request.                              *)

PresentKey(r) ==
  /\ guard[r] = "none"
  /\ tooLate' = IF \E m \in Revocations : revocation[m] = "done"
                THEN tooLate \cup {r} ELSE tooLate
  /\ GuardTo(r, "asking")
  /\ UNCHANGED <<revoked, revocation>>

\* Only a row that is not revoked is found by the hash.
FindKey(r) ==
  /\ guard[r] = "asking"
  /\ GuardTo(r, IF revoked THEN "refused" ELSE "found")
  /\ UNCHANGED <<revoked, revocation, tooLate>>

\* The time of the last use is saved before the request is let in; whatever
\* fails on the way is a refusal.
Authenticate(r) ==
  /\ guard[r] = "found"
  /\ \/ SaveKey(FALSE) /\ GuardTo(r, "in")
     \/ UNCHANGED revoked /\ GuardTo(r, "refused")
  /\ UNCHANGED <<revocation, tooLate>>

-----------------------------------------------------------------------------
(* RevokeApiKey.                                                           *)

ReadForRevocation(m) ==
  /\ revocation[m] = "none"
  /\ revocation' = [revocation EXCEPT ![m] = IF revoked THEN "done" ELSE "read"]
  /\ UNCHANGED <<revoked, guard, tooLate>>

RevokeApiKey(m) ==
  /\ revocation[m] = "read"
  /\ \/ SaveKey(TRUE) /\ revocation' = [revocation EXCEPT ![m] = "done"]
     \/ UNCHANGED revoked /\ revocation' = [revocation EXCEPT ![m] = "none"]
  /\ UNCHANGED <<guard, tooLate>>

ApiKeysNext ==
  \/ \E r \in ApiRequests : PresentKey(r) \/ FindKey(r) \/ Authenticate(r)
  \/ \E m \in Revocations : ReadForRevocation(m) \/ RevokeApiKey(m)

ApiKeysSpec == ApiKeysInit /\ [][ApiKeysNext]_apiKeyVars

-----------------------------------------------------------------------------
(* Properties.                                                             *)

\* Every variable stays within its type.
ApiKeysTypeOK ==
  /\ revoked \in BOOLEAN
  /\ guard \in [ApiRequests -> {"none", "asking", "found", "in", "refused"}]
  /\ revocation \in [Revocations -> {"none", "read", "done"}]
  /\ tooLate \subseteq ApiRequests

\* A request that comes after the answer to a revocation is never let in, also
\* while an earlier request is still to write back the key it found valid.
RevocationHolds == \A r \in tooLate : guard[r] # "in"
=============================================================================
