---------------------------- MODULE MCAccountToken ----------------------------
(* The run account_token: AccountDeletion with a history of which requests were admitted when. *)
EXTENDS MCAccountDeletion

VARIABLE ownerless  \* history: the requests that began when neither entry nor identity was left

tokenVars == <<deletionVars, ownerless>>

TokenInit == DeletionInit /\ ownerless = {}

\* Once the job has removed both, no request is refused with 410 any more: all that is asked of a
\* request is a token issued before.
TokenNext ==
  /\ DeletionNext
  /\ ownerless' = IF ~entry /\ ~identity
                    THEN ownerless \cup {r \in Request : call[r].pc = "idle" /\ call'[r].pc # "idle"}
                    ELSE ownerless

TokenSpec == TokenInit /\ [][TokenNext]_tokenVars

\* A request that begins when the identity and its entry are both gone creates nothing: "So that
\* nothing can be created that no process would ever delete", GetMe, UpdateProfile and UploadTour
\* answer 410 (src/docs/explanation/design-decisions.md:320).
NothingCreatedForNobody ==
  [][\A r \in ownerless : call'[r] # call[r] => data' \subseteq data]_tokenVars

=============================================================================
