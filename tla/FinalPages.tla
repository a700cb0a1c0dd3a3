------------------------------ MODULE FinalPages ------------------------------
(***************************************************************************)
(* Final pages: the current version is frozen under a privacy policy and   *)
(* published under a token, read by whoever has the token, and revoked.    *)
(* The transactions of finalize and revoke hold the routebook's row lock,  *)
(* so each is one action; reading is not locked.                           *)
(***************************************************************************)
EXTENDS RoutebookRow, FiniteSets

CONSTANTS Pages,     \* ids of final pages; each has its own token
          Policies,  \* privacy policies
          Redacting  \* those that leave the addresses out

ASSUME RedactingAssumption == Redacting \subseteq Policies
ASSUME PolicyAssumption == Policies # {}

VARIABLES
  page,        \* version, policy and revocation of each page
  latestFinal  \* latest_final_version_id

pageVars == <<page, latestFinal>>

NoPage == [version |-> NoVersion, policy |-> CHOOSE pol \in Policies : TRUE, revoked |-> FALSE]

Created(p) == page[p].version # NoVersion
Active(p)  == Created(p) /\ ~page[p].revoked

PageTypeOK ==
  /\ page \in [Pages -> [version : Versions \union {NoVersion},
                         policy : Policies, revoked : BOOLEAN]]
  /\ latestFinal \in Versions \union {NoVersion}

PageInit == page = [p \in Pages |-> NoPage] /\ latestFinal = NoVersion

M_AnyVersionIsFinal(v) == ~deleted /\ v \in Saved

\* Only the current version, and only if validate_final_snapshot finds nothing.
MayFinalize(v) == ~deleted /\ v = current /\ content[v] \intersect Harmful = {}

M_AnyActive(v, pol) == {}

\* get_active_for_version.
ActiveFor(v, pol) == {p \in Pages : Active(p) /\ page[p].version = v /\ page[p].policy = pol}

Finalize(p, v, pol) ==
  /\ ~Created(p)
  /\ MayFinalize(v) /\ ActiveFor(v, pol) = {}
  /\ page' = [page EXCEPT ![p] = [version |-> v, policy |-> pol, revoked |-> FALSE]]
  /\ latestFinal' = v

\* Repeating a revocation changes nothing.
Revoke(p) ==
  /\ ~deleted /\ Active(p)
  /\ page' = [page EXCEPT ![p].revoked = TRUE]
  /\ UNCHANGED latestFinal

PageNext ==
  \E p \in Pages : Revoke(p) \/ \E v \in Versions, pol \in Policies : Finalize(p, v, pol)

-----------------------------------------------------------------------------
NotFound == [snapshot |-> {}, addresses |-> FALSE, found |-> FALSE]

\* What GET /share/{token} answers to the holder of the page's token.
Shared(p) ==
  IF deleted \/ ~Active(p) THEN NotFound
  ELSE [snapshot |-> content[page[p].version],
        addresses |-> page[p].policy \notin Redacting, found |-> TRUE]

\* At most one page per version and privacy policy can be opened.
OnePagePerVersionAndPolicy ==
  \A p, q \in Pages :
    Active(p) /\ Active(q) /\ page[p].version = page[q].version /\ page[p].policy = page[q].policy
    => p = q

\* Once published, a page shows the same itinerary with the same redaction
\* until it is gone, whatever is committed, undone, accepted or revoked, and
\* never comes back.
SharedNeverChanges ==
  [][\A p \in Pages : Created(p) => Shared(p)' \in {Shared(p), NotFound}]_<<bookVars, pageVars>>

\* What can be opened has passed the final check, and the routebook's latest
\* final version is one that a page was made of, never one saved later.
SharedIsSound ==
  /\ \A p \in Pages : Shared(p).snapshot \intersect Harmful = {}
  /\ latestFinal = NoVersion <=> \A p \in Pages : ~Created(p)
  /\ latestFinal # NoVersion => \E p \in Pages : page[p].version = latestFinal
  /\ \A p \in Pages : page[p].version <= latestFinal
=============================================================================
