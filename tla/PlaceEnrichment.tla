--------------------------- MODULE PlaceEnrichment ---------------------------
(***************************************************************************)
(* Enriching the places of an itinerary with what the web says about them  *)
(* (enrichment/service.py, worker.py): places are searched for in the      *)
(* order of their priority until the budget is spent, one model call turns *)
(* what was found into guides, and the guides become a new version.        *)
(*                                                                         *)
(* A search is not retried. When one fails the whole task ends, completed  *)
(* and without guides. A worker that is lost begins again, with a new      *)
(* budget.                                                                 *)
(***************************************************************************)
EXTENDS ProviderCache, SequencesExt

CONSTANTS
  Visited,        \* the places of the base version, in its order
  Priority,       \* [places -> 0, 1 or 2]: place_priority, 2 for none
  KeyOf,          \* [places -> keys]: the cache key of a place's guide
  MaxPlaces,      \* max_places_enriched
  MaxRequests     \* max_search_requests

\* A snapshot holds each place once, and the place and its key are both derived
\* from the provider's identifier.
ASSUME VisitedAssumption ==
  /\ Visited \in Seq(DOMAIN KeyOf) /\ IsInjective(Visited)
  /\ Priority \in [DOMAIN KeyOf -> 0..2]
  /\ MaxPlaces \in Nat /\ MaxRequests \in Nat
  /\ \A p, q \in DOMAIN KeyOf : KeyOf[p] = KeyOf[q] => p = q

VARIABLES
  job,            \* the enrichment task
  guides,         \* place_enrichments of the current version
  tasksLeft       \* bound: how often a task is started, or started again

enrichVars == <<job, guides, tasksLeft>>

Off == [pc |-> "off"]

EnrichInit == job = Off /\ guides = <<>>

\* The places worth a search, the important ones first, and of equal ones the first
\* visited.
Wanted ==
  LET worth     == { i \in DOMAIN Visited : Priority[Visited[i]] < 2 }
      Before(i) == { j \in worth : \/ Priority[Visited[j]] < Priority[Visited[i]]
                                   \/ Priority[Visited[j]] = Priority[Visited[i]] /\ j < i }
      size      == IF Cardinality(worth) < MaxPlaces THEN Cardinality(worth) ELSE MaxPlaces
  IN  [n \in 1..size |-> Visited[CHOOSE i \in worth : Cardinality(Before(i)) = n - 1]]

Fresh == [pc |-> "looking", todo |-> Wanted, used |-> 0,
          pending |-> <<>>, output |-> <<>>, included |-> <<>>]

\* A task starts, or is delivered again after its worker was lost.
StartEnrichment ==
  /\ tasksLeft > 0
  /\ tasksLeft' = tasksLeft - 1
  /\ job' = Fresh
  /\ UNCHANGED <<cacheVars, guides>>

\* One search more than the budget holds.
M_Affordable == job.used <= MaxRequests

\* consume: is there budget for one more search?
Affordable == job.used < MaxRequests

\* The next place: its cached guide, or a search, or the end of the budget. The
\* places after it are left out then, whatever is cached of them.
NextPlace ==
  /\ job.pc = "looking" /\ job.todo # <<>>
  /\ LET p == Head(job.todo)
     IN  \E hit \in Lookups(KeyOf[p]) :
           \/ /\ is_fresh(hit)
              /\ job' = [job EXCEPT !.todo = Tail(@), !.included = Append(@, p),
                                    !.output = Append(@, hit.payload)]
           \/ /\ ~is_fresh(hit) /\ ~Affordable
              /\ job' = [job EXCEPT !.todo = <<>>]
           \/ /\ ~is_fresh(hit) /\ Affordable
              /\ job' = [job EXCEPT !.pc = "searching", !.used = @ + 1]
  /\ UNCHANGED <<cacheVars, guides, tasksLeft>>

\* What a search may return: nothing, results without a readable snippet, or text.
Findings == {"nothing", "links", "text"}

SearchReturns ==
  /\ job.pc = "searching"
  /\ \E found \in Findings :
       job' = [job EXCEPT !.pc = "looking", !.todo = Tail(@), !.included = Append(@, Head(job.todo)),
                          !.pending = Append(@, [place |-> Head(job.todo), found |-> found])]
  /\ UNCHANGED <<cacheVars, guides, tasksLeft>>

\* It fails: what was found so far is lost with the task, and nothing is cached.
SearchFails ==
  /\ job.pc = "searching"
  /\ job' = Off
  /\ UNCHANGED <<cacheVars, guides, tasksLeft>>

\* Only the model writes guides.
M_GuideText(found, generated) == IF generated THEN "model" ELSE "none"

\* guide_text: the model's, else the search's own snippets, if they say anything.
GuideText(found, generated) ==
  IF generated THEN "model" ELSE IF found = "text" THEN "snippets" ELSE "none"

Guide(p, found, generated) ==
  [place |-> p, found |-> found, text |-> GuideText(found, generated)]

\* The places whose guides have a key.
PlacesOf(k) == { p \in DOMAIN KeyOf : KeyOf[p] = k }

\* The guide of each included place, in their order.
InOrder(included, made) ==
  [i \in DOMAIN included |-> CHOOSE g \in made : g.place = included[i]]

\* The model is called once for all places with results; it may fail, or leave
\* places out. Every searched place gets its guide;
\* the guides are cached one after the other, each if Redis is up.
Summarise ==
  /\ job.pc = "looking" /\ job.todo = <<>>
  /\ \E generated \in SUBSET { x.place : x \in { y \in ToSet(job.pending) : y.found # "nothing" } } :
       LET made == { Guide(x.place, x.found, x.place \in generated) : x \in ToSet(job.pending) }
       IN  /\ job' = [job EXCEPT !.pc = "saving",
                                 !.output = InOrder(job.included, ToSet(job.output) \cup made)]
           /\ \E cached \in SUBSET made :
                store' = [k \in Keys |->
                  IF \E g \in cached : g.place \in PlacesOf(k)
                  THEN Entry(k, CHOOSE g \in cached : g.place \in PlacesOf(k)) ELSE store[k]]
  /\ UNCHANGED <<now, guides, tasksLeft>>

\* The guides become a version, unless there are none, or the base is outdated.
SaveGuides ==
  /\ job.pc = "saving"
  /\ guides' \in { g \in {guides, job.output} : job.output = <<>> => g = guides }
  /\ job' = [job EXCEPT !.pc = "off"]
  /\ UNCHANGED <<cacheVars, tasksLeft>>

EnrichStep ==
  StartEnrichment \/ NextPlace \/ SearchReturns \/ SearchFails \/ Summarise \/ SaveGuides

\* The budget bounds the searches of a task, and is spent in the order of
\* importance: the places that get a guide are the first of those wanted, each
\* once, and they stop short of the last only when every search is used up
\* (service.py 28-32, 150-190).
BudgetIsSpentInOrder ==
  job.pc \in {"looking", "searching", "saving"} =>
    /\ job.used <= MaxRequests
    /\ IsPrefix(job.included, Wanted)
    /\ job.pc = "saving" => /\ [i \in DOMAIN job.output |-> job.output[i].place] = job.included
                            /\ job.included = Wanted \/ job.used = MaxRequests

\* Wherever a guide comes from - the model, the cache of an earlier task - a place
\* that the web says something about has a text, also when the model fails or
\* leaves the place out, and none is invented for a place without a source
\* (service.py 192-218, 283-304).
ResultsGiveGuides ==
  \A g \in ToSet(guides) :
    /\ g.found = "text" => g.text # "none"
    /\ g.text # "none" => g.found # "nothing"
=============================================================================
