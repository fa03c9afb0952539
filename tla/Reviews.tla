-------------------------------- MODULE Reviews --------------------------------
(***************************************************************************)
(* The reviews on the home page (src/modules/reviews): asked of Google at  *)
(* most once at a time, kept in memory, and hidden whenever there are none *)
(* worth showing.                                                          *)
(***************************************************************************)
EXTENDS Naturals, Sequences

Seqs == INSTANCE SequencesExt

CONSTANTS
  Readers,
  Raw,              \* reviews Google may return: [key, rating, length, time]
  MinRating, MinLength, MaxShown,
  CacheTtl, FailureRetry,
  MaxTime           \* bound of the model

ASSUME LifetimesAssumption == CacheTtl \in Nat /\ FailureRetry \in Nat

VARIABLES
  now,
  apiKey,           \* whether GOOGLE_MAPS_API_KEY is set
  cache,            \* [value, expires]
  inFlight,         \* the two requests of the fetch under way, with what they returned
  waiting,          \* readers that wait for it
  asked,            \* when a fetch last ended, and whether it brought reviews
  shown             \* what each reader was given last

reviewsVars == <<now, apiKey, cache, inFlight, waiting, asked, shown>>

Sorts == {"most_relevant", "newest"}
Nothing == <<>>     \* null: the section is hidden
Pending == [ended |-> FALSE, got |-> {}]
Failed == [ended |-> TRUE, got |-> {}]

\* Of the reviews of both answers: those worth reading, the best first.
SelectBest(R) ==
  LET Better(a, b) ==
        \/ a.rating > b.rating
        \/ a.rating = b.rating /\ a.length > b.length
        \/ a.rating = b.rating /\ a.length = b.length /\ a.time > b.time
      best == Seqs!SetToSortSeq({r \in R : r.rating >= MinRating /\ r.length >= MinLength}, Better)
  IN SubSeq(best, 1, IF Len(best) < MaxShown THEN Len(best) ELSE MaxShown)

ReviewsInit ==
  /\ now = 0
  /\ apiKey \in BOOLEAN
  /\ cache = [value |-> Nothing, expires |-> 0]
  /\ inFlight = Nothing
  /\ waiting = {}
  /\ asked = [at |-> 0, found |-> FALSE, ever |-> FALSE]
  /\ shown = [r \in Readers |-> Nothing]

Tick == now < MaxTime /\ now' = now + 1 /\ UNCHANGED <<apiKey, cache, inFlight, waiting, asked, shown>>

Cached == cache.expires > now

GetCached(r) ==
  /\ Cached /\ r \notin waiting
  /\ shown' = [shown EXCEPT ![r] = cache.value]
  /\ UNCHANGED <<now, apiKey, cache, inFlight, waiting, asked>>

\* The first reader that finds nothing in the cache starts a fetch.
Get(r) ==
  /\ ~Cached /\ r \notin waiting
  /\ waiting' = waiting \union {r}
  /\ inFlight' = IF inFlight # Nothing THEN inFlight ELSE <<[s \in Sorts |-> IF apiKey THEN Pending ELSE Failed]>>
  /\ UNCHANGED <<now, apiKey, cache, asked, shown>>

\* One of the two requests is answered, or refused, which brings no reviews.
Details(s) ==
  /\ inFlight # Nothing /\ ~inFlight[1][s].ended
  /\ \E got \in SUBSET Raw : inFlight' = <<[inFlight[1] EXCEPT ![s] = [ended |-> TRUE, got |-> got]]>>
  /\ UNCHANGED <<now, apiKey, cache, waiting, asked, shown>>

\* One fails or takes more than eight seconds: nothing is waited for any more.
DetailsThrows ==
  /\ inFlight # Nothing /\ \E s \in Sorts : ~inFlight[1][s].ended
  /\ inFlight' = <<[s \in Sorts |-> Failed]>>
  /\ UNCHANGED <<now, apiKey, cache, waiting, asked, shown>>

\* Faulty variant: a fetch that brought nothing is not remembered.
LifetimeFound(value) == IF value = Nothing THEN 0 ELSE CacheTtl

\* Failures are asked again sooner.
Lifetime(value) == IF value = Nothing THEN FailureRetry ELSE CacheTtl

Fetched ==
  /\ inFlight # Nothing /\ \A s \in Sorts : inFlight[1][s].ended
  /\ LET value == SelectBest(UNION {inFlight[1][s].got : s \in Sorts}) IN
       /\ cache' = [value |-> value, expires |-> now + Lifetime(value)]
       /\ shown' = [r \in Readers |-> IF r \in waiting THEN value ELSE shown[r]]
       /\ asked' = [at |-> now, found |-> value # Nothing, ever |-> TRUE]
  /\ inFlight' = Nothing /\ waiting' = {}
  /\ UNCHANGED <<now, apiKey>>

ReviewsNext ==
  \/ Tick \/ Fetched \/ DetailsThrows
  \/ \E r \in Readers : GetCached(r) \/ Get(r)
  \/ \E s \in Sorts : Details(s)

ReviewsSpec == ReviewsInit /\ [][ReviewsNext]_reviewsVars

-----------------------------------------------------------------------------
\* However many readers come, Google is asked again only when the lifetime of
\* the last answer has passed: a day's half if it brought reviews, and a
\* quarter of an hour if it failed.
AskedSeldom ==
  [][inFlight = Nothing /\ inFlight' # Nothing /\ asked.ever =>
       now >= asked.at + (IF asked.found THEN CacheTtl ELSE FailureRetry)]_reviewsVars
=============================================================================
