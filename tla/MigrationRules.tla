---------------------------- MODULE MigrationRules ----------------------------
(***************************************************************************)
(* Rules for the list Migrations that can be read off it, without running  *)
(* anything: what the statements of one migration do to each other, and    *)
(* what those of two may not.  A list that keeps them is done when it is   *)
(* recorded, and stops for good only where Unguarded says                  *)
(* (MigrationsProofs).                                                     *)
(***************************************************************************)
EXTENDS Migrations

Directions == {"up", "down"}
Body(d, m) == IF d = "up" THEN Migrations[m].up ELSE Migrations[m].down

\* The statements of a migration that change the schema.
Changes(d, m) == {s \in Statements(Body(d, m)) : ~IsIf(s)}

\* What a migration reads once, to decide.
Tests(m) == UNION {s.minus : s \in {t \in Statements(Migrations[m].up) : IsIf(t)}}

-----------------------------------------------------------------------------
(* Paths: a migration without its branches.  The guard becomes a statement *)
(* that changes nothing where it is passed: it puts what it has found, or  *)
(* clears what it has not found.                                           *)

Yes(s) == [Stmt(s.minus, {}, {}, s.minus \union Tables(s.minus)) EXCEPT !.yes = <<s>>]
No(s)  == [Stmt({}, s.minus, s.minus, {}) EXCEPT !.yes = <<s>>]

Straight(L) == \A i \in DOMAIN L : ~IsIf(L[i])
Splice(L, p, B) == SubSeq(L, 1, p - 1) \o B \o SubSeq(L, p + 1, Len(L))

Paths(L) ==
  IF Straight(L) THEN {L}
  ELSE UNION {{Splice(L, p, <<Yes(L[p])>> \o L[p].yes), Splice(L, p, <<No(L[p])>> \o L[p].no)} :
                p \in {q \in DOMAIN L : IsIf(L[q])}}

Removes(s, f) == f \in s.minus \/ T(f[1]) \in s.minus

\* After the first i statements of a path: fact f is there, is not there, has
\* not been removed, or has not been added, whatever was there before.
Given(x, i, f)   == \E j \in 1..i : f \in x[j].plus /\ \A l \in j+1..i : ~Removes(x[l], f)
Gone(x, i, f)    == \E j \in 1..i : Removes(x[j], f) /\ \A l \in j..i : f \notin x[l].plus
Spared(x, i, f)  == \A l \in 1..i : ~Removes(x[l], f)
Unadded(x, i, f) == \A l \in 1..i : f \notin x[l].plus

-----------------------------------------------------------------------------
(* The rules *)

\* One guard at most decides on statements, by one fact, and they are straight.
OneGuard(L) ==
  /\ \A i, j \in DOMAIN L : IsIf(L[i]) /\ IsIf(L[j]) => i = j
  /\ \A i \in DOMAIN L : IsIf(L[i]) =>
       /\ Straight(L[i].yes) /\ Straight(L[i].no)
       /\ \E f \in L[i].minus : L[i].minus = {f}

\* What is added goes to a table that is there.
Grounded(s) == \A f \in s.plus : T(f[1]) \in s.plus \union (s.need \ s.minus)

BaseTabled == \A f \in Base : T(f[1]) \in Base

\* Repeated, from wherever: nothing is there already or gone already.
Guarded(x) ==
  \A i \in DOMAIN x : IsIf(x[i]) \/
    /\ \A f \in x[i].free : Gone(x, i - 1, f)
    /\ x[i].need # {} => \A f \in x[i].minus : Given(x, i - 1, f)

GuardedUnlessListed ==
  \A d \in Directions : \A m \in DOMAIN Migrations :
    <<d, Migrations[m]>> \notin Unguarded => \A x \in Paths(Body(d, m)) : Guarded(x)

\* The numbers that every list of pending migrations has before m, if it has m.
Precedes(n, m) == n < m /\ (m \in Seo => n \in Seo)

\* Nothing takes away what another migration leaves, unless it is one that has
\* to be pending no more, or not to be the last, for the other to be recorded.
NobodyElseRemoves ==
  \A m, n \in DOMAIN Migrations, d \in Directions :
    \A s \in Changes(d, n) : \A f \in Lasting[m] : Removes(s, f) => n = m \/ Precedes(n, m)

Sure(m) == Lasting[m] \ Losable

LeavesAll ==
  \A m \in DOMAIN Migrations : \A x \in Paths(Migrations[m].up) :
    \A f \in Sure(m) : Given(x, Len(x), f)

\* Up fails when it is repeated, and how it must find the schema.
Fragile == {m \in DOMAIN Migrations : <<"up", Migrations[m]>> \in Unguarded}
\* A guard decides whether all is done.
Deciding == {m \in DOMAIN Migrations : Lasting[m] \intersect Losable # {}}

FragileApart ==
  \A m \in Fragile : LET P == Plus(Migrations[m].up) M == Minus(Migrations[m].up) IN
    /\ P \intersect Base = {} /\ PropertyKey \notin P /\ M \subseteq Base
    /\ \A n \in DOMAIN Migrations \ {m}, d \in Directions :
         \A s \in Changes(d, n), f \in P \union M : f \notin s.plus /\ ~Removes(s, f)
    /\ \A x \in Paths(Migrations[m].up), f \in M : Gone(x, Len(x), f)
    /\ \A x \in Paths(Migrations[m].down) :
         /\ \A f \in P : Gone(x, Len(x), f)
         /\ \A f \in M : Given(x, Len(x), f)

DecidingApart ==
  \A m \in Deciding :
    /\ Tests(m) \ Base \subseteq Plus(Migrations[m].up) \ {PropertyKey}
    /\ \A n \in DOMAIN Migrations \ {m} :
         \A s \in Changes("up", n), f \in Tests(m) : f \notin s.plus /\ ~Removes(s, f)
    /\ \A x \in Paths(Migrations[m].up) :
         \/ \A f \in Lasting[m] : Given(x, Len(x), f)
         \/ \E i \in DOMAIN x, f \in Tests(m) :
              /\ IsIf(x[i])
              /\ \/ f \in x[i].need /\ f \notin Base /\ Unadded(x, i - 1, f)
                 \/ f \in x[i].free /\ f \in Base /\ Spared(x, i - 1, f)

\* Facts of the unified schema that nothing ever removes.
Stays ==
  {f \in Base : \A n \in DOMAIN Migrations, d \in Directions : \A s \in Changes(d, n) : ~Removes(s, f)}

\* Found when m starts, if nothing has died; there, and not there.
Preceding(m) == UNION {Sure(k) : k \in {n \in DOMAIN Migrations : Precedes(n, m)}}
Replaced(m) == IF m \in Fragile THEN Minus(Migrations[m].up) ELSE {}
Found(d, m) == Stays \union (IF d = "up" THEN Preceding(m) \union Replaced(m) ELSE Sure(m))
Missing(d, m) ==
  IF d = "up" THEN IF m \in Fragile THEN Plus(Migrations[m].up) ELSE {} ELSE Replaced(m)

Smooth(d, m) ==
  \A x \in Paths(Body(d, m)) : \A i \in DOMAIN x : IsIf(x[i]) \/
    /\ \A f \in x[i].need : Given(x, i - 1, f) \/ (f \in Found(d, m) /\ Spared(x, i - 1, f))
    /\ \A f \in x[i].free : Gone(x, i - 1, f) \/ (f \in Missing(d, m) /\ Unadded(x, i - 1, f))

NothingFails ==
  \A m \in DOMAIN Migrations :
    /\ m \in Fragile \union Deciding => Smooth("up", m)
    /\ Smooth("down", m)

WellFormed ==
  \A d \in Directions, m \in DOMAIN Migrations :
    LET L == Body(d, m) S == Statements(L) IN
    /\ L \in Seq(S) /\ \A s \in S : s.yes \in Seq(S) /\ s.no \in Seq(S)
    /\ OneGuard(L)
    /\ \A s \in Changes(d, m) : Grounded(s)

MigrationRules ==
  /\ WellFormed /\ BaseTabled /\ GuardedUnlessListed /\ NobodyElseRemoves /\ LeavesAll
  /\ FragileApart /\ DecidingApart /\ NothingFails
===============================================================================
