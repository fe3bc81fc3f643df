--------------------------- MODULE BracketProofs ---------------------------
(***************************************************************************)
(* What BracketMatch keeps in every tournament: for all numbers of games,   *)
(* players' submissions, overlapping runs, requests, failures and settings. *)
(***************************************************************************)
EXTENDS BracketMatch, FiniteSetTheorems, TLAPS

-----------------------------------------------------------------------------
(* The order of submissions *)

\* Submissions as far as the order reads them.
HasTimes(S) == \A s \in DOMAIN S : S[s].at \in Int /\ S[s].delay \in Int

\* A non-empty finite set of submissions has an earliest one: of the sets of what
\* comes before a member, one that is minimal is empty.
LEMMA EarliestExists ==
  ASSUME NEW S, HasTimes(S), DOMAIN S \subseteq Nat,
         NEW X \in SUBSET DOMAIN S, IsFiniteSet(X), X # {}
  PROVE  \E s \in X : \A t \in X \ {s} : Before(S, s, t)
<1> DEFINE Below(x) == {y \in X : Before(S, y, x)}
           T == {Below(x) : x \in X}
<1>1. T \subseteq FiniteSubsetsOf(X)
  <2>1. ASSUME NEW x \in X PROVE Below(x) \in FiniteSubsetsOf(X)
    <3>1. Below(x) \subseteq X
      OBVIOUS
    <3>2. IsFiniteSet(Below(x))
      BY <3>1, FS_Subset
    <3> QED BY <3>1, <3>2 DEF FiniteSubsetsOf
  <2> QED BY <2>1
<1>2. T # {}
  OBVIOUS
<1>3. \E B \in T : \A C \in T : ~(<<C, B>> \in StrictSubsetOrdering(X))
  <2>1. IsWellFoundedOn(StrictSubsetOrdering(X), FiniteSubsetsOf(X))
    BY FS_StrictSubsetOrderingWellFounded
  <2> HIDE DEF T
  <2> QED BY <2>1, <1>1, <1>2, WFMin
<1>4. PICK s \in X : \A y \in X : ~(<<Below(y), Below(s)>> \in StrictSubsetOrdering(X))
  BY <1>3
<1>5. ASSUME NEW y \in X, Before(S, y, s) PROVE FALSE
  <2>1. \A z \in X : Before(S, z, y) => Before(S, z, s)
    BY <1>5 DEF Before, Effective, HasTimes
  <2>2. ~Before(S, y, y)
    BY DEF Before, Effective, HasTimes
  <2>3. Below(y) \subseteq Below(s)
    BY <2>1
  <2>4. y \in Below(s) /\ y \notin Below(y)
    BY <1>5, <2>2
  <2>5. Below(y) \in SUBSET X /\ Below(s) \in SUBSET X /\ Below(y) # Below(s)
    BY <2>4
  <2> HIDE DEF Below
  <2>6. <<Below(y), Below(s)>> \in StrictSubsetOrdering(X)
    BY <2>3, <2>5 DEF StrictSubsetOrdering
  <2> QED BY <2>6, <1>4
<1>6. \A t \in X \ {s} : Before(S, s, t)
  BY <1>5 DEF Before, Effective, HasTimes
<1> QED BY <1>6

\* First is the earliest one.
LEMMA FirstIs ==
  ASSUME NEW S, HasTimes(S), DOMAIN S \subseteq Nat,
         NEW X \in SUBSET DOMAIN S, IsFiniteSet(X), X # {}
  PROVE  First(S, X) \in X /\ \A t \in X \ {First(S, X)} : Before(S, First(S, X), t)
BY EarliestExists DEF First

\* ... and the only one.
LEMMA FirstOnly ==
  ASSUME NEW S, HasTimes(S), DOMAIN S \subseteq Nat,
         NEW X \in SUBSET DOMAIN S, IsFiniteSet(X),
         NEW s \in X, \A t \in X \ {s} : Before(S, s, t)
  PROVE  First(S, X) = s
<1>1. First(S, X) \in X /\ \A t \in X \ {First(S, X)} : Before(S, First(S, X), t)
  BY FirstIs
<1> DEFINE f == First(S, X)
<1> HIDE DEF f
<1>2. SUFFICES ASSUME f # s PROVE FALSE
  BY DEF f
<1>3. Before(S, f, s) /\ Before(S, s, f) /\ f \in DOMAIN S /\ s \in DOMAIN S
  BY <1>1, <1>2 DEF f
<1> QED BY <1>3 DEF Before, Effective, HasTimes

-----------------------------------------------------------------------------
(* The inductive invariant *)

GameType ==
  [opened : Int, base : Int, deadline : Int, winner : Players \union {Nobody},
   decided : BOOLEAN]

MatchType ==
  [phase : Phases, games : Seq(GameType), score : [Players -> Nat],
   winner : Players \union {Nobody}, tiebreak : Nat, extra : Nat, nextAt : Int]

SubType ==
  [player : Players, game : Nat, at : 0..Horizon, delay : Nat,
   verdict : {"none", "AC", "WA"}, outcome : {"pending", "retired", "original", "toolate"}]

OpenPhases == {"InProgress", "Tiebreak", "AwaitingJudge"}

\* What holds of a match in every phase.
Sound(m) ==
  /\ m \in MatchType
  /\ Len(m.games) <= MaxGames /\ m.tiebreak <= Tiebreaks
  /\ ScoredOnce(m)
  /\ \A i \in DOMAIN m.games : m.games[i].winner # Nobody => m.games[i].decided
  /\ \A i \in DOMAIN m.games : i < Len(m.games) => m.games[i].decided

\* All games are decided and there is a next one.
Between(m) ==
  /\ \A i \in DOMAIN m.games : m.games[i].decided
  /\ Len(m.games) < Regular => \A p \in Players : m.score[p] < Target
  /\ Len(m.games) >= Regular =>
       Len(m.games) = Regular + m.tiebreak /\ m.tiebreak < Tiebreaks

\* The last game is open.
InPlay(m) ==
  /\ Len(m.games) >= 1 /\ ~m.games[Len(m.games)].decided
  /\ Len(m.games) <= Regular => \A p \in Players : m.score[p] < Target
  /\ Len(m.games) > Regular =>
       Len(m.games) = Regular + 1 + m.tiebreak /\ m.tiebreak < Tiebreaks

MatchOK(m) ==
  /\ Sound(m)
  /\ m.phase = "Preparing" => Between(m) /\ Len(m.games) = 0
  /\ m.phase = "Intermission" => Between(m)
  /\ m.phase \in OpenPhases => InPlay(m)

\* n is m or a later value of the match.
Follows(m, n) ==
  /\ m.phase = "Decided" => n = m
  /\ Len(m.games) <= Len(n.games) /\ n.extra <= m.extra
  /\ \A i \in DOMAIN m.games :
       /\ n.games[i].opened = m.games[i].opened /\ n.games[i].base = m.games[i].base
       /\ n.games[i].deadline = m.games[i].deadline
       /\ m.games[i].decided => n.games[i] = m.games[i]

\* Every submission arrived while its game was open.
InTime(m, S) ==
  \A s \in DOMAIN S :
    /\ S[s].game \in DOMAIN m.games
    /\ m.games[S[s].game].opened <= S[s].at
    /\ S[s].at < Cutoff(m.games[S[s].game].deadline)

-----------------------------------------------------------------------------
(* What a trigger makes of the match *)

\* Later values of later values are later values.
LEMMA FollowsTransitive ==
  ASSUME NEW m \in MatchType, NEW n \in MatchType, NEW o \in MatchType,
         Follows(m, n), Follows(n, o)
  PROVE  Follows(m, o)
<1>1. /\ m.games \in Seq(GameType) /\ n.games \in Seq(GameType) /\ o.games \in Seq(GameType)
      /\ m.extra \in Nat /\ n.extra \in Nat /\ o.extra \in Nat
  BY DEF MatchType
<1>2. m.phase = "Decided" => o = m
  BY DEF Follows
<1>3. Len(m.games) <= Len(o.games) /\ o.extra <= m.extra
  BY <1>1 DEF Follows
<1>4. ASSUME NEW i \in DOMAIN m.games
      PROVE  /\ o.games[i].opened = m.games[i].opened /\ o.games[i].base = m.games[i].base
             /\ o.games[i].deadline = m.games[i].deadline
             /\ m.games[i].decided => o.games[i] = m.games[i]
  <2>1. i \in DOMAIN n.games
    BY <1>1 DEF Follows
  <2> QED BY <2>1 DEF Follows
<1> QED BY <1>2, <1>3, <1>4 DEF Follows

\* A change of phase, or of the winner, leaves the games alone.
SameGames(m, n) ==
  /\ n.games = m.games /\ n.score = m.score /\ n.extra = m.extra

\* What reads the games alone is kept.
LEMMA SameGamesKept ==
  ASSUME NEW m, NEW n, NEW S, NEW extra, SameGames(m, n)
  PROVE  /\ ScoredOnce(m) => ScoredOnce(n)
         /\ EarliestIn(m, S) => EarliestIn(n, S)
         /\ ExtraCharged(m, S, extra) => ExtraCharged(n, S, extra)
<1>1. n.games = m.games /\ n.score = m.score /\ n.extra = m.extra
  BY DEF SameGames
<1>2. ScoredOnce(m) => ScoredOnce(n)
  BY <1>1 DEF ScoredOnce
<1>3. EarliestIn(m, S) => EarliestIn(n, S)
  BY <1>1 DEF EarliestIn
<1>4. \A i : ExtraAfter(m, S, extra, i) = ExtraAfter(n, S, extra, i)
  BY <1>1 DEF ExtraAfter, Overtime
<1>5. ExtraCharged(m, S, extra) => ExtraCharged(n, S, extra)
  BY <1>1, <1>4 DEF ExtraCharged
<1> QED BY <1>2, <1>3, <1>5

\* What a trigger makes of the match keeps its invariant and goes on from it.
Carried(m, n, S, extra) ==
  /\ MatchOK(n) /\ Follows(m, n)
  /\ EarliestIn(n, S) /\ ExtraCharged(n, S, extra)

\* A match whose games are left alone.
LEMMA RephasedCarried ==
  ASSUME NEW m \in MatchType, NEW n \in MatchType, NEW S, NEW extra,
         SameGames(m, n), n.tiebreak = m.tiebreak, m.phase # "Decided",
         Sound(m), EarliestIn(m, S), ExtraCharged(m, S, extra),
         \/ n.phase \in Over
         \/ n.phase = "AwaitingJudge" /\ InPlay(m)
         \/ n.phase = "Intermission" /\ Between(m)
  PROVE  Carried(m, n, S, extra)
<1>1. n.games = m.games /\ n.score = m.score /\ n.extra = m.extra
  BY DEF SameGames
<1>2. ScoredOnce(n) /\ EarliestIn(n, S) /\ ExtraCharged(n, S, extra)
  BY SameGamesKept DEF Sound
<1>3. Sound(n)
  BY <1>1, <1>2 DEF Sound
<1>4. InPlay(m) => InPlay(n)
  BY <1>1 DEF InPlay
<1>5. Between(m) => Between(n)
  BY <1>1 DEF Between
<1>6. MatchOK(n)
  BY <1>3, <1>4, <1>5 DEF MatchOK, Over, OpenPhases
<1>7. m.extra \in Nat /\ Len(m.games) \in Nat
  BY DEF MatchType
<1>8. Follows(m, n)
  BY <1>1, <1>7 DEF Follows
<1> QED BY <1>2, <1>6, <1>8 DEF Carried

\* The next game is opened with all of the extra time left.
LEMMA OpenedCarried ==
  ASSUME NEW m \in MatchType, NEW S, NEW extra, NEW at \in Int,
         NEW phase \in {"InProgress", "Tiebreak"},
         m.phase # "Decided", Sound(m), Between(m), EarliestIn(m, S), ExtraCharged(m, S, extra)
  PROVE  Carried(m, OpenGame(m, phase, at).match, S, extra)
<1> DEFINE base == at + Length
           deadline == base + IF Len(m.games) < Regular THEN m.extra ELSE 0
           g == [opened |-> at, base |-> base, deadline |-> deadline, winner |-> Nobody,
                 decided |-> FALSE]
           n == OpenGame(m, phase, at).match
           k == Len(m.games)
<1>1. m.games \in Seq(GameType) /\ m.extra \in Nat /\ m.score \in [Players -> Nat] /\ k \in Nat
  BY DEF MatchType
<1>2. base \in Int /\ deadline \in Int
  BY <1>1, MatchSettings
<1>3. g \in GameType
  <2> HIDE DEF base, deadline
  <2> QED BY <1>2 DEF GameType
<1>4. n = [m EXCEPT !.phase = phase, !.games = Append(@, g)]
  BY Zenon DEF OpenGame, Made
<1>5. /\ n.games = Append(m.games, g) /\ n.phase = phase /\ n.score = m.score
      /\ n.extra = m.extra /\ n.tiebreak = m.tiebreak /\ n \in MatchType
  <2> HIDE DEF n, g
  <2>1. Append(m.games, g) \in Seq(GameType)
    BY <1>1, <1>3
  <2> QED BY <1>4, <2>1 DEF MatchType, Phases
<1>6. /\ g.winner = Nobody /\ g.decided = FALSE /\ g.deadline = deadline /\ g.base = base
  OBVIOUS
<1> HIDE DEF g, n
<1>7. /\ Len(n.games) = k + 1 /\ DOMAIN m.games = 1..k /\ DOMAIN n.games = 1..(k + 1)
      /\ \A i \in 1..k : n.games[i] = m.games[i]
      /\ n.games[k + 1] = g
  BY <1>1, <1>3, <1>5
<1> HIDE DEF k
<1>8. Regular \in Nat /\ Tiebreaks \in Nat /\ MaxGames = Regular + Tiebreaks
  BY MatchSettings DEF MaxGames
<1>9. ScoredOnce(n)
  <2>1. ASSUME NEW p \in Players
        PROVE  {i \in DOMAIN n.games : n.games[i].winner = p} =
                 {i \in DOMAIN m.games : m.games[i].winner = p}
    BY <1>1, <1>6, <1>7 DEF Players, Nobody
  <2> QED BY <2>1, <1>5 DEF ScoredOnce, Sound
<1>10. ~n.games[k + 1].decided
  BY <1>6, <1>7
<1>11. Sound(n)
  <2>1. Len(n.games) <= MaxGames
    BY <1>1, <1>7, <1>8, <1>5 DEF Between, k, MatchType
  <2>2. \A i \in DOMAIN n.games : n.games[i].winner # Nobody => n.games[i].decided
    BY <1>1, <1>6, <1>7 DEF Sound
  <2>3. \A i \in DOMAIN n.games : i < Len(n.games) => n.games[i].decided
    BY <1>1, <1>7 DEF Between
  <2> QED BY <2>1, <2>2, <2>3, <1>5, <1>9 DEF Sound
<1>12. InPlay(n)
  <2>1. n.games[Len(n.games)] = g
    BY <1>7
  <2>2. Len(n.games) >= 1
    BY <1>1, <1>7
  <2>3. Len(n.games) <= Regular => \A p \in Players : n.score[p] < Target
    BY <1>1, <1>7, <1>8, <1>5 DEF Between, k
  <2>4. ASSUME Len(n.games) > Regular
        PROVE  Len(n.games) = Regular + 1 + n.tiebreak /\ n.tiebreak < Tiebreaks
    <3>1. k >= Regular /\ m.tiebreak \in Nat
      BY <2>4, <1>1, <1>7, <1>8 DEF MatchType
    <3>2. k = Regular + m.tiebreak /\ m.tiebreak < Tiebreaks
      BY <3>1 DEF Between, k
    <3>3. Len(n.games) = k + 1 /\ n.tiebreak = m.tiebreak
      BY <1>5, <1>7
    <3>4. k + 1 = Regular + 1 + m.tiebreak
      BY <3>1, <3>2, <1>8
    <3> QED BY <3>2, <3>3, <3>4
  <2> QED BY <2>1, <2>2, <2>3, <2>4, <1>6 DEF InPlay
<1>13. MatchOK(n)
  BY <1>5, <1>11, <1>12 DEF MatchOK
<1>14. Follows(m, n)
  BY <1>1, <1>5, <1>7 DEF Follows, k
<1>15. EarliestIn(n, S)
  <2> SUFFICES ASSUME NEW i \in DOMAIN n.games, n.games[i].decided
               PROVE  LET good == {s \in DOMAIN S : S[s].game = i /\ S[s].verdict # "WA"} IN
                        IF good = {} THEN n.games[i].winner = Nobody
                        ELSE /\ S[First(S, good)].verdict = "AC"
                             /\ n.games[i].winner = S[First(S, good)].player
    BY DEF EarliestIn
  <2>1. i \in DOMAIN m.games /\ n.games[i] = m.games[i]
    BY <1>1, <1>7, <1>10
  <2> QED BY <2>1 DEF EarliestIn
<1>16. \A i \in 0..k : ExtraAfter(n, S, extra, i) = ExtraAfter(m, S, extra, i)
  BY <1>1, <1>7 DEF ExtraAfter, Overtime
<1>17. ExtraCharged(n, S, extra)
  <2>1. m.extra = ExtraAfter(m, S, extra, IF k <= Regular THEN k ELSE Regular)
    BY DEF ExtraCharged, k
  <2>2. k < Regular => deadline - base = m.extra
    BY <1>1, <1>2 DEF k
  <2> HIDE DEF deadline, base
  <2>3. ASSUME k < Regular PROVE ExtraAfter(n, S, extra, k + 1) = m.extra
    <3>1. ExtraAfter(n, S, extra, k + 1) = n.games[k + 1].deadline - n.games[k + 1].base - 0
      BY <1>1, <1>10 DEF ExtraAfter
    <3> QED BY <3>1, <2>2, <2>3, <1>1, <1>2, <1>6, <1>7
  <2>4. ASSUME NEW i \in DOMAIN n.games, i <= Regular
        PROVE  n.games[i].deadline - n.games[i].base = ExtraAfter(n, S, extra, i - 1)
    <3>1. CASE i <= k
      <4>1. i \in DOMAIN m.games /\ n.games[i] = m.games[i] /\ i - 1 \in 0..k
        BY <1>1, <1>7, <3>1
      <4>2. m.games[i].deadline - m.games[i].base = ExtraAfter(m, S, extra, i - 1)
        BY <4>1, <2>4 DEF ExtraCharged
      <4> QED BY <4>1, <4>2, <1>16
    <3>2. CASE i = k + 1
      <4>1. k < Regular /\ i - 1 = k /\ k \in 0..k /\ k <= Regular
        BY <1>1, <3>2, <2>4, <1>8
      <4>2. m.extra = ExtraAfter(m, S, extra, k)
        BY <2>1, <4>1
      <4> QED BY <4>1, <4>2, <3>2, <1>16, <2>2, <1>6, <1>7
    <3> QED BY <3>1, <3>2, <1>1, <1>7
  <2>5. n.extra = ExtraAfter(n, S, extra, IF k + 1 <= Regular THEN k + 1 ELSE Regular)
    <3>1. CASE k < Regular
      BY <3>1, <2>3, <1>1, <1>5, <1>8
    <3>2. CASE ~(k < Regular)
      <4>1. Regular \in 0..k /\ ~(k + 1 <= Regular) /\ (IF k <= Regular THEN k ELSE Regular) = Regular
        BY <3>2, <1>1, <1>8
      <4> QED BY <4>1, <2>1, <1>5, <1>16
    <3> QED BY <3>1, <3>2
  <2> QED BY <2>4, <2>5, <1>7 DEF ExtraCharged
<1> QED BY <1>13, <1>14, <1>15, <1>17 DEF Carried, n

\* The fields of a submission.
LEMMA SubFields ==
  ASSUME NEW S \in Seq(SubType), NEW s \in DOMAIN S
  PROVE  /\ S[s] \in SubType
         /\ S[s].player \in Players /\ S[s].game \in Nat
         /\ S[s].at \in Int /\ S[s].at \in 0..Horizon /\ S[s].delay \in Int /\ S[s].delay \in Nat
         /\ S[s].verdict \in {"none", "AC", "WA"}
         /\ S[s].outcome \in {"pending", "retired", "original", "toolate"}
<1>1. S[s] \in SubType
  OBVIOUS
<1>2. S[s].at \in 0..Horizon /\ S[s].delay \in Nat
  BY <1>1 DEF SubType
<1>3. S[s].at \in Int /\ S[s].delay \in Int
  BY <1>2
<1>4. S[s].player \in Players /\ S[s].game \in Nat
  BY <1>1 DEF SubType
<1>5. S[s].verdict \in {"none", "AC", "WA"}
  BY <1>1 DEF SubType
<1>6. S[s].outcome \in {"pending", "retired", "original", "toolate"}
  BY <1>1 DEF SubType
<1> QED BY <1>1, <1>2, <1>3, <1>4, <1>5, <1>6

\* The submissions of the current game, all of which are in time.
LEMMA AllInGame ==
  ASSUME NEW m \in MatchType, NEW S \in Seq(SubType), InTime(m, S), Len(m.games) >= 1
  PROVE  /\ InGame(m, S) = {s \in DOMAIN S : S[s].game = Len(m.games)}
         /\ Eligible(m, S) = {s \in DOMAIN S : S[s].game = Len(m.games)}
         /\ Accepted(m, S) = {s \in DOMAIN S : S[s].game = Len(m.games) /\ S[s].verdict = "AC"}
<1>1. ASSUME NEW s \in DOMAIN S, S[s].game = Len(m.games)
      PROVE  /\ Game(m).opened <= S[s].at /\ S[s].at < Game(m).deadline
             /\ S[s].at < Cutoff(Game(m).deadline)
  <2>1. Len(m.games) \in DOMAIN m.games /\ m.games \in Seq(GameType)
    BY DEF MatchType
  <2>2. Game(m) \in GameType
    BY <2>1 DEF Game
  <2>3. Game(m).opened <= S[s].at /\ S[s].at < Cutoff(Game(m).deadline)
    BY <1>1 DEF InTime, Game
  <2>4. Game(m).deadline \in Int /\ S[s].at \in Int
    BY <2>2, SubFields DEF GameType
  <2> QED BY <2>3, <2>4, MatchSettings DEF Cutoff
<1>2. InGame(m, S) = {s \in DOMAIN S : S[s].game = Len(m.games)}
  BY <1>1 DEF InGame
<1>3. Eligible(m, S) = {s \in DOMAIN S : S[s].game = Len(m.games)}
  BY <1>1, <1>2 DEF Eligible
<1> QED BY <1>2, <1>3 DEF Accepted

\* Submissions are as First needs them.
LEMMA SubsOrdered ==
  ASSUME NEW S \in Seq(SubType)
  PROVE  /\ HasTimes(S) /\ DOMAIN S \subseteq Nat
         /\ \A X \in SUBSET DOMAIN S : IsFiniteSet(X)
<1>1. \A s \in DOMAIN S : S[s].at \in Int /\ S[s].delay \in Int
  BY SubFields
<1>2. DOMAIN S = 1..Len(S) /\ Len(S) \in Nat
  OBVIOUS
<1>3. IsFiniteSet(1..Len(S))
  BY <1>2, FS_Interval
<1>4. \A X \in SUBSET DOMAIN S : IsFiniteSet(X)
  BY <1>2, <1>3, FS_Subset
<1> QED BY <1>1, <1>2, <1>4 DEF HasTimes

\* An accepted submission that nothing in flight can beat is the first of all that
\* are not wrong.
LEMMA UnblockedIsFirst ==
  ASSUME NEW m \in MatchType, NEW S \in Seq(SubType), InTime(m, S), Len(m.games) >= 1,
         Blockers(m, S) = {},
         NEW good, good = {s \in DOMAIN S : S[s].game = Len(m.games) /\ S[s].verdict # "WA"}
  PROVE  /\ Accepted(m, S) = {} => good = {}
         /\ Accepted(m, S) # {} =>
              /\ BestAC(m, S) \in Accepted(m, S)
              /\ First(S, good) = BestAC(m, S) /\ good # {}
<1>1. /\ Eligible(m, S) = {s \in DOMAIN S : S[s].game = Len(m.games)}
      /\ Accepted(m, S) = {s \in DOMAIN S : S[s].game = Len(m.games) /\ S[s].verdict = "AC"}
  BY AllInGame
<1>2. \A s \in DOMAIN S : S[s].verdict \in {"none", "AC", "WA"}
  BY SubFields
<1>3. ASSUME Accepted(m, S) = {} PROVE good = {}
  <2>1. InFlight(S, Eligible(m, S)) = {}
    BY <1>3 DEF Blockers
  <2> QED BY <2>1, <1>1, <1>2, <1>3 DEF InFlight
<1>4. ASSUME Accepted(m, S) # {}
      PROVE  /\ BestAC(m, S) \in Accepted(m, S)
             /\ First(S, good) = BestAC(m, S) /\ good # {}
  <2> DEFINE b == BestAC(m, S)
  <2>0. HasTimes(S) /\ DOMAIN S \subseteq Nat /\ \A X \in SUBSET DOMAIN S : IsFiniteSet(X)
    BY SubsOrdered
  <2>1. b \in Accepted(m, S) /\ \A t \in Accepted(m, S) \ {b} : Before(S, b, t)
    <3>1. Accepted(m, S) \in SUBSET DOMAIN S /\ IsFiniteSet(Accepted(m, S))
      BY <1>1, <2>0
    <3> QED BY <3>1, <2>0, <1>4, FirstIs DEF BestAC
  <2> HIDE DEF b
  <2>2. \A s \in InFlight(S, Eligible(m, S)) : ~Before(S, s, b)
    BY <1>4 DEF Blockers, b
  <2>3. ASSUME NEW t \in good \ {b} PROVE Before(S, b, t)
    <3>1. CASE S[t].verdict = "AC"
      BY <3>1, <2>1, <1>1
    <3>2. CASE S[t].verdict = "none"
      <4>1. ~Before(S, t, b)
        BY <3>2, <2>2, <1>1 DEF InFlight
      <4>2. b \in DOMAIN S /\ t \in DOMAIN S /\ b # t
        BY <2>1, <1>1
      <4> QED BY <4>1, <4>2, <2>0 DEF Before, Effective, HasTimes
    <3> QED BY <3>1, <3>2, <1>2
  <2>4. b \in good /\ good \in SUBSET DOMAIN S
    BY <2>1, <1>1
  <2>5. IsFiniteSet(good)
    BY <2>4, <2>0
  <2>6. First(S, good) = b
    BY <2>0, <2>3, <2>4, <2>5, FirstOnly
  <2> QED BY <2>1, <2>4, <2>6 DEF b
<1> QED BY <1>3, <1>4

\* The winner of the game that is decided, and the extra time it used.
WinnerOf(m, S) == IF Accepted(m, S) # {} THEN S[BestAC(m, S)].player ELSE Nobody

EndOf(m, S) == IF Accepted(m, S) # {} THEN S[BestAC(m, S)].at ELSE Game(m).deadline

UsedBy(m, S) == IF IsRegular(m) THEN Clamp(EndOf(m, S) - Game(m).base, m.extra) ELSE 0

\* What Scored changes.
LEMMA ScoredFields ==
  ASSUME NEW m \in MatchType, NEW S, Len(m.games) >= 1,
         WinnerOf(m, S) \in Players \union {Nobody},
         UsedBy(m, S) \in Nat, UsedBy(m, S) <= m.extra
  PROVE  LET n == Scored(m, S)
             k == Len(m.games)
         IN /\ n \in MatchType
            /\ Len(n.games) = k /\ n.games \in Seq(GameType)
            /\ \A i \in DOMAIN m.games : i # k => n.games[i] = m.games[i]
            /\ n.games[k].opened = m.games[k].opened /\ n.games[k].base = m.games[k].base
            /\ n.games[k].deadline = m.games[k].deadline
            /\ n.games[k].winner = WinnerOf(m, S) /\ n.games[k].decided
            /\ n.score = [p \in Players |-> IF p = WinnerOf(m, S) THEN m.score[p] + 1 ELSE m.score[p]]
            /\ n.extra = m.extra - UsedBy(m, S)
            /\ n.phase = (IF IsRegular(m) THEN "InProgress" ELSE "Tiebreak")
            /\ n.tiebreak = m.tiebreak
<1> DEFINE n == Scored(m, S)
           k == Len(m.games)
           w == WinnerOf(m, S)
           u == UsedBy(m, S)
           g == [m.games[k] EXCEPT !.winner = w, !.decided = TRUE]
           G == [m.games EXCEPT ![k] = g]
           sc == [p \in Players |-> IF p = w THEN m.score[p] + 1 ELSE m.score[p]]
           ph == IF IsRegular(m) THEN "InProgress" ELSE "Tiebreak"
<1>1. /\ m.games \in Seq(GameType) /\ m.extra \in Nat /\ m.score \in [Players -> Nat]
      /\ k \in DOMAIN m.games /\ m.games[k] \in GameType
  BY DEF MatchType
<1>2. n = [m EXCEPT !.games = G, !.score = sc, !.extra = m.extra - u, !.phase = ph]
  BY DEF Scored, WinnerOf, UsedBy, EndOf
<1>3. /\ g \in GameType /\ g.opened = m.games[k].opened /\ g.base = m.games[k].base
      /\ g.deadline = m.games[k].deadline /\ g.winner = w /\ g.decided
  <2> HIDE DEF w
  <2>0. w \in Players \union {Nobody}
    BY DEF w
  <2> QED BY <1>1, <2>0 DEF GameType
<1> HIDE DEF g
<1>4. /\ G \in Seq(GameType) /\ Len(G) = k /\ G[k] = g
      /\ \A i \in DOMAIN m.games : i # k => G[i] = m.games[i]
  BY <1>1, <1>3
<1>5. sc \in [Players -> Nat]
  <2> HIDE DEF w
  <2> QED BY <1>1
<1>6. m.extra - u \in Nat
  BY <1>1
<1>7. ph \in Phases
  BY DEF Phases
<1> HIDE DEF n, G, sc, ph, u, k, w
<1>8. /\ n \in MatchType /\ n.games = G /\ n.score = sc /\ n.extra = m.extra - u /\ n.phase = ph
      /\ n.tiebreak = m.tiebreak
  BY <1>2, <1>4, <1>5, <1>6, <1>7 DEF MatchType
<1> QED BY <1>3, <1>4, <1>8 DEF n, k, w, u, sc, ph

\* The match right after a game was scored.
Closed(n) ==
  /\ \A i \in DOMAIN n.games : n.games[i].decided
  /\ Len(n.games) >= 1
  /\ Len(n.games) <= Regular =>
       n.phase = "InProgress" /\ \E p \in Players : n.score[p] < Target
  /\ Len(n.games) > Regular =>
       /\ n.phase = "Tiebreak" /\ Len(n.games) = Regular + 1 + n.tiebreak
       /\ n.tiebreak < Tiebreaks

\* A game whose outcome no submission in flight can change is scored once, for its
\* earliest accepted submission, and what it used is charged.
LEMMA ScoredClosed ==
  ASSUME NEW m \in MatchType, NEW S \in Seq(SubType), NEW extra, m.phase \in OpenPhases,
         MatchOK(m), InTime(m, S), EarliestIn(m, S), ExtraCharged(m, S, extra),
         Blockers(m, S) = {}
  PROVE  LET n == Scored(m, S) IN
           /\ n \in MatchType /\ Sound(n) /\ Closed(n) /\ Follows(m, n)
           /\ EarliestIn(n, S) /\ ExtraCharged(n, S, extra)
<1> DEFINE n == Scored(m, S)
           k == Len(m.games)
           w == WinnerOf(m, S)
           u == UsedBy(m, S)
           good == {s \in DOMAIN S : S[s].game = k /\ S[s].verdict # "WA"}
           acs == {s \in DOMAIN S : S[s].game = k /\ S[s].verdict = "AC"}
<1>1. /\ m.games \in Seq(GameType) /\ m.extra \in Nat /\ m.score \in [Players -> Nat]
      /\ k \in Nat /\ m.tiebreak \in Nat
  BY DEF MatchType
<1>2. /\ Sound(m) /\ InPlay(m) /\ k >= 1 /\ k \in DOMAIN m.games /\ DOMAIN m.games = 1..k
  BY <1>1 DEF MatchOK, InPlay
<1>3. m.games[k] \in GameType /\ Game(m) = m.games[k]
  BY <1>1, <1>2 DEF Game
<1>4. Regular \in Nat /\ Target \in Nat /\ Tiebreaks \in Nat
  BY MatchSettings
<1>5. /\ Accepted(m, S) = {} => good = {}
      /\ Accepted(m, S) # {} =>
           BestAC(m, S) \in Accepted(m, S) /\ First(S, good) = BestAC(m, S) /\ good # {}
  BY <1>2, UnblockedIsFirst
<1>6. Accepted(m, S) = acs
  BY <1>2, AllInGame
<1>7. Accepted(m, S) # {} =>
        /\ BestAC(m, S) \in DOMAIN S /\ S[BestAC(m, S)].verdict = "AC"
        /\ S[BestAC(m, S)].player \in Players /\ S[BestAC(m, S)].game = k
        /\ S[BestAC(m, S)].at \in Int
        /\ S[BestAC(m, S)].at < m.games[k].deadline
  <2> SUFFICES ASSUME Accepted(m, S) # {}
               PROVE  /\ BestAC(m, S) \in DOMAIN S /\ S[BestAC(m, S)].verdict = "AC"
                      /\ S[BestAC(m, S)].player \in Players /\ S[BestAC(m, S)].game = k
                      /\ S[BestAC(m, S)].at \in Int
                      /\ S[BestAC(m, S)].at < m.games[k].deadline
    OBVIOUS
  <2>1. BestAC(m, S) \in acs
    BY <1>5, <1>6
  <2>2. BestAC(m, S) \in InGame(m, S)
    <3>1. InGame(m, S) = {s \in DOMAIN S : S[s].game = k}
      BY <1>2, AllInGame
    <3> QED BY <3>1, <2>1
  <2>3. S[BestAC(m, S)].at < Game(m).deadline
    BY <2>2 DEF InGame
  <2> QED BY <2>1, <2>3, <1>3, SubFields
<1>8. w \in Players \union {Nobody}
  BY <1>7 DEF WinnerOf
<1>9. k <= Regular => m.extra = m.games[k].deadline - m.games[k].base
  <2> SUFFICES ASSUME k <= Regular PROVE m.extra = m.games[k].deadline - m.games[k].base
    OBVIOUS
  <2>1. m.extra = ExtraAfter(m, S, extra, k)
    BY DEF ExtraCharged
  <2>2. ~m.games[k].decided
    BY <1>2 DEF InPlay
  <2>3. ExtraAfter(m, S, extra, k) = m.games[k].deadline - m.games[k].base - 0
    BY <2>2, <1>2, <1>1 DEF ExtraAfter
  <2> QED BY <2>1, <2>3, <1>3 DEF GameType
<1>10. /\ u \in Nat /\ u <= m.extra
       /\ k <= Regular =>
            u = (IF EndOf(m, S) > m.games[k].base THEN EndOf(m, S) - m.games[k].base ELSE 0)
       /\ k > Regular => u = 0
  <2>1. m.games[k].deadline \in Int /\ m.games[k].base \in Int
    BY <1>3 DEF GameType
  <2>2. EndOf(m, S) \in Int /\ EndOf(m, S) <= m.games[k].deadline
    BY <1>3, <1>7, <2>1 DEF EndOf
  <2>3. CASE k <= Regular
    <3>1. u = Clamp(EndOf(m, S) - m.games[k].base, m.extra)
      BY <2>3, <1>3 DEF UsedBy, IsRegular
    <3> DEFINE e == EndOf(m, S)
               from == m.games[k].base
               to == m.games[k].deadline
               x == m.extra
    <3>2. e \in Int /\ from \in Int /\ to \in Int /\ x \in Nat /\ x = to - from /\ e <= to
      BY <2>1, <2>2, <2>3, <1>1, <1>9
    <3> HIDE DEF u, e, from, to, x
    <3>3. u = Clamp(e - from, x)
      BY <3>1 DEF e, from, x
    <3>4. u \in Nat /\ u <= x /\ u = (IF e > from THEN e - from ELSE 0)
      BY <3>2, <3>3 DEF Clamp
    <3>5. ~(k > Regular)
      BY <2>3, <1>1, <1>4
    <3> QED BY <3>4, <3>5 DEF e, from, x
  <2>4. CASE ~(k <= Regular)
    BY <2>4, <1>1, <1>4 DEF UsedBy, IsRegular
  <2> QED BY <2>3, <2>4
<1>11. /\ n \in MatchType
       /\ Len(n.games) = k /\ n.games \in Seq(GameType)
       /\ \A i \in DOMAIN m.games : i # k => n.games[i] = m.games[i]
       /\ n.games[k].opened = m.games[k].opened /\ n.games[k].base = m.games[k].base
       /\ n.games[k].deadline = m.games[k].deadline
       /\ n.games[k].winner = w /\ n.games[k].decided
       /\ n.score = [p \in Players |-> IF p = w THEN m.score[p] + 1 ELSE m.score[p]]
       /\ n.extra = m.extra - u
       /\ n.phase = (IF k <= Regular THEN "InProgress" ELSE "Tiebreak")
       /\ n.tiebreak = m.tiebreak
  BY <1>2, <1>8, <1>10, ScoredFields DEF IsRegular
<1> HIDE DEF n, w, u, k
<1>12. DOMAIN n.games = 1..k
  BY <1>11
<1>13. ScoredOnce(n)
  <2> SUFFICES ASSUME NEW p \in Players
               PROVE  n.score[p] = Cardinality({i \in DOMAIN n.games : n.games[i].winner = p})
    BY DEF ScoredOnce
  <2> DEFINE A == {i \in DOMAIN m.games : m.games[i].winner = p}
             B == {i \in DOMAIN n.games : n.games[i].winner = p}
  <2>1. m.score[p] = Cardinality(A)
    BY <1>2 DEF Sound, ScoredOnce
  <2>2. IsFiniteSet(A)
    <3>1. IsFiniteSet(1..k)
      BY <1>1, FS_Interval
    <3>2. A \subseteq 1..k
      BY <1>2
    <3> QED BY <3>1, <3>2, FS_Subset
  <2>3. k \notin A
    <3>1. m.games[k].winner = Nobody
      BY <1>2 DEF InPlay, Sound, k
    <3> QED BY <3>1 DEF Players, Nobody
  <2>4. CASE p = w
    <3>1. B = A \union {k}
      BY <2>4, <1>2, <1>11, <1>12, <1>1
    <3>2. Cardinality(A \union {k}) = Cardinality(A) + 1
      <4> HIDE DEF A
      <4> QED BY <2>2, <2>3, FS_AddElement
    <3>3. n.score[p] = m.score[p] + 1
      BY <2>4, <1>11
    <3> QED BY <3>1, <3>2, <3>3, <2>1
  <2>5. CASE p # w
    <3>1. B = A
      BY <2>3, <2>5, <1>2, <1>11, <1>12, <1>1
    <3>2. n.score[p] = m.score[p]
      BY <2>5, <1>11
    <3> QED BY <3>1, <3>2, <2>1
  <2> QED BY <2>4, <2>5
<1>14. \A i \in DOMAIN n.games : n.games[i].decided
  <2>1. \A i \in DOMAIN m.games : i < k => m.games[i].decided
    BY <1>2 DEF Sound, k
  <2> QED BY <2>1, <1>1, <1>2, <1>11, <1>12
<1>15. Sound(n)
  BY <1>2, <1>11, <1>13, <1>14 DEF Sound, k
<1>16. Closed(n)
  <2>1. k <= Regular => \E p \in Players : n.score[p] < Target
    <3> SUFFICES ASSUME k <= Regular PROVE \E p \in Players : n.score[p] < Target
      OBVIOUS
    <3>1. \A p \in Players : m.score[p] < Target
      BY <1>2 DEF InPlay, k
    <3>2. \E p \in Players : p # w
      BY DEF Players
    <3> QED BY <3>1, <3>2, <1>11
  <2>2. k > Regular => k = Regular + 1 + m.tiebreak /\ m.tiebreak < Tiebreaks
    BY <1>2 DEF InPlay, k
  <2>3. k > Regular => ~(k <= Regular)
    BY <1>1, <1>4
  <2> QED BY <2>1, <2>2, <2>3, <1>2, <1>11, <1>14 DEF Closed
<1>17. Follows(m, n)
  <2>1. m.phase # "Decided"
    BY DEF OpenPhases
  <2>2. n.extra <= m.extra
    BY <1>1, <1>10, <1>11
  <2>3. Len(m.games) <= Len(n.games)
    BY <1>1, <1>11 DEF k
  <2>4. ~m.games[k].decided
    BY <1>2 DEF InPlay, k
  <2> QED BY <2>1, <2>2, <2>3, <2>4, <1>11 DEF Follows
<1>18. EarliestIn(n, S)
  <2> SUFFICES ASSUME NEW i \in DOMAIN n.games
               PROVE  LET g == {s \in DOMAIN S : S[s].game = i /\ S[s].verdict # "WA"} IN
                        n.games[i].decided =>
                          IF g = {} THEN n.games[i].winner = Nobody
                          ELSE /\ S[First(S, g)].verdict = "AC"
                               /\ n.games[i].winner = S[First(S, g)].player
    BY DEF EarliestIn
  <2>1. CASE i # k
    <3>1. i \in DOMAIN m.games /\ n.games[i] = m.games[i]
      BY <2>1, <1>2, <1>11, <1>12
    <3> QED BY <3>1 DEF EarliestIn
  <2>2. CASE i = k
    <3>1. IF good = {} THEN w = Nobody
          ELSE S[First(S, good)].verdict = "AC" /\ w = S[First(S, good)].player
      <4> HIDE DEF good
      <4> QED BY <1>5, <1>7 DEF WinnerOf, w
    <3> QED BY <3>1, <2>2, <1>11
  <2> QED BY <2>1, <2>2
<1>19. ASSUME NEW i \in 0..k, i # k
       PROVE  ExtraAfter(n, S, extra, i) = ExtraAfter(m, S, extra, i)
  <2>1. CASE i = 0
    BY <2>1 DEF ExtraAfter
  <2>2. CASE i # 0
    <3>1. i \in DOMAIN m.games
      BY <2>2, <1>1, <1>2
    <3>2. n.games[i] = m.games[i]
      BY <3>1, <1>11, <1>19
    <3> QED BY <3>2 DEF ExtraAfter, Overtime
  <2> QED BY <2>1, <2>2
<1>20. k <= Regular => ExtraAfter(n, S, extra, k) = n.extra
  <2> SUFFICES ASSUME k <= Regular PROVE ExtraAfter(n, S, extra, k) = n.extra
    OBVIOUS
  <2>1. (IF n.games[k].winner = Nobody THEN n.games[k].deadline ELSE S[First(S, acs)].at)
          = EndOf(m, S)
    <3>1. CASE Accepted(m, S) = {}
      BY <3>1, <1>11, <1>3 DEF WinnerOf, EndOf, w
    <3>2. CASE Accepted(m, S) # {}
      <4>1. w # Nobody
        BY <3>2, <1>7 DEF WinnerOf, w, Players, Nobody
      <4>2. First(S, acs) = BestAC(m, S)
        BY <1>6 DEF BestAC
      <4> QED BY <4>1, <4>2, <3>2, <1>11 DEF EndOf
    <3> QED BY <3>1, <3>2
  <2>2. Overtime(n, S, k) = u
    BY <2>1, <1>10, <1>11 DEF Overtime
  <2>3. ExtraAfter(n, S, extra, k) = n.games[k].deadline - n.games[k].base - u
    BY <2>2, <1>1, <1>2, <1>11 DEF ExtraAfter
  <2> QED BY <2>3, <1>9, <1>11
<1>21. ExtraCharged(n, S, extra)
  <2>1. ASSUME NEW i \in DOMAIN n.games, i <= Regular
        PROVE  n.games[i].deadline - n.games[i].base = ExtraAfter(n, S, extra, i - 1)
    <3>1. i \in DOMAIN m.games /\ i - 1 \in 0..k /\ i - 1 # k
      BY <1>1, <1>2, <1>12
    <3>2. m.games[i].deadline - m.games[i].base = ExtraAfter(m, S, extra, i - 1)
      BY <3>1, <2>1 DEF ExtraCharged
    <3>3. n.games[i].deadline = m.games[i].deadline /\ n.games[i].base = m.games[i].base
      BY <3>1, <1>11
    <3> QED BY <3>1, <3>2, <3>3, <1>19
  <2>2. n.extra = ExtraAfter(n, S, extra, IF k <= Regular THEN k ELSE Regular)
    <3>1. CASE k <= Regular
      BY <3>1, <1>20
    <3>2. CASE ~(k <= Regular)
      <4>1. m.extra = ExtraAfter(m, S, extra, Regular)
        BY <3>2 DEF ExtraCharged, k
      <4>2. Regular \in 0..k /\ Regular # k /\ u = 0
        BY <3>2, <1>1, <1>4, <1>10
      <4> QED BY <4>1, <4>2, <3>2, <1>1, <1>11, <1>19
    <3> QED BY <3>1, <3>2
  <2> QED BY <2>1, <2>2, <1>11 DEF ExtraCharged
<1> QED BY <1>11, <1>15, <1>16, <1>17, <1>18, <1>21 DEF n

\* The two players.
LEMMA OtherIsOther == Other("a") = "b" /\ Other("b") = "a"
<1>1. \E q \in Players : q # "a"
  BY DEF Players
<1>2. \E q \in Players : q # "b"
  BY DEF Players
<1>3. Other("a") \in Players /\ Other("a") # "a"
  BY <1>1 DEF Other
<1>4. Other("b") \in Players /\ Other("b") # "b"
  BY <1>2 DEF Other
<1> QED BY <1>3, <1>4 DEF Players

\* After a scored game the match is over, or there is a next game.
LEMMA DecidedGoesOn ==
  ASSUME NEW m \in MatchType, Sound(m), Closed(m)
  PROVE  LET n == DecideMatch(m) IN
           /\ n \in MatchType /\ Sound(n) /\ SameGames(m, n)
           /\ n.phase \in Over \/ (n.phase \in {"InProgress", "Tiebreak"} /\ Between(n))
<1> DEFINE n == DecideMatch(m)
           k == Len(m.games)
<1>1. /\ m.games \in Seq(GameType) /\ m.score \in [Players -> Nat] /\ k \in Nat
      /\ m.tiebreak \in Nat /\ m.extra \in Nat
  BY DEF MatchType
<1>2. Regular \in Nat /\ Target \in Nat /\ Tiebreaks \in Nat
  BY MatchSettings
<1>3. k \in DOMAIN m.games /\ Game(m) = m.games[k] /\ m.games[k] \in GameType
  BY <1>1 DEF Closed, Game
<1>4. ASSUME NEW o \in MatchType, o.games = m.games, o.score = m.score, o.extra = m.extra,
             o.tiebreak <= Tiebreaks
      PROVE  Sound(o) /\ SameGames(m, o)
  BY <1>4 DEF Sound, SameGames, ScoredOnce
<1>5. ASSUME NEW p \in Players
      PROVE  /\ Won(m, p) \in MatchType /\ Sound(Won(m, p)) /\ SameGames(m, Won(m, p))
             /\ Won(m, p).phase \in Over
  <2>1. /\ Won(m, p) \in MatchType /\ Won(m, p).games = m.games /\ Won(m, p).score = m.score
        /\ Won(m, p).extra = m.extra /\ Won(m, p).tiebreak = m.tiebreak
        /\ Won(m, p).phase = "Decided"
    BY DEF Won, MatchType, Phases, Over
  <2>2. m.tiebreak <= Tiebreaks
    BY DEF Sound
  <2> HIDE DEF Won
  <2> QED BY <2>1, <2>2, <1>4 DEF Over
<1>6. /\ Adjudicate(m) \in MatchType /\ Sound(Adjudicate(m)) /\ SameGames(m, Adjudicate(m))
      /\ Adjudicate(m).phase \in Over
  <2>1. /\ Adjudicate(m) \in MatchType /\ Adjudicate(m).games = m.games
        /\ Adjudicate(m).score = m.score /\ Adjudicate(m).extra = m.extra
        /\ Adjudicate(m).tiebreak = m.tiebreak /\ Adjudicate(m).phase = "NeedsAdjudication"
    BY DEF Adjudicate, MatchType, Phases, Over
  <2>2. m.tiebreak <= Tiebreaks
    BY DEF Sound
  <2> QED BY <2>1, <2>2, <1>4 DEF Over
<1>7. CASE m.phase = "Tiebreak"
  <2>1. k > Regular /\ k = Regular + 1 + m.tiebreak /\ m.tiebreak < Tiebreaks
    BY <1>1, <1>2, <1>7 DEF Closed
  <2>2. CASE Game(m).winner # Nobody
    <3>1. n = Won(m, Game(m).winner) /\ Game(m).winner \in Players
      BY <2>2, <1>3, <1>7 DEF DecideMatch, GameType
    <3> QED BY <3>1, <1>5
  <2>3. CASE Game(m).winner = Nobody /\ m.tiebreak + 1 < Tiebreaks
    <3> DEFINE x == m.tiebreak + 1
    <3>1. n = [m EXCEPT !.tiebreak = x]
      BY <2>3, <1>7 DEF DecideMatch
    <3>x. x \in Nat /\ x < Tiebreaks /\ x <= Tiebreaks /\ k = Regular + x
      <4>1. x < Tiebreaks
        BY <2>3
      <4>2. m.tiebreak \in Nat /\ k = Regular + 1 + m.tiebreak
        BY <2>1, <1>1
      <4> HIDE DEF k
      <4> QED BY <4>1, <4>2, <1>2
    <3> HIDE DEF n, x
    <3>2. /\ n \in MatchType /\ n.games = m.games /\ n.score = m.score /\ n.extra = m.extra
          /\ n.tiebreak = x /\ n.phase = "Tiebreak"
      BY <3>1, <3>x, <1>7 DEF MatchType
    <3>3. Sound(n) /\ SameGames(m, n)
      BY <3>2, <3>x, <1>4
    <3>4. Len(n.games) = Regular + n.tiebreak /\ n.tiebreak < Tiebreaks /\ ~(Len(n.games) < Regular)
      <4>1. ~(k < Regular)
        BY <3>x, <1>1, <1>2
      <4> QED BY <4>1, <3>2, <3>x
    <3>5. Between(n)
      BY <3>2, <3>4 DEF Between, Closed
    <3> QED BY <3>2, <3>3, <3>5 DEF n
  <2>4. CASE Game(m).winner = Nobody /\ ~(m.tiebreak + 1 < Tiebreaks)
    <3>1. n = Adjudicate(m)
      BY <2>4, <1>7 DEF DecideMatch
    <3> QED BY <3>1, <1>6
  <2> QED BY <2>2, <2>3, <2>4
<1>8. CASE m.phase # "Tiebreak"
  <2>1. k <= Regular /\ m.phase = "InProgress" /\ \E p \in Players : m.score[p] < Target
    BY <1>1, <1>2, <1>8 DEF Closed
  <2>2. CASE (\A p \in Players : m.score[p] < Target) /\ k < Regular
    <3>1. n = m
      BY <2>2, <1>8 DEF DecideMatch
    <3>2. Between(m)
      BY <2>2, <1>1, <1>2 DEF Between, Closed
    <3> QED BY <3>1, <3>2, <2>1 DEF SameGames
  <2>3. CASE ~((\A p \in Players : m.score[p] < Target) /\ k < Regular) /\ m.score["a"] = m.score["b"]
    <3>1. \A p \in Players : m.score[p] < Target
      <4>1. m.score["a"] < Target \/ m.score["b"] < Target
        BY <2>1 DEF Players
      <4>2. m.score["a"] < Target /\ m.score["b"] < Target
        BY <4>1, <2>3
      <4> QED BY <4>2 DEF Players
    <3>2. k = Regular
      BY <3>1, <2>1, <2>3, <1>1, <1>2
    <3>3. CASE Tiebreaks > 0
      <4>1. n = [m EXCEPT !.phase = "Tiebreak", !.tiebreak = 0]
        BY <3>3, <2>3, <1>8 DEF DecideMatch
      <4> HIDE DEF n
      <4>2. /\ n \in MatchType /\ n.games = m.games /\ n.score = m.score /\ n.extra = m.extra
            /\ n.tiebreak = 0 /\ n.phase = "Tiebreak"
        BY <4>1 DEF MatchType, Phases
      <4>3. Sound(n) /\ SameGames(m, n)
        BY <4>2, <3>3, <1>2, <1>4
      <4>4. Len(n.games) = Regular + n.tiebreak /\ n.tiebreak < Tiebreaks /\ ~(Len(n.games) < Regular)
        BY <4>2, <3>2, <3>3, <1>2
      <4>5. Between(n)
        BY <4>2, <4>4 DEF Between, Closed
      <4> QED BY <4>2, <4>3, <4>5 DEF n
    <3>4. CASE ~(Tiebreaks > 0)
      <4>1. n = Adjudicate(m)
        BY <3>4, <2>3, <1>8 DEF DecideMatch
      <4> QED BY <4>1, <1>6
    <3> QED BY <3>3, <3>4
  <2>4. CASE ~((\A p \in Players : m.score[p] < Target) /\ k < Regular) /\ m.score["a"] # m.score["b"]
    <3>1. n = Won(m, CHOOSE p \in Players : m.score[p] > m.score[Other(p)])
      BY <2>4, <1>8 DEF DecideMatch
    <3>2. Other("a") = "b" /\ Other("b") = "a"
      BY OtherIsOther
    <3>3. \E p \in Players : m.score[p] > m.score[Other(p)]
      <4>1. m.score["a"] \in Nat /\ m.score["b"] \in Nat /\ "a" \in Players /\ "b" \in Players
        BY <1>1 DEF Players
      <4>2. m.score["a"] > m.score["b"] \/ m.score["b"] > m.score["a"]
        BY <4>1, <2>4
      <4> QED BY <4>1, <4>2, <3>2
    <3>4. (CHOOSE p \in Players : m.score[p] > m.score[Other(p)]) \in Players
      BY <3>3
    <3> QED BY <3>1, <3>4, <1>5
  <2> QED BY <2>2, <2>3, <2>4
<1> QED BY <1>7, <1>8

\* Timers that are set together have keys of their own, and none is for staff.
ArmOK(arm) ==
  /\ \A x, y \in arm : x.key = y.key => x = y
  /\ \A x \in arm : x.key[1] # "staff"

\* A trigger's work on a match m that is in order.
Works(m, made, S, extra) == Carried(m, made.match, S, extra) /\ ArmOK(made.arm)

\* Made, by its fields.
LEMMA MadeFields ==
  ASSUME NEW m, NEW arm, NEW drop
  PROVE  Made(m, arm, drop).match = m /\ Made(m, arm, drop).arm = arm
BY DEF Made

\* The match is left as it is.
LEMMA Unmoved ==
  ASSUME NEW m \in MatchType, NEW S, NEW extra,
         MatchOK(m), EarliestIn(m, S), ExtraCharged(m, S, extra)
  PROVE  Carried(m, m, S, extra)
<1>1. m.extra \in Nat /\ Len(m.games) \in Nat
  BY DEF MatchType
<1>2. Follows(m, m)
  BY <1>1 DEF Follows
<1> QED BY <1>2 DEF Carried

\* A single timer.
LEMMA OneTimer ==
  ASSUME NEW key, NEW at, key[1] # "staff"
  PROVE  ArmOK({Timer(key, at)})
BY DEF ArmOK, Timer

\* No timer.
LEMMA NoTimer == ArmOK({})
BY DEF ArmOK

\* The keys of timers are not staff's.
LEMMA KeyNames ==
  /\ \A i : GameKey(i)[1] = "game" /\ WaitKey(i)[1] = "wait"
  /\ StartKey[1] = "start"
  /\ \A s, at : /\ EffectiveKey(s, at)[1] = "effective" /\ EffectiveKey(s, at)[2] = s
                /\ EffectiveKey(s, at)[3] = at
BY DEF GameKey, WaitKey, StartKey, EffectiveKey

\* The timers of an open game.
LEMMA WakeupsOK ==
  ASSUME NEW m, NEW S, NEW t
  PROVE  ArmOK(Wakeups(m, S, t))
<1> DEFINE X == {s \in Accepted(m, S) : t < Settles(m, S, s) /\ Settles(m, S, s) <= Cutoff(Game(m).deadline)}
           x0 == Timer(GameKey(Index(m)), Cutoff(Game(m).deadline))
           tm(s) == Timer(EffectiveKey(s, Settles(m, S, s)), Settles(m, S, s))
           W == Wakeups(m, S, t)
<1>1. W = {x0} \union {tm(s) : s \in X}
  BY DEF Wakeups
<1>2. x0.key[1] = "game"
  BY KeyNames DEF Timer
<1>3. ASSUME NEW s \in X PROVE tm(s).key[1] = "effective" /\ tm(s).key[2] = s
  BY KeyNames DEF Timer
<1> HIDE DEF x0, tm, X, W
<1>4. ASSUME NEW x \in W, NEW y \in W, x.key = y.key PROVE x = y
  <2>1. CASE x = x0 /\ y = x0
    BY <2>1
  <2>2. CASE x = x0 /\ y # x0
    <3>1. PICK s \in X : y = tm(s)
      BY <2>2, <1>1
    <3> QED BY <3>1, <2>2, <1>2, <1>3, <1>4
  <2>3. CASE x # x0 /\ y = x0
    <3>1. PICK s \in X : x = tm(s)
      BY <2>3, <1>1
    <3> QED BY <3>1, <2>3, <1>2, <1>3, <1>4
  <2>4. CASE x # x0 /\ y # x0
    <3>1. PICK s \in X : x = tm(s)
      BY <2>4, <1>1
    <3>2. PICK r \in X : y = tm(r)
      BY <2>4, <1>1
    <3>3. s = r
      BY <3>1, <3>2, <1>3, <1>4
    <3> QED BY <3>1, <3>2, <3>3
  <2> QED BY <2>1, <2>2, <2>3, <2>4
<1>5. ASSUME NEW x \in W PROVE x.key[1] # "staff"
  <2>1. CASE x = x0
    BY <2>1, <1>2
  <2>2. CASE x # x0
    <3>1. PICK s \in X : x = tm(s)
      BY <2>2, <1>1
    <3> QED BY <3>1, <1>3
  <2> QED BY <2>1, <2>2
<1> QED BY <1>4, <1>5 DEF ArmOK, W

\* The changes of phase.
LEMMA PhaseChanges ==
  ASSUME NEW m \in MatchType
  PROVE  /\ Adjudicate(m) \in MatchType /\ SameGames(m, Adjudicate(m))
         /\ Adjudicate(m).tiebreak = m.tiebreak /\ Adjudicate(m).phase = "NeedsAdjudication"
         /\ \A p \in Players :
              /\ Won(m, p) \in MatchType /\ SameGames(m, Won(m, p))
              /\ Won(m, p).tiebreak = m.tiebreak /\ Won(m, p).phase = "Decided"
         /\ LET w == [m EXCEPT !.phase = "AwaitingJudge"] IN
              /\ w \in MatchType /\ SameGames(m, w)
              /\ w.tiebreak = m.tiebreak /\ w.phase = "AwaitingJudge"
         /\ \A x \in Int :
              LET b == [m EXCEPT !.phase = "Intermission", !.nextAt = x] IN
                /\ b \in MatchType /\ SameGames(m, b)
                /\ b.tiebreak = m.tiebreak /\ b.phase = "Intermission"
<1>1. /\ Adjudicate(m) \in MatchType /\ SameGames(m, Adjudicate(m))
      /\ Adjudicate(m).tiebreak = m.tiebreak /\ Adjudicate(m).phase = "NeedsAdjudication"
  BY DEF Adjudicate, MatchType, Phases, Over, SameGames
<1>2. ASSUME NEW p \in Players
      PROVE  /\ Won(m, p) \in MatchType /\ SameGames(m, Won(m, p))
             /\ Won(m, p).tiebreak = m.tiebreak /\ Won(m, p).phase = "Decided"
  BY DEF Won, MatchType, Phases, Over, SameGames
<1>3. LET w == [m EXCEPT !.phase = "AwaitingJudge"] IN
        /\ w \in MatchType /\ SameGames(m, w)
        /\ w.tiebreak = m.tiebreak /\ w.phase = "AwaitingJudge"
  BY DEF MatchType, Phases, SameGames
<1>4. ASSUME NEW x \in Int
      PROVE  LET b == [m EXCEPT !.phase = "Intermission", !.nextAt = x] IN
               /\ b \in MatchType /\ SameGames(m, b)
               /\ b.tiebreak = m.tiebreak /\ b.phase = "Intermission"
  BY DEF MatchType, Phases, SameGames
<1> QED BY <1>1, <1>2, <1>3, <1>4

\* The match is handed to staff.
LEMMA AdjudicatedCarried ==
  ASSUME NEW m \in MatchType, NEW S, NEW extra, m.phase # "Decided",
         Sound(m), EarliestIn(m, S), ExtraCharged(m, S, extra)
  PROVE  Carried(m, Adjudicate(m), S, extra)
<1> DEFINE n == Adjudicate(m)
<1>1. n \in MatchType /\ SameGames(m, n) /\ n.tiebreak = m.tiebreak /\ n.phase = "NeedsAdjudication"
  BY PhaseChanges
<1> HIDE DEF n
<1>2. n.phase \in Over
  BY <1>1 DEF Over
<1>3. Carried(m, n, S, extra)
  BY <1>1, <1>2, RephasedCarried
<1> QED BY <1>3 DEF n

\* The match is won.
LEMMA WonCarried ==
  ASSUME NEW m \in MatchType, NEW S, NEW extra, NEW p \in Players, m.phase # "Decided",
         Sound(m), EarliestIn(m, S), ExtraCharged(m, S, extra)
  PROVE  Carried(m, Won(m, p), S, extra)
<1> DEFINE n == Won(m, p)
<1>1. n \in MatchType /\ SameGames(m, n) /\ n.tiebreak = m.tiebreak /\ n.phase = "Decided"
  BY PhaseChanges
<1> HIDE DEF n
<1>2. n.phase \in Over
  BY <1>1 DEF Over
<1>3. Carried(m, n, S, extra)
  BY <1>1, <1>2, RephasedCarried
<1> QED BY <1>3 DEF n

\* What is carried from a value of the match that follows m is carried from m.
LEMMA CarriedOn ==
  ASSUME NEW m \in MatchType, NEW n \in MatchType, NEW o, NEW S, NEW extra,
         Follows(m, n), Carried(n, o, S, extra)
  PROVE  Carried(m, o, S, extra)
<1>1. o \in MatchType
  BY DEF Carried, MatchOK, Sound
<1>2. Follows(m, o)
  BY <1>1, FollowsTransitive DEF Carried
<1> QED BY <1>2 DEF Carried

\* The timer of the game that is opened.
LEMMA OpenArm ==
  ASSUME NEW m, NEW phase, NEW at
  PROVE  ArmOK(OpenGame(m, phase, at).arm)
<1> DEFINE d == at + Length + IF Len(m.games) < Regular THEN m.extra ELSE 0
<1>1. OpenGame(m, phase, at).arm = {Timer(GameKey(Len(m.games) + 1), Cutoff(d))}
  BY MadeFields DEF OpenGame
<1> QED BY <1>1, OneTimer, KeyNames

\* The end of a game: adjudication, a break, or the next game at once.
LEMMA GoOnWorks ==
  ASSUME NEW m \in MatchType, NEW S, NEW extra, NEW t \in Int,
         m.phase \in {"InProgress", "Tiebreak"}, Sound(m), Between(m),
         EarliestIn(m, S), ExtraCharged(m, S, extra)
  PROVE  Works(m, GoOn(m, t), S, extra)
<1>1. CASE Ended(t)
  <2>1. GoOn(m, t) = Made(Adjudicate(m), {}, {WaitKey(Index(m))})
    BY <1>1 DEF GoOn
  <2>2. Carried(m, Adjudicate(m), S, extra)
    BY AdjudicatedCarried
  <2> QED BY <2>1, <2>2, MadeFields, NoTimer DEF Works
<1>2. CASE ~Ended(t) /\ Break = 0
  <2>1. GoOn(m, t) = OpenGame(m, m.phase, t)
    BY <1>2 DEF GoOn
  <2>2. Carried(m, OpenGame(m, m.phase, t).match, S, extra)
    BY OpenedCarried
  <2> QED BY <2>1, <2>2, OpenArm DEF Works
<1>3. CASE ~Ended(t) /\ Break # 0
  <2> DEFINE b == [m EXCEPT !.phase = "Intermission", !.nextAt = t + Break]
  <2>1. GoOn(m, t) = Made(b, {Timer(StartKey, t + Break)}, {})
    BY <1>3, Zenon DEF GoOn
  <2>2. /\ b \in MatchType /\ SameGames(m, b)
        /\ b.tiebreak = m.tiebreak /\ b.phase = "Intermission"
    <3>1. t + Break \in Int
      BY MatchSettings
    <3> QED BY <3>1, PhaseChanges
  <2> HIDE DEF b
  <2>3. Carried(m, b, S, extra)
    BY <2>2, RephasedCarried
  <2> QED BY <2>1, <2>3, MadeFields, OneTimer, KeyNames DEF Works
<1> QED BY <1>1, <1>2, <1>3

\* An open game goes on, waits, is cut short or is decided.
LEMMA PlayWorks ==
  ASSUME NEW m \in MatchType, NEW S \in Seq(SubType), NEW extra, NEW t \in Int,
         m.phase \in OpenPhases, MatchOK(m), InTime(m, S),
         EarliestIn(m, S), ExtraCharged(m, S, extra)
  PROVE  Works(m, PlayGame(m, S, t), S, extra)
<1> DEFINE outcome == Outcome(m, S, t)
           grace == IF m.phase = "AwaitingJudge" THEN {} ELSE {Timer(WaitKey(Index(m)), t + Grace)}
           n == DecideMatch(Scored(m, S))
<1>1. Sound(m) /\ InPlay(m) /\ m.phase # "Decided"
  BY DEF MatchOK, OpenPhases
<1>2. CASE outcome = "NotYet"
  <2>1. PlayGame(m, S, t) = Made(m, Wakeups(m, S, t), {})
    BY <1>2, Zenon DEF PlayGame
  <2> QED BY <2>1, Unmoved, MadeFields, WakeupsOK DEF Works
<1>3. CASE outcome = "CutShort"
  <2>1. PlayGame(m, S, t) = Made(Adjudicate(m), {}, {WaitKey(Index(m))})
    <3>1. outcome # "NotYet"
      BY <1>3
    <3> QED BY <3>1, <1>3, Zenon DEF PlayGame
  <2>2. Carried(m, Adjudicate(m), S, extra)
    BY <1>1, AdjudicatedCarried
  <2> QED BY <2>1, <2>2, MadeFields, NoTimer DEF Works
<1>4. CASE outcome = "AwaitingJudge"
  <2> DEFINE w == [m EXCEPT !.phase = "AwaitingJudge"]
  <2>1. PlayGame(m, S, t) = Made(w, grace, {})
    <3>1. outcome # "NotYet" /\ outcome # "CutShort"
      BY <1>4
    <3> QED BY <3>1, <1>4, Zenon DEF PlayGame
  <2>2. w \in MatchType /\ SameGames(m, w) /\ w.tiebreak = m.tiebreak /\ w.phase = "AwaitingJudge"
    BY PhaseChanges
  <2> HIDE DEF w
  <2>3. Carried(m, w, S, extra)
    <3>1. m.phase # "Decided" /\ Sound(m) /\ (w.phase = "AwaitingJudge" /\ InPlay(m))
      BY <2>2, <1>1
    <3> QED BY <3>1, <2>2, RephasedCarried
  <2>4. ArmOK(grace)
    BY NoTimer, OneTimer, KeyNames
  <2> QED BY <2>1, <2>3, <2>4, MadeFields DEF Works
<1>5. CASE outcome \notin {"NotYet", "CutShort", "AwaitingJudge"}
  <2>1. PlayGame(m, S, t) = IF n.phase \in Over THEN Made(n, {}, {}) ELSE GoOn(n, t)
    <3>1. outcome # "NotYet" /\ outcome # "CutShort" /\ outcome # "AwaitingJudge"
      BY <1>5
    <3> QED BY <3>1, Zenon DEF PlayGame
  <2>2. Blockers(m, S) = {}
    BY <1>5 DEF Outcome, GameOutcome
  <2> DEFINE q == Scored(m, S)
  <2>3. /\ q \in MatchType /\ Sound(q) /\ Closed(q) /\ Follows(m, q)
        /\ EarliestIn(q, S) /\ ExtraCharged(q, S, extra)
    BY <2>2, ScoredClosed
  <2>4. /\ n \in MatchType /\ Sound(n) /\ SameGames(q, n)
        /\ n.phase \in Over \/ (n.phase \in {"InProgress", "Tiebreak"} /\ Between(n))
    BY <2>3, DecidedGoesOn
  <2>5. n = DecideMatch(q)
    OBVIOUS
  <2> HIDE DEF q, n
  <2>6. q.phase # "Decided"
    <3>1. Len(q.games) <= Regular \/ Len(q.games) > Regular
      BY <2>3, MatchSettings DEF MatchType
    <3> QED BY <3>1, <2>3 DEF Closed
  <2>7. Follows(m, n)
    <3>1. Len(q.games) \in Nat /\ q.extra \in Nat
      BY <2>3 DEF MatchType
    <3>2. Follows(q, n)
      BY <3>1, <2>4, <2>6 DEF Follows, SameGames
    <3> QED BY <3>2, <2>3, <2>4, FollowsTransitive
  <2>8. EarliestIn(n, S) /\ ExtraCharged(n, S, extra)
    BY <2>3, <2>4, SameGamesKept
  <2>9. CASE n.phase \in Over
    <3>1. MatchOK(n)
      BY <2>4, <2>9 DEF MatchOK, Over, OpenPhases
    <3>2. Carried(m, n, S, extra)
      BY <3>1, <2>7, <2>8 DEF Carried
    <3> QED BY <3>2, <2>1, <2>9, MadeFields, NoTimer DEF Works
  <2>10. CASE n.phase \notin Over
    <3>1. Works(n, GoOn(n, t), S, extra)
      BY <2>4, <2>8, <2>10, GoOnWorks
    <3>2. Carried(m, GoOn(n, t).match, S, extra)
      BY <3>1, <2>4, <2>7, CarriedOn DEF Works
    <3> QED BY <3>1, <3>2, <2>1, <2>10 DEF Works
  <2> QED BY <2>9, <2>10
<1> QED BY <1>2, <1>3, <1>4, <1>5

\* Every trigger does.
LEMMA EffectWorks ==
  ASSUME NEW m \in MatchType, NEW S \in Seq(SubType), NEW extra, NEW t \in Nat, NEW cause,
         MatchOK(m), InTime(m, S), EarliestIn(m, S), ExtraCharged(m, S, extra),
         cause[1] = "staff" => cause[2] \in Players /\ m.phase # "Decided"
  PROVE  Works(m, Effect(cause, m, S, t), S, extra)
<1>0. Sound(m) /\ m.nextAt \in Int
  BY DEF MatchOK, MatchType
<1>1. CASE cause[1] = "staff"
  <2> DEFINE k == IF Index(m) = 0 THEN 1 ELSE Index(m)
             p == cause[2]
  <2>1. Effect(cause, m, S, t) = Made(Won(m, p), {Timer(GameKey(k), t + 1)}, {})
    BY <1>1, Zenon DEF Effect, ForceDecide
  <2>2. p \in Players
    BY <1>1
  <2> HIDE DEF p
  <2>3. Carried(m, Won(m, p), S, extra)
    BY <2>2, <1>0, <1>1, WonCarried
  <2>4. ArmOK({Timer(GameKey(k), t + 1)})
    <3>1. GameKey(k)[1] # "staff"
      BY KeyNames
    <3> QED BY <3>1, OneTimer
  <2> QED BY <2>1, <2>3, <2>4, MadeFields DEF Works
<1>2. CASE cause[1] = "wait"
  <2>1. Effect(cause, m, S, t) = Escalate(m)
    <3>1. cause[1] # "staff"
      BY <1>2
    <3> QED BY <3>1, <1>2, Zenon DEF Effect
  <2>2. CASE m.phase = "AwaitingJudge"
    <3>1. Carried(m, Adjudicate(m), S, extra)
      BY <2>2, <1>0, AdjudicatedCarried
    <3> QED BY <3>1, <2>1, <2>2, MadeFields, NoTimer DEF Works, Escalate
  <2>3. CASE m.phase # "AwaitingJudge"
    BY <2>1, <2>3, Unmoved, MadeFields, NoTimer DEF Works, Escalate
  <2> QED BY <2>2, <2>3
<1>3. ASSUME cause[1] # "staff", cause[1] # "wait", cause[1] = "start", m.phase # "Intermission"
      PROVE  Works(m, Effect(cause, m, S, t), S, extra)
  <2>1. Effect(cause, m, S, t) = Prepare(m, t)
    BY <1>3, Zenon DEF Effect
  <2>2. CASE m.phase # "Preparing"
    BY <2>1, <2>2, Unmoved, MadeFields, NoTimer DEF Works, Prepare
  <2>3. CASE m.phase = "Preparing" /\ Ended(t)
    <3>1. Carried(m, Adjudicate(m), S, extra)
      BY <2>3, <1>0, AdjudicatedCarried
    <3> QED BY <3>1, <2>1, <2>3, MadeFields, NoTimer DEF Works, Prepare
  <2>4. CASE m.phase = "Preparing" /\ ~Ended(t)
    <3>1. Between(m)
      BY <2>4 DEF MatchOK
    <3>2. Carried(m, OpenGame(m, "InProgress", 0).match, S, extra)
      BY <3>1, <2>4, <1>0, OpenedCarried
    <3> QED BY <3>2, <2>1, <2>4, OpenArm DEF Works, Prepare
  <2> QED BY <2>2, <2>3, <2>4
<1>4. ASSUME cause[1] # "staff", cause[1] # "wait",
             ~(cause[1] = "start" /\ m.phase # "Intermission")
      PROVE  Works(m, Effect(cause, m, S, t), S, extra)
  <2>1. Effect(cause, m, S, t) = Step(m, S, t)
    BY <1>4, Zenon DEF Effect
  <2>2. CASE m.phase = "Intermission"
    <3>1. Step(m, S, t) = EndBreak(m, t) /\ Between(m)
      BY <2>2, Zenon DEF Step, MatchOK
    <3>2. CASE Ended(t)
      <4>1. Carried(m, Adjudicate(m), S, extra)
        BY <2>2, <1>0, AdjudicatedCarried
      <4> QED BY <4>1, <3>1, <3>2, <2>1, MadeFields, NoTimer DEF Works, EndBreak
    <3>3. CASE ~Ended(t) /\ t < m.nextAt
      <4>1. Effect(cause, m, S, t) = Made(m, {Timer(StartKey, m.nextAt)}, {})
        BY <3>1, <3>3, <2>1 DEF EndBreak
      <4>2. ArmOK({Timer(StartKey, m.nextAt)})
        BY OneTimer, KeyNames
      <4> QED BY <4>1, <4>2, Unmoved, MadeFields DEF Works
    <3>4. CASE ~Ended(t) /\ ~(t < m.nextAt)
      <4> DEFINE ph == IF Len(m.games) < Regular THEN "InProgress" ELSE "Tiebreak"
      <4>1. Effect(cause, m, S, t) = OpenGame(m, ph, m.nextAt)
        BY <3>1, <3>4, <2>1 DEF EndBreak
      <4>2. ph \in {"InProgress", "Tiebreak"}
        OBVIOUS
      <4> HIDE DEF ph
      <4>3. Carried(m, OpenGame(m, ph, m.nextAt).match, S, extra)
        BY <4>2, <3>1, <2>2, <1>0, OpenedCarried
      <4> QED BY <4>1, <4>3, OpenArm DEF Works
    <3> QED BY <3>2, <3>3, <3>4
  <2>3. CASE m.phase \in OpenPhases
    <3>1. Step(m, S, t) = PlayGame(m, S, t)
      BY <2>3 DEF Step, OpenPhases
    <3> QED BY <3>1, <2>1, <2>3, PlayWorks
  <2>4. CASE m.phase # "Intermission" /\ m.phase \notin OpenPhases
    <3>1. Step(m, S, t) = Made(m, {}, {})
      BY <2>4, Zenon DEF Step, OpenPhases
    <3> QED BY <3>1, <2>1, Unmoved, MadeFields, NoTimer DEF Works
  <2> QED BY <2>2, <2>3, <2>4
<1> QED BY <1>1, <1>2, <1>3, <1>4

-----------------------------------------------------------------------------
(* Submissions come, are judged and are published *)

\* T is S with verdicts added; outcomes and what was submitted since are free.
Grown(S, T) ==
  /\ DOMAIN S \subseteq DOMAIN T
  /\ \A s \in DOMAIN S :
       /\ T[s].player = S[s].player /\ T[s].game = S[s].game
       /\ T[s].at = S[s].at /\ T[s].delay = S[s].delay
       /\ S[s].verdict # "none" => T[s].verdict = S[s].verdict

\* What was submitted since is in no decided game.
LateIsOpen(m, S, T) ==
  \A s \in DOMAIN T \ DOMAIN S :
    T[s].game \in DOMAIN m.games => ~m.games[T[s].game].decided

\* The first of the submissions X stays the first of those of them that remain.
LEMMA FirstKept ==
  ASSUME NEW S \in Seq(SubType), NEW T \in Seq(SubType), Grown(S, T),
         NEW X \in SUBSET DOMAIN S, NEW Y \in SUBSET X, X # {}, First(S, X) \in Y
  PROVE  First(T, Y) = First(S, X) /\ First(S, X) \in X
<1> DEFINE f == First(S, X)
<1>1. /\ HasTimes(S) /\ DOMAIN S \subseteq Nat /\ \A Z \in SUBSET DOMAIN S : IsFiniteSet(Z)
      /\ HasTimes(T) /\ DOMAIN T \subseteq Nat /\ \A Z \in SUBSET DOMAIN T : IsFiniteSet(Z)
  BY SubsOrdered
<1>2. f \in X /\ \A t \in X \ {f} : Before(S, f, t)
  BY <1>1, FirstIs
<1>3. f \in Y
  OBVIOUS
<1> HIDE DEF f
<1>4. ASSUME NEW t \in Y \ {f} PROVE Before(T, f, t)
  <2>1. Before(S, f, t) /\ f \in DOMAIN S /\ t \in DOMAIN S
    BY <1>2
  <2>2. /\ T[f].at = S[f].at /\ T[f].delay = S[f].delay
        /\ T[t].at = S[t].at /\ T[t].delay = S[t].delay
    BY <2>1 DEF Grown
  <2> QED BY <2>1, <2>2 DEF Before, Effective
<1>5. Y \in SUBSET DOMAIN T
  BY DEF Grown
<1>6. First(T, Y) = f
  BY <1>1, <1>3, <1>4, <1>5, FirstOnly
<1> QED BY <1>2, <1>6 DEF f

\* Decided games keep their winner and their overtime.
LEMMA GamesKept ==
  ASSUME NEW m \in MatchType, NEW S \in Seq(SubType), NEW T \in Seq(SubType), NEW extra,
         Grown(S, T), LateIsOpen(m, S, T), EarliestIn(m, S)
  PROVE  /\ EarliestIn(m, T)
         /\ ExtraCharged(m, S, extra) => ExtraCharged(m, T, extra)
<1>1. ASSUME NEW i \in DOMAIN m.games, m.games[i].decided
      PROVE  LET good == {s \in DOMAIN S : S[s].game = i /\ S[s].verdict # "WA"}
                 still == {s \in DOMAIN T : T[s].game = i /\ T[s].verdict # "WA"}
             IN /\ good = {} => still = {} /\ m.games[i].winner = Nobody
                /\ good # {} =>
                     /\ still # {} /\ First(T, still) = First(S, good)
                     /\ First(S, good) \in DOMAIN S
                     /\ S[First(S, good)].game = i
                     /\ S[First(S, good)].verdict = "AC" /\ T[First(S, good)].verdict = "AC"
                     /\ m.games[i].winner = T[First(S, good)].player
                     /\ m.games[i].winner = S[First(S, good)].player
  <2> DEFINE good == {s \in DOMAIN S : S[s].game = i /\ S[s].verdict # "WA"}
             still == {s \in DOMAIN T : T[s].game = i /\ T[s].verdict # "WA"}
  <2>1. still \subseteq good
    <3> SUFFICES ASSUME NEW s \in still PROVE s \in good
      OBVIOUS
    <3>1. s \in DOMAIN S
      BY <1>1 DEF LateIsOpen
    <3>2. T[s].game = S[s].game /\ (S[s].verdict # "none" => T[s].verdict = S[s].verdict)
      BY <3>1 DEF Grown
    <3> QED BY <3>1, <3>2
  <2>2. IF good = {} THEN m.games[i].winner = Nobody
        ELSE S[First(S, good)].verdict = "AC" /\ m.games[i].winner = S[First(S, good)].player
    BY <1>1 DEF EarliestIn
  <2>3. ASSUME good # {}
        PROVE  /\ still # {} /\ First(T, still) = First(S, good)
               /\ First(S, good) \in DOMAIN S
               /\ S[First(S, good)].game = i
               /\ S[First(S, good)].verdict = "AC" /\ T[First(S, good)].verdict = "AC"
               /\ m.games[i].winner = T[First(S, good)].player
               /\ m.games[i].winner = S[First(S, good)].player
    <3> DEFINE f == First(S, good)
    <3>1. f \in good
      <4>1. good \in SUBSET DOMAIN S
        OBVIOUS
      <4> HIDE DEF good
      <4> QED BY <4>1, <2>3, SubsOrdered, FirstIs
    <3>2. S[f].verdict = "AC" /\ m.games[i].winner = S[f].player
      BY <2>2, <2>3
    <3> HIDE DEF f
    <3>3. f \in DOMAIN S /\ f \in DOMAIN T /\ S[f].game = i
      BY <3>1 DEF Grown
    <3>4. T[f].game = i /\ T[f].verdict = "AC" /\ T[f].player = S[f].player
      BY <3>2, <3>3 DEF Grown
    <3>5. f \in still
      BY <3>3, <3>4
    <3>6. First(T, still) = f
      <4>1. good \in SUBSET DOMAIN S /\ still \in SUBSET good
        BY <2>1
      <4> HIDE DEF good, still
      <4> QED BY <4>1, <3>5, <2>3, FirstKept DEF f
    <3> QED BY <3>2, <3>3, <3>4, <3>5, <3>6 DEF f
  <2>4. good = {} => still = {} /\ m.games[i].winner = Nobody
    BY <2>1, <2>2
  <2> QED BY <2>3, <2>4
<1>2. EarliestIn(m, T)
  <2> SUFFICES ASSUME NEW i \in DOMAIN m.games, m.games[i].decided
               PROVE  LET good == {s \in DOMAIN T : T[s].game = i /\ T[s].verdict # "WA"} IN
                        IF good = {} THEN m.games[i].winner = Nobody
                        ELSE /\ T[First(T, good)].verdict = "AC"
                             /\ m.games[i].winner = T[First(T, good)].player
    BY DEF EarliestIn
  <2> QED BY <1>1
<1>3. ASSUME NEW i \in DOMAIN m.games, m.games[i].decided
      PROVE  Overtime(m, T, i) = Overtime(m, S, i)
  <2> DEFINE acs == {s \in DOMAIN S : S[s].game = i /\ S[s].verdict = "AC"}
             acs1 == {s \in DOMAIN T : T[s].game = i /\ T[s].verdict = "AC"}
             good == {s \in DOMAIN S : S[s].game = i /\ S[s].verdict # "WA"}
             still == {s \in DOMAIN T : T[s].game = i /\ T[s].verdict # "WA"}
             f == First(S, good)
  <2>1. CASE m.games[i].winner = Nobody
    BY <2>1 DEF Overtime
  <2>2. CASE m.games[i].winner # Nobody
    <3>1. /\ good # {} /\ still # {} /\ First(T, still) = f /\ f \in DOMAIN S /\ S[f].game = i
          /\ S[f].verdict = "AC" /\ T[f].verdict = "AC"
      BY <2>2, <1>1, <1>3
    <3>2. /\ acs \in SUBSET good /\ good \in SUBSET DOMAIN S
          /\ acs1 \in SUBSET still /\ still \in SUBSET DOMAIN T
      OBVIOUS
    <3>3. f \in acs
      BY <3>1
    <3>4. f \in acs1
      BY <3>1 DEF Grown
    <3>5. T[f].at = S[f].at
      BY <3>1 DEF Grown
    <3>6. Grown(S, S) /\ Grown(T, T)
      BY DEF Grown
    <3> HIDE DEF acs, acs1, good, still
    <3>7. First(S, acs) = f
      BY <3>1, <3>2, <3>3, <3>6, FirstKept
    <3>8. First(T, acs1) = f
      BY <3>1, <3>2, <3>4, <3>6, FirstKept
    <3> QED BY <3>5, <3>7, <3>8 DEF Overtime, acs, acs1
  <2> QED BY <2>1, <2>2
<1>4. m.games \in Seq(GameType) /\ Len(m.games) \in Nat /\ DOMAIN m.games = 1..Len(m.games)
  BY DEF MatchType
<1>5. ASSUME NEW i \in 0..Len(m.games)
      PROVE  ExtraAfter(m, T, extra, i) = ExtraAfter(m, S, extra, i)
  <2>1. CASE i = 0
    BY <2>1 DEF ExtraAfter
  <2>2. CASE i # 0 /\ m.games[i].decided
    <3>1. i \in DOMAIN m.games
      BY <2>2, <1>4
    <3> QED BY <3>1, <2>2, <1>3 DEF ExtraAfter
  <2>3. CASE i # 0 /\ ~m.games[i].decided
    BY <2>3 DEF ExtraAfter
  <2> QED BY <2>1, <2>2, <2>3
<1>6. ASSUME ExtraCharged(m, S, extra) PROVE ExtraCharged(m, T, extra)
  <2>1. ASSUME NEW i \in DOMAIN m.games, i <= Regular
        PROVE  m.games[i].deadline - m.games[i].base = ExtraAfter(m, T, extra, i - 1)
    <3>1. i - 1 \in 0..Len(m.games)
      BY <1>4
    <3>2. m.games[i].deadline - m.games[i].base = ExtraAfter(m, S, extra, i - 1)
      BY <1>6, <2>1 DEF ExtraCharged
    <3> QED BY <3>1, <3>2, <1>5
  <2>2. (IF Len(m.games) <= Regular THEN Len(m.games) ELSE Regular) \in 0..Len(m.games)
    BY <1>4, MatchSettings
  <2>3. m.extra = ExtraAfter(m, S, extra, IF Len(m.games) <= Regular THEN Len(m.games) ELSE Regular)
    BY <1>6 DEF ExtraCharged
  <2>4. m.extra = ExtraAfter(m, T, extra, IF Len(m.games) <= Regular THEN Len(m.games) ELSE Regular)
    BY <2>2, <2>3, <1>5
  <2> QED BY <2>1, <2>4 DEF ExtraCharged
<1> QED BY <1>2, <1>6

\* PenaltyExact of any submissions.
MineOf(S, p) == {s \in DOMAIN S : S[s].player = p}

EarlierOf(S, s) == {e \in MineOf(S, S[s].player) : e < s /\ S[e].game = S[s].game}

PenaltyFor(X, S, g) ==
  IF g <= Regular THEN Penalty * Cardinality({e \in X : S[e].verdict = "WA"}) ELSE 0

PenaltiesOK(S) ==
  \A s \in DOMAIN S :
    /\ \A e \in EarlierOf(S, s) : S[e].verdict # "none"
    /\ S[s].delay = PenaltyFor(EarlierOf(S, s), S, S[s].game)

\* What an outcome says of a submission: it is judged, or the match is decided; an
\* accepted one is shown when its game or the match is, and tells who won.
DecidedIn(m, S, s) == S[s].game \in DOMAIN m.games /\ m.games[S[s].game].decided

ToldIn(m, S, s) == m.phase = "Decided" \/ DecidedIn(m, S, s)

WinsIn(m, S, s) ==
  S[s].player = IF DecidedIn(m, S, s) THEN m.games[S[s].game].winner ELSE m.winner

ShownOK(m, S) ==
  \A s \in DOMAIN S :
    /\ S[s].outcome = "retired" => m.phase = "Decided"
    /\ S[s].outcome \in {"original", "toolate"} => S[s].verdict # "none"
    /\ S[s].outcome \in {"original", "toolate"} /\ S[s].verdict = "AC" =>
         ToldIn(m, S, s) /\ (S[s].outcome = "original" <=> WinsIn(m, S, s))

\* A request whose snapshot of the match is its value: unless its player submitted
\* in between, nothing of the player is being judged and the penalty is right.
InGameOf(S, p, g) == {e \in MineOf(S, p) : S[e].game = g}

RequestOK(q, m, S, t) ==
  /\ q.pc \in {"count", "insert"} /\ q.player \in Players
  /\ m.phase \in {"InProgress", "Tiebreak"} /\ q.game = Len(m.games)
  /\ q.generation \in Nat /\ q.generation <= Cardinality(MineOf(S, q.player))
  /\ q.generation = Cardinality(MineOf(S, q.player)) =>
       \A s \in MineOf(S, q.player) : S[s].verdict # "none"
  /\ q.pc = "insert" =>
       /\ m.games[q.game].opened <= t /\ q.delay \in Nat
       /\ q.generation = Cardinality(MineOf(S, q.player)) =>
            q.delay = PenaltyFor(InGameOf(S, q.player, q.game), S, q.game)

\* The same, with no submission since.
SameSubs(S, T) == Grown(S, T) /\ DOMAIN T = DOMAIN S

\* A player's submissions are the same.
LEMMA MineKept ==
  ASSUME NEW S, NEW T, SameSubs(S, T)
  PROVE  /\ \A p : MineOf(T, p) = MineOf(S, p)
         /\ \A s \in DOMAIN S : EarlierOf(T, s) = EarlierOf(S, s)
         /\ \A p, g : InGameOf(T, p, g) = InGameOf(S, p, g)
<1>1. DOMAIN T = DOMAIN S /\ \A s \in DOMAIN S : T[s].player = S[s].player /\ T[s].game = S[s].game
  BY DEF SameSubs, Grown
<1>2. \A p : MineOf(T, p) = MineOf(S, p)
  BY <1>1 DEF MineOf
<1>3. \A p : \A e \in MineOf(S, p) : T[e].game = S[e].game
  BY <1>1 DEF MineOf
<1>4. ASSUME NEW s \in DOMAIN S PROVE EarlierOf(T, s) = EarlierOf(S, s)
  BY <1>1, <1>2, <1>3 DEF EarlierOf
<1>5. \A p, g : InGameOf(T, p, g) = InGameOf(S, p, g)
  BY <1>2, <1>3 DEF InGameOf
<1> QED BY <1>2, <1>4, <1>5

\* The penalty for judged submissions stays the same.
LEMMA PenaltyKept ==
  ASSUME NEW S, NEW T, NEW X, NEW g, Grown(S, T), X \subseteq DOMAIN S,
         \A e \in X : S[e].verdict # "none"
  PROVE  PenaltyFor(X, T, g) = PenaltyFor(X, S, g)
<1>1. \A e \in X : T[e].verdict = S[e].verdict
  BY DEF Grown
<1>2. {e \in X : T[e].verdict = "WA"} = {e \in X : S[e].verdict = "WA"}
  BY <1>1
<1> QED BY <1>2 DEF PenaltyFor

\* Verdicts do not disturb the penalties.
LEMMA PenaltiesKept ==
  ASSUME NEW S, NEW T, SameSubs(S, T), PenaltiesOK(S)
  PROVE  PenaltiesOK(T)
<1> SUFFICES ASSUME NEW s \in DOMAIN T
             PROVE  /\ \A e \in EarlierOf(T, s) : T[e].verdict # "none"
                    /\ T[s].delay = PenaltyFor(EarlierOf(T, s), T, T[s].game)
  BY DEF PenaltiesOK
<1>1. s \in DOMAIN S /\ Grown(S, T)
  BY DEF SameSubs
<1>2. EarlierOf(T, s) = EarlierOf(S, s)
  BY <1>1, MineKept
<1>3. EarlierOf(S, s) \subseteq DOMAIN S
  BY DEF EarlierOf, MineOf
<1>4. /\ \A e \in EarlierOf(S, s) : S[e].verdict # "none"
      /\ S[s].delay = PenaltyFor(EarlierOf(S, s), S, S[s].game)
  BY <1>1 DEF PenaltiesOK
<1>5. T[s].delay = S[s].delay /\ T[s].game = S[s].game
  BY <1>1 DEF Grown
<1>6. \A e \in EarlierOf(S, s) : T[e].verdict = S[e].verdict
  BY <1>1, <1>3, <1>4 DEF Grown
<1>7. PenaltyFor(EarlierOf(S, s), T, S[s].game) = PenaltyFor(EarlierOf(S, s), S, S[s].game)
  BY <1>1, <1>3, <1>4, PenaltyKept
<1> QED BY <1>2, <1>4, <1>5, <1>6, <1>7

\* Verdicts and the clock do not disturb a request.
LEMMA RequestKept ==
  ASSUME NEW q, NEW m, NEW S, NEW T, NEW t \in Int, NEW u \in Int, t <= u,
         m.games[q.game].opened \in Int, SameSubs(S, T), RequestOK(q, m, S, t)
  PROVE  RequestOK(q, m, T, u)
<1> DEFINE mine == MineOf(S, q.player)
           c == Cardinality(mine)
<1>1. MineOf(T, q.player) = mine /\ InGameOf(T, q.player, q.game) = InGameOf(S, q.player, q.game)
  BY MineKept
<1>2. mine \subseteq DOMAIN S /\ InGameOf(S, q.player, q.game) \subseteq mine /\ Grown(S, T)
  BY DEF MineOf, InGameOf, SameSubs
<1>3. /\ q.pc \in {"count", "insert"} /\ q.player \in Players
      /\ m.phase \in {"InProgress", "Tiebreak"} /\ q.game = Len(m.games)
      /\ q.generation \in Nat /\ q.generation <= c
  BY DEF RequestOK
<1>4. ASSUME q.generation = c PROVE \A s \in mine : S[s].verdict # "none" /\ T[s].verdict # "none"
  <2>1. \A s \in mine : S[s].verdict # "none"
    BY <1>4 DEF RequestOK
  <2> QED BY <2>1, <1>2 DEF Grown
<1>5. ASSUME q.pc = "insert"
      PROVE  /\ m.games[q.game].opened <= u /\ q.delay \in Nat
             /\ q.generation = c => q.delay = PenaltyFor(InGameOf(S, q.player, q.game), T, q.game)
  <2>1. /\ m.games[q.game].opened <= t /\ q.delay \in Nat
        /\ q.generation = c => q.delay = PenaltyFor(InGameOf(S, q.player, q.game), S, q.game)
    BY <1>5 DEF RequestOK
  <2>2. m.games[q.game].opened <= u
    BY <2>1
  <2>3. ASSUME q.generation = c
        PROVE  PenaltyFor(InGameOf(S, q.player, q.game), T, q.game)
                 = PenaltyFor(InGameOf(S, q.player, q.game), S, q.game)
    <3>1. /\ InGameOf(S, q.player, q.game) \subseteq DOMAIN S
          /\ \A e \in InGameOf(S, q.player, q.game) : S[e].verdict # "none"
      BY <1>2, <1>4, <2>3
    <3> QED BY <3>1, <1>2, PenaltyKept
  <2> QED BY <2>1, <2>2, <2>3
<1> HIDE DEF c
<1>6. Cardinality(MineOf(T, q.player)) = c
  BY <1>1 DEF c
<1> QED BY <1>1, <1>3, <1>4, <1>5, <1>6 DEF RequestOK

\* The submission that request q inserts at time t.
NewSub(q, t) ==
  [player |-> q.player, game |-> q.game, at |-> t, delay |-> q.delay,
   verdict |-> "none", outcome |-> "pending"]

\* An admitted submission is in time, in the open game and has the right penalty;
\* it makes the other requests of its player stale.
LEMMA InsertKeeps ==
  ASSUME NEW m \in MatchType, NEW S \in Seq(SubType), NEW t \in 0..Horizon, NEW q,
         MatchOK(m), InTime(m, S), ShownOK(m, S), PenaltiesOK(S),
         RequestOK(q, m, S, t), q.pc = "insert",
         q.generation = Cardinality(MineOf(S, q.player)),
         t < Cutoff(m.games[q.game].deadline)
  PROVE  LET T == Append(S, NewSub(q, t)) IN
           /\ T \in Seq(SubType) /\ Grown(S, T) /\ LateIsOpen(m, S, T)
           /\ InTime(m, T) /\ ShownOK(m, T) /\ PenaltiesOK(T)
           /\ \A o : RequestOK(o, m, S, t) => RequestOK(o, m, T, t)
<1> DEFINE x == NewSub(q, t)
           T == Append(S, x)
           k == Len(S)
<1>1. /\ q.player \in Players /\ q.game = Len(m.games) /\ m.phase \in {"InProgress", "Tiebreak"}
      /\ m.games[q.game].opened <= t /\ q.delay \in Nat
      /\ \A s \in MineOf(S, q.player) : S[s].verdict # "none"
      /\ q.delay = PenaltyFor(InGameOf(S, q.player, q.game), S, q.game)
  BY DEF RequestOK
<1>2. InPlay(m) /\ m.games \in Seq(GameType) /\ q.game \in DOMAIN m.games /\ ~m.games[q.game].decided
  <2>1. InPlay(m) /\ m.games \in Seq(GameType)
    BY <1>1 DEF MatchOK, OpenPhases, MatchType
  <2> QED BY <2>1, <1>1 DEF InPlay
<1>3. /\ x \in SubType /\ x.player = q.player /\ x.game = q.game /\ x.at = t /\ x.delay = q.delay
      /\ x.verdict = "none" /\ x.outcome = "pending"
  <2>1. q.game \in Nat
    BY <1>1, <1>2
  <2> QED BY <1>1, <2>1 DEF NewSub, SubType
<1> HIDE DEF x
<1>4. /\ T \in Seq(SubType) /\ DOMAIN S = 1..k /\ DOMAIN T = 1..(k + 1) /\ k \in Nat
      /\ \A s \in DOMAIN S : T[s] = S[s]
      /\ T[k + 1] = x
  BY <1>3
<1> HIDE DEF T, k
<1>5. DOMAIN T = DOMAIN S \union {k + 1} /\ k + 1 \notin DOMAIN S /\ DOMAIN S \subseteq Nat
  BY <1>4
<1>6. Grown(S, T)
  BY <1>4, <1>5 DEF Grown
<1>7. LateIsOpen(m, S, T)
  BY <1>2, <1>3, <1>4, <1>5 DEF LateIsOpen
<1>8. InTime(m, T)
  BY <1>1, <1>2, <1>3, <1>4, <1>5 DEF InTime
<1>9. ShownOK(m, T)
  <2> SUFFICES ASSUME NEW s \in DOMAIN T
               PROVE  /\ T[s].outcome = "retired" => m.phase = "Decided"
                      /\ T[s].outcome \in {"original", "toolate"} => T[s].verdict # "none"
                      /\ T[s].outcome \in {"original", "toolate"} /\ T[s].verdict = "AC" =>
                           ToldIn(m, T, s) /\ (T[s].outcome = "original" <=> WinsIn(m, T, s))
    BY DEF ShownOK
  <2>1. CASE s = k + 1
    BY <2>1, <1>3, <1>4
  <2>2. CASE s \in DOMAIN S
    BY <2>2, <1>4 DEF ShownOK, ToldIn, WinsIn, DecidedIn
  <2> QED BY <2>1, <2>2, <1>5
<1>10. MineOf(T, q.player) = MineOf(S, q.player) \union {k + 1}
  BY <1>3, <1>4, <1>5 DEF MineOf
<1>11. \A p : p # q.player => MineOf(T, p) = MineOf(S, p)
  BY <1>3, <1>4, <1>5 DEF MineOf
<1>12. \A p : \A e \in MineOf(S, p) : e \in DOMAIN S /\ T[e] = S[e]
  BY <1>4 DEF MineOf
<1>13. PenaltiesOK(T)
  <2>1. ASSUME NEW s \in DOMAIN S
        PROVE  EarlierOf(T, s) = EarlierOf(S, s)
    <3>1. ASSUME NEW e PROVE e \in EarlierOf(T, s) <=> e \in EarlierOf(S, s)
      <4>1. T[s] = S[s] /\ s <= k /\ s \in Nat
        BY <1>4
      <4>2. CASE e = k + 1
        <5>1. ~(e < s) /\ e \notin DOMAIN S
          BY <4>1, <4>2, <1>4, <1>5
        <5> QED BY <5>1 DEF EarlierOf, MineOf
      <4>3. CASE e # k + 1
        <5>1. e \in DOMAIN T <=> e \in DOMAIN S
          BY <4>3, <1>5
        <5>2. e \in DOMAIN S => T[e] = S[e]
          BY <1>4
        <5> QED BY <5>1, <5>2, <4>1 DEF EarlierOf, MineOf
      <4> QED BY <4>2, <4>3
    <3> QED BY <3>1
  <2>2. EarlierOf(T, k + 1) = InGameOf(S, q.player, q.game)
    <3>1. T[k + 1].player = q.player /\ T[k + 1].game = q.game
      BY <1>3, <1>4
    <3>2. ASSUME NEW e PROVE e \in EarlierOf(T, k + 1) <=> e \in InGameOf(S, q.player, q.game)
      <4>1. CASE e = k + 1
        <5>1. ~(e < k + 1) /\ e \notin DOMAIN S
          BY <4>1, <1>4, <1>5
        <5> QED BY <5>1 DEF EarlierOf, InGameOf, MineOf
      <4>2. CASE e # k + 1
        <5>1. e \in DOMAIN T <=> e \in DOMAIN S
          BY <4>2, <1>5
        <5>2. e \in DOMAIN S => T[e] = S[e] /\ e < k + 1
          BY <1>4
        <5> QED BY <5>1, <5>2, <3>1 DEF EarlierOf, InGameOf, MineOf
      <4> QED BY <4>1, <4>2
    <3> QED BY <3>2
  <2> SUFFICES ASSUME NEW s \in DOMAIN T
               PROVE  /\ \A e \in EarlierOf(T, s) : T[e].verdict # "none"
                      /\ T[s].delay = PenaltyFor(EarlierOf(T, s), T, T[s].game)
    BY DEF PenaltiesOK
  <2>3. CASE s \in DOMAIN S
    <3>1. /\ \A e \in EarlierOf(S, s) : S[e].verdict # "none"
          /\ S[s].delay = PenaltyFor(EarlierOf(S, s), S, S[s].game)
      BY <2>3 DEF PenaltiesOK
    <3>2. EarlierOf(S, s) \subseteq DOMAIN S
      BY DEF EarlierOf, MineOf
    <3>3. PenaltyFor(EarlierOf(S, s), T, S[s].game) = PenaltyFor(EarlierOf(S, s), S, S[s].game)
      BY <3>1, <3>2, <1>6, PenaltyKept
    <3>4. T[s] = S[s] /\ \A e \in EarlierOf(S, s) : T[e] = S[e]
      BY <2>3, <3>2, <1>4
    <3> QED BY <3>1, <3>3, <3>4, <2>1, <2>3
  <2>4. CASE s = k + 1
    <3> DEFINE X == InGameOf(S, q.player, q.game)
    <3>1. X \subseteq DOMAIN S /\ \A e \in X : S[e].verdict # "none"
      BY <1>1 DEF InGameOf, MineOf
    <3>2. PenaltyFor(X, T, q.game) = PenaltyFor(X, S, q.game)
      BY <3>1, <1>6, PenaltyKept
    <3>3. \A e \in X : T[e] = S[e]
      BY <3>1, <1>4
    <3> HIDE DEF X
    <3>4. EarlierOf(T, s) = X
      BY <2>2, <2>4 DEF X
    <3>5. T[s].delay = q.delay /\ T[s].game = q.game
      BY <2>4, <1>3, <1>4
    <3>6. q.delay = PenaltyFor(X, S, q.game)
      BY <1>1 DEF X
    <3> QED BY <3>1, <3>2, <3>3, <3>4, <3>5, <3>6
  <2> QED BY <2>3, <2>4, <1>5
<1>14. ASSUME NEW o, RequestOK(o, m, S, t) PROVE RequestOK(o, m, T, t)
  <2>1. CASE o.player = q.player
    <3>1. MineOf(S, q.player) \in SUBSET DOMAIN S
      BY DEF MineOf
    <3>2. IsFiniteSet(MineOf(S, q.player)) /\ k + 1 \notin MineOf(S, q.player)
      BY <3>1, <1>5, SubsOrdered
    <3>3. Cardinality(MineOf(T, q.player)) = Cardinality(MineOf(S, q.player)) + 1
      BY <3>2, <1>10, FS_AddElement
    <3>4. Cardinality(MineOf(S, q.player)) \in Nat
      BY <3>2, FS_CardinalityType
    <3>5. o.generation \in Nat /\ o.generation <= Cardinality(MineOf(S, q.player))
      BY <1>14, <2>1 DEF RequestOK
    <3>6. /\ o.generation <= Cardinality(MineOf(T, q.player))
          /\ o.generation # Cardinality(MineOf(T, q.player))
      BY <3>3, <3>4, <3>5
    <3> QED BY <3>6, <2>1, <1>14 DEF RequestOK
  <2>2. CASE o.player # q.player
    <3>1. MineOf(T, o.player) = MineOf(S, o.player)
      BY <2>2, <1>11
    <3>2. InGameOf(T, o.player, o.game) = InGameOf(S, o.player, o.game)
      BY <3>1, <1>12 DEF InGameOf
    <3>3. \A e \in MineOf(S, o.player) : T[e] = S[e]
      BY <1>12
    <3>4. PenaltyFor(InGameOf(S, o.player, o.game), T, o.game)
            = PenaltyFor(InGameOf(S, o.player, o.game), S, o.game)
      <4>1. \A e \in InGameOf(S, o.player, o.game) : T[e] = S[e]
        BY <3>3 DEF InGameOf
      <4> QED BY <4>1 DEF PenaltyFor
    <3> QED BY <3>1, <3>2, <3>3, <3>4, <1>14 DEF RequestOK
  <2> QED BY <2>1, <2>2
<1> QED BY <1>4, <1>6, <1>7, <1>8, <1>9, <1>13, <1>14 DEF T, x

\* A later value of the match: submissions stay in time and what was told stays true.
LEMMA FollowsKeeps ==
  ASSUME NEW m \in MatchType, NEW n \in MatchType, NEW S, Follows(m, n)
  PROVE  /\ InTime(m, S) => InTime(n, S)
         /\ ShownOK(m, S) => ShownOK(n, S)
<1>1. m.games \in Seq(GameType) /\ n.games \in Seq(GameType) /\ DOMAIN m.games \subseteq DOMAIN n.games
  <2>1. m.games \in Seq(GameType) /\ n.games \in Seq(GameType)
    BY DEF MatchType
  <2>2. Len(m.games) <= Len(n.games)
    BY DEF Follows
  <2> QED BY <2>1, <2>2
<1>2. ASSUME InTime(m, S) PROVE InTime(n, S)
  BY <1>1, <1>2 DEF InTime, Follows
<1>3. ASSUME ShownOK(m, S) PROVE ShownOK(n, S)
  <2> SUFFICES ASSUME NEW s \in DOMAIN S
               PROVE  /\ S[s].outcome = "retired" => n.phase = "Decided"
                      /\ S[s].outcome \in {"original", "toolate"} => S[s].verdict # "none"
                      /\ S[s].outcome \in {"original", "toolate"} /\ S[s].verdict = "AC" =>
                           ToldIn(n, S, s) /\ (S[s].outcome = "original" <=> WinsIn(n, S, s))
    BY DEF ShownOK
  <2>1. /\ S[s].outcome = "retired" => m.phase = "Decided"
        /\ S[s].outcome \in {"original", "toolate"} => S[s].verdict # "none"
        /\ S[s].outcome \in {"original", "toolate"} /\ S[s].verdict = "AC" =>
             ToldIn(m, S, s) /\ (S[s].outcome = "original" <=> WinsIn(m, S, s))
    BY <1>3 DEF ShownOK
  <2>2. CASE m.phase = "Decided"
    BY <2>1, <2>2 DEF Follows
  <2>3. CASE m.phase # "Decided"
    <3>1. DecidedIn(m, S, s) => DecidedIn(n, S, s) /\ n.games[S[s].game] = m.games[S[s].game]
      BY <1>1 DEF DecidedIn, Follows
    <3>2. ToldIn(m, S, s) => DecidedIn(m, S, s)
      BY <2>3 DEF ToldIn
    <3> QED BY <2>1, <2>3, <3>1, <3>2 DEF ToldIn, WinsIn
  <2> QED BY <2>2, <2>3
<1> QED BY <1>2, <1>3

\* A verdict.
LEMMA JudgeKeeps ==
  ASSUME NEW m, NEW S \in Seq(SubType), NEW s \in DOMAIN S, NEW v \in {"AC", "WA"},
         S[s].verdict = "none"
  PROVE  LET T == [S EXCEPT ![s].verdict = v] IN
           /\ T \in Seq(SubType) /\ SameSubs(S, T)
           /\ ShownOK(m, S) => ShownOK(m, T)
<1> DEFINE T == [S EXCEPT ![s].verdict = v]
           x == [S[s] EXCEPT !.verdict = v]
<1>1. S[s] \in SubType
  OBVIOUS
<1>2. /\ x \in SubType /\ x.player = S[s].player /\ x.game = S[s].game /\ x.at = S[s].at
      /\ x.delay = S[s].delay /\ x.verdict = v /\ x.outcome = S[s].outcome
  BY <1>1 DEF SubType
<1>3. T = [S EXCEPT ![s] = x]
  BY Zenon
<1> HIDE DEF x, T
<1>4. T \in Seq(SubType) /\ DOMAIN T = DOMAIN S /\ T[s] = x /\ \A r \in DOMAIN S : r # s => T[r] = S[r]
  BY <1>2, <1>3
<1>5. SameSubs(S, T)
  BY <1>2, <1>4 DEF SameSubs, Grown
<1>6. ASSUME ShownOK(m, S) PROVE ShownOK(m, T)
  <2> SUFFICES ASSUME NEW r \in DOMAIN T
               PROVE  /\ T[r].outcome = "retired" => m.phase = "Decided"
                      /\ T[r].outcome \in {"original", "toolate"} => T[r].verdict # "none"
                      /\ T[r].outcome \in {"original", "toolate"} /\ T[r].verdict = "AC" =>
                           ToldIn(m, T, r) /\ (T[r].outcome = "original" <=> WinsIn(m, T, r))
    BY DEF ShownOK
  <2>1. CASE r = s
    BY <2>1, <1>2, <1>4, <1>6 DEF ShownOK
  <2>2. CASE r # s
    <3>1. T[r] = S[r] /\ r \in DOMAIN S
      BY <2>2, <1>4
    <3> QED BY <3>1, <1>6 DEF ShownOK, ToldIn, WinsIn, DecidedIn
  <2> QED BY <2>1, <2>2
<1> QED BY <1>4, <1>5, <1>6 DEF T

\* What publish makes of a held submission, from the match u a run has written.
PublishedIn(u, S, s) ==
  IF S[s].verdict = "none" THEN IF u.phase = "Decided" THEN "retired" ELSE S[s].outcome
  ELSE IF S[s].verdict = "WA" THEN "original"
  ELSE IF ~ToldIn(u, S, s) THEN S[s].outcome
  ELSE IF WinsIn(u, S, s) THEN "original" ELSE "toolate"

\* A run publishes from the match it has written, however old: what is told is
\* told of the match as it is.
LEMMA PublishKeeps ==
  ASSUME NEW m \in MatchType, NEW u \in MatchType, NEW S \in Seq(SubType), Follows(u, m),
         ShownOK(m, S), NEW H \in SUBSET DOMAIN S,
         \A s \in H : S[s].outcome \in {"pending", "retired"}
  PROVE  LET T == [s \in DOMAIN S |->
                     IF s \in H THEN [S[s] EXCEPT !.outcome = PublishedIn(u, S, s)] ELSE S[s]]
         IN T \in Seq(SubType) /\ SameSubs(S, T) /\ ShownOK(m, T)
<1> DEFINE x(s) == [S[s] EXCEPT !.outcome = PublishedIn(u, S, s)]
           T == [s \in DOMAIN S |-> IF s \in H THEN x(s) ELSE S[s]]
<1>1. ASSUME NEW s \in DOMAIN S
      PROVE  /\ S[s] \in SubType /\ x(s) \in SubType
             /\ x(s).player = S[s].player /\ x(s).game = S[s].game /\ x(s).at = S[s].at
             /\ x(s).delay = S[s].delay /\ x(s).verdict = S[s].verdict
             /\ x(s).outcome = PublishedIn(u, S, s)
  <2>1. S[s] \in SubType
    OBVIOUS
  <2>2. S[s].outcome \in {"pending", "retired", "original", "toolate"}
    BY SubFields
  <2>3. PublishedIn(u, S, s) \in {"pending", "retired", "original", "toolate"}
    BY <2>2 DEF PublishedIn
  <2> QED BY <2>1, <2>3 DEF SubType
<1> HIDE DEF x
<1>2. T \in Seq(SubType) /\ DOMAIN T = DOMAIN S
  <2>1. DOMAIN S = 1..Len(S) /\ Len(S) \in Nat
    OBVIOUS
  <2>2. T \in [1..Len(S) -> SubType]
    BY <1>1, <2>1
  <2> QED BY <2>1, <2>2
<1>3. \A s \in DOMAIN S : (s \in H => T[s] = x(s)) /\ (s \notin H => T[s] = S[s])
  OBVIOUS
<1> HIDE DEF T
<1>4. SameSubs(S, T)
  BY <1>1, <1>2, <1>3 DEF SameSubs, Grown
<1>5. u.games \in Seq(GameType) /\ m.games \in Seq(GameType) /\ DOMAIN u.games \subseteq DOMAIN m.games
  <2>1. u.games \in Seq(GameType) /\ m.games \in Seq(GameType)
    BY DEF MatchType
  <2>2. Len(u.games) <= Len(m.games)
    BY DEF Follows
  <2> QED BY <2>1, <2>2
<1>6. ASSUME NEW s \in DOMAIN S, ToldIn(u, S, s)
      PROVE  ToldIn(m, S, s) /\ (WinsIn(u, S, s) <=> WinsIn(m, S, s))
  <2>1. CASE u.phase = "Decided"
    BY <2>1, <1>6 DEF Follows
  <2>2. CASE u.phase # "Decided"
    <3>1. DecidedIn(u, S, s)
      BY <2>2, <1>6 DEF ToldIn
    <3>2. DecidedIn(m, S, s) /\ m.games[S[s].game] = u.games[S[s].game]
      BY <3>1, <1>5 DEF DecidedIn, Follows
    <3> QED BY <3>1, <3>2 DEF ToldIn, WinsIn
  <2> QED BY <2>1, <2>2
<1>7. ShownOK(m, T)
  <2> SUFFICES ASSUME NEW s \in DOMAIN T
               PROVE  /\ T[s].outcome = "retired" => m.phase = "Decided"
                      /\ T[s].outcome \in {"original", "toolate"} => T[s].verdict # "none"
                      /\ T[s].outcome \in {"original", "toolate"} /\ T[s].verdict = "AC" =>
                           ToldIn(m, T, s) /\ (T[s].outcome = "original" <=> WinsIn(m, T, s))
    BY DEF ShownOK
  <2>1. s \in DOMAIN S /\ T[s].player = S[s].player /\ T[s].game = S[s].game /\ T[s].verdict = S[s].verdict
    BY <1>1, <1>2, <1>3
  <2>2. /\ DecidedIn(m, T, s) <=> DecidedIn(m, S, s)
        /\ ToldIn(m, T, s) <=> ToldIn(m, S, s)
        /\ WinsIn(m, T, s) <=> WinsIn(m, S, s)
    BY <2>1 DEF DecidedIn, ToldIn, WinsIn
  <2>3. CASE s \notin H
    BY <2>1, <2>2, <2>3, <1>3 DEF ShownOK
  <2>4. CASE s \in H
    <3>1. T[s].outcome = PublishedIn(u, S, s)
      BY <2>4, <1>1, <1>3
    <3>2. S[s].outcome \in {"pending", "retired"} /\ (S[s].outcome = "retired" => m.phase = "Decided")
      BY <2>4 DEF ShownOK
    <3>3. u.phase = "Decided" => m.phase = "Decided"
      BY DEF Follows
    <3>4. CASE S[s].verdict = "none"
      BY <3>1, <3>2, <3>3, <3>4, <2>1 DEF PublishedIn
    <3>5. CASE S[s].verdict # "none" /\ S[s].verdict # "AC"
      BY <3>1, <3>2, <3>5, <2>1, SubFields DEF PublishedIn
    <3>6. CASE S[s].verdict = "AC" /\ ~ToldIn(u, S, s)
      BY <3>1, <3>2, <3>6, <2>1 DEF PublishedIn
    <3>7. CASE S[s].verdict = "AC" /\ ToldIn(u, S, s)
      <4>1. ToldIn(m, S, s) /\ (WinsIn(u, S, s) <=> WinsIn(m, S, s))
        BY <3>7, <2>1, <1>6
      <4>2. T[s].outcome = (IF WinsIn(u, S, s) THEN "original" ELSE "toolate")
        BY <3>1, <3>7 DEF PublishedIn
      <4> QED BY <4>1, <4>2, <3>7, <2>1, <2>2
    <3> QED BY <3>4, <3>5, <3>6, <3>7
  <2> QED BY <2>3, <2>4
<1> QED BY <1>2, <1>4, <1>7 DEF T, x

-----------------------------------------------------------------------------
(* The invariant of the state *)

LeftType ==
  [asks : Nat, faults : Nat, staff : Nat, drivers : Nat, requests : Nat, extra : Nat]

CauseOK(c) == c[1] = "staff" => c[2] \in Players

TimersOK == ArmOK(timers) /\ claimed \subseteq {t.key : t \in timers} \X Drivers

DriverPcs ==
  /\ driver = [d \in Drivers |-> driver[d]]
  /\ \A d \in Drivers :
       /\ driver[d].pc \in {"idle", "look", "commit", "publish", "finish"}
       /\ driver[d].pc # "idle" => CauseOK(driver[d].cause)
  /\ fresh \subseteq Drivers

RequestPcs ==
  /\ request = [r \in Requests |-> request[r]]
  /\ \A r \in Requests : request[r].pc \in {"idle", "count", "insert"}
  /\ intact \subseteq Requests

Ambient ==
  /\ now \in 0..Horizon /\ left \in LeftType
  /\ fed \in Players \union {Nobody} /\ flaws \subseteq {"waited", "verdict", "staff"}

\* The stored match and the submissions agree.
Played ==
  /\ MatchOK(match) /\ match.extra <= left.extra
  /\ subs \in Seq(SubType) /\ InTime(match, subs)
  /\ EarliestIn(match, subs) /\ ExtraCharged(match, subs, left.extra)
  /\ ShownOK(match, subs) /\ PenaltiesOK(subs)

\* What a run will write goes on from the stored match while its snapshot is the
\* stored revision; what a run has written comes before it.
DriversOK ==
  /\ \A d \in fresh :
       driver[d].pc = "commit" /\ Carried(match, driver[d].match, subs, left.extra)
  /\ \A d \in Drivers :
       driver[d].pc = "publish" => driver[d].match \in MatchType /\ Follows(driver[d].match, match)

RequestsOK == \A r \in intact : RequestOK(request[r], match, subs, now)

BInv ==
  /\ Ambient /\ TimersOK /\ DriverPcs /\ RequestPcs
  /\ Played /\ DriversOK /\ RequestsOK

\* The initial state.
LEMMA InitB == Init => BInv
<1> SUFFICES ASSUME Init PROVE BInv
  OBVIOUS
<1>1. /\ Regular \in Nat /\ Target \in Nat /\ Target >= 1 /\ Target <= Regular /\ Tiebreaks \in Nat
      /\ Horizon \in Nat /\ left \in LeftType /\ left.extra \in Nat
  BY MatchSettings DEF Init, LeftType
<1>2. Ambient
  BY <1>1 DEF Init, Ambient
<1>3. TimersOK
  <2>1. ArmOK(timers)
    <3>1. timers = {Timer(StartKey, 0)}
      BY DEF Init, Timer
    <3> QED BY <3>1, OneTimer, KeyNames
  <2> QED BY <2>1 DEF TimersOK, Init
<1>4. DriverPcs /\ RequestPcs /\ DriversOK /\ RequestsOK
  BY DEF Init, DriverPcs, RequestPcs, DriversOK, RequestsOK, Idle
<1>5. /\ match.games = <<>> /\ match.phase = "Preparing" /\ match.extra = left.extra
      /\ match.tiebreak = 0 /\ match.score = [p \in Players |-> 0] /\ match \in MatchType
  BY <1>1 DEF Init, MatchType, Phases
<1>6. Len(match.games) = 0 /\ DOMAIN match.games = {}
  BY <1>5
<1>7. ScoredOnce(match)
  <2> SUFFICES ASSUME NEW p \in Players
               PROVE  match.score[p] = Cardinality({i \in DOMAIN match.games : match.games[i].winner = p})
    BY DEF ScoredOnce
  <2>1. {i \in DOMAIN match.games : match.games[i].winner = p} = {}
    BY <1>6
  <2> QED BY <2>1, <1>5, FS_EmptySet
<1>8. Sound(match)
  BY <1>1, <1>5, <1>6, <1>7 DEF Sound, MaxGames
<1>9. Between(match)
  BY <1>1, <1>5, <1>6 DEF Between
<1>10. MatchOK(match)
  BY <1>5, <1>6, <1>8, <1>9 DEF MatchOK, OpenPhases
<1>11. EarliestIn(match, subs) /\ ExtraCharged(match, subs, left.extra)
  BY <1>1, <1>5, <1>6 DEF EarliestIn, ExtraCharged, ExtraAfter
<1>12. subs = <<>> /\ subs \in Seq(SubType) /\ DOMAIN subs = {}
  BY DEF Init
<1>13. InTime(match, subs) /\ ShownOK(match, subs) /\ PenaltiesOK(subs)
  BY <1>12 DEF InTime, ShownOK, PenaltiesOK
<1>14. Played
  BY <1>1, <1>5, <1>10, <1>11, <1>12, <1>13 DEF Played
<1> QED BY <1>2, <1>3, <1>4, <1>14 DEF BInv

\* Setting and cancelling timers keeps their keys apart.
LEMMA SetTimersOK ==
  ASSUME TimersOK, NEW arm, NEW drop, ArmOK(arm), SetTimers(arm, drop)
  PROVE  TimersOK'
<1>1. timers' = {t \in {u \in timers : u.key \notin drop} : t.key \notin {a.key : a \in arm}} \union arm
  BY DEF SetTimers, Armed, Without
<1>2. claimed' = {c \in claimed : c[1] \notin drop \union {a.key : a \in arm}}
  BY DEF SetTimers
<1>3. ASSUME NEW x \in timers', NEW y \in timers', x.key = y.key PROVE x = y
  BY <1>1, <1>3 DEF TimersOK, ArmOK
<1>4. ASSUME NEW x \in timers' PROVE x.key[1] # "staff"
  BY <1>1 DEF TimersOK, ArmOK
<1>5. ASSUME NEW c \in claimed' PROVE c \in {t.key : t \in timers'} \X Drivers
  <2>1. c \in claimed /\ c[1] \notin drop /\ c[1] \notin {a.key : a \in arm}
    BY <1>2
  <2>2. c \in {t.key : t \in timers} \X Drivers
    BY <2>1 DEF TimersOK
  <2>3. PICK t \in timers : c[1] = t.key
    BY <2>2
  <2>4. t \in timers'
    BY <2>1, <2>3, <1>1
  <2> QED BY <2>2, <2>3, <2>4
<1>6. ArmOK(timers)'
  BY <1>3, <1>4 DEF ArmOK
<1> QED BY <1>5, <1>6 DEF TimersOK

\* A run that comes to a point other than publish, with no fresh snapshot.
LEMMA DriverGoes ==
  ASSUME BInv, NEW d \in Drivers, NEW x, driver' = [driver EXCEPT ![d] = x],
         x.pc \in {"idle", "look", "finish"}, x.pc # "idle" => CauseOK(x.cause),
         fresh' \subseteq fresh, d \notin fresh',
         match' = match, subs' = subs, left'.extra = left.extra
  PROVE  DriverPcs' /\ DriversOK'
<1>1. /\ driver' = [e \in Drivers |-> driver'[e]]
      /\ driver'[d] = x /\ \A e \in Drivers \ {d} : driver'[e] = driver[e]
  BY DEF BInv, DriverPcs
<1>2. DriverPcs'
  BY <1>1 DEF BInv, DriverPcs
<1>3. \A e \in fresh' : /\ driver'[e].pc = "commit"
                        /\ Carried(match', driver'[e].match, subs', left'.extra)
  BY <1>1 DEF BInv, DriversOK, DriverPcs
<1>4. \A e \in Drivers : driver'[e].pc = "publish" =>
        driver'[e].match \in MatchType /\ Follows(driver'[e].match, match')
  BY <1>1 DEF BInv, DriversOK
<1> QED BY <1>2, <1>3, <1>4 DEF DriversOK

\* Spending what the bounds leave.
LEMMA LeftSpent ==
  ASSUME NEW l \in LeftType
  PROVE  /\ l.staff > 0 => LET k == [l EXCEPT !.staff = @ - 1] IN k \in LeftType /\ k.extra = l.extra
         /\ l.faults > 0 => LET k == [l EXCEPT !.faults = @ - 1] IN k \in LeftType /\ k.extra = l.extra
         /\ l.asks > 0 => LET k == [l EXCEPT !.asks = @ - 1] IN k \in LeftType /\ k.extra = l.extra
<1>1. ASSUME l.staff > 0
      PROVE  LET k == [l EXCEPT !.staff = @ - 1] IN k \in LeftType /\ k.extra = l.extra
  <2>1. l.staff - 1 \in Nat
    BY <1>1 DEF LeftType
  <2> QED BY <2>1 DEF LeftType
<1>2. ASSUME l.faults > 0
      PROVE  LET k == [l EXCEPT !.faults = @ - 1] IN k \in LeftType /\ k.extra = l.extra
  <2>1. l.faults - 1 \in Nat
    BY <1>2 DEF LeftType
  <2> QED BY <2>1 DEF LeftType
<1>3. ASSUME l.asks > 0
      PROVE  LET k == [l EXCEPT !.asks = @ - 1] IN k \in LeftType /\ k.extra = l.extra
  <2>1. l.asks - 1 \in Nat
    BY <1>3 DEF LeftType
  <2> QED BY <2>1 DEF LeftType
<1> QED BY <1>1, <1>2, <1>3

\* The match and the submissions are left alone.
LEMMA PlayedStays ==
  ASSUME Played, match' = match, subs' = subs, left'.extra = left.extra
  PROVE  Played'
BY DEF Played

\* So are the requests.
LEMMA RequestsStay ==
  ASSUME RequestsOK, RequestPcs, match' = match, subs' = subs, request' = request,
         intact' = intact, now' = now
  PROVE  RequestsOK' /\ RequestPcs'
BY DEF RequestsOK, RequestPcs

\* Time passes.
LEMMA TickB == ASSUME BInv, Tick PROVE BInv'
<1>1. /\ match' = match /\ subs' = subs /\ request' = request /\ intact' = intact
      /\ driver' = driver /\ fresh' = fresh /\ timers' = timers /\ claimed' = claimed
      /\ fed' = fed /\ left' = left /\ flaws' = flaws
  BY DEF Tick
<1>2. now' \in 0..Horizon /\ now \in Int /\ now' \in Int /\ now <= now'
  BY MatchSettings DEF BInv, Ambient, Tick
<1>3. Ambient' /\ TimersOK' /\ DriverPcs' /\ RequestPcs' /\ DriversOK'
  BY <1>1, <1>2 DEF BInv, Ambient, TimersOK, ArmOK, DriverPcs, RequestPcs, DriversOK
<1>4. Played'
  BY <1>1, PlayedStays DEF BInv
<1>5. RequestsOK'
  <2> SUFFICES ASSUME NEW r \in intact PROVE RequestOK(request[r], match, subs, now')
    BY <1>1 DEF RequestsOK
  <2>1. RequestOK(request[r], match, subs, now)
    BY DEF BInv, RequestsOK
  <2>2. match.games[request[r].game].opened \in Int
    <3>1. InPlay(match) /\ match.games \in Seq(GameType) /\ request[r].game = Len(match.games)
      BY <2>1 DEF BInv, Played, MatchOK, Sound, MatchType, OpenPhases, RequestOK
    <3>2. match.games[request[r].game] \in GameType
      BY <3>1 DEF InPlay
    <3> QED BY <3>2 DEF GameType
  <2>3. SameSubs(subs, subs)
    BY DEF SameSubs, Grown
  <2> QED BY <2>1, <2>2, <2>3, <1>2, RequestKept
<1> QED BY <1>3, <1>4, <1>5 DEF BInv

\* A run that is not at commit has no fresh snapshot.
LEMMA NotFresh ==
  ASSUME BInv, NEW d \in Drivers, driver[d].pc # "commit"
  PROVE  d \notin fresh
BY DEF BInv, DriversOK

\* A timer is delivered.
LEMMA FireB == ASSUME BInv, NEW d \in Drivers, NEW t \in timers, Fire(d, t) PROVE BInv'
<1>1. /\ match' = match /\ subs' = subs /\ request' = request /\ intact' = intact /\ now' = now
      /\ fresh' = fresh /\ timers' = timers /\ fed' = fed /\ left' = left /\ flaws' = flaws
      /\ claimed' = claimed \union {<<t.key, d>>}
      /\ driver' = [driver EXCEPT ![d] = [pc |-> "look", cause |-> t.key]]
      /\ driver[d].pc = "idle"
  BY DEF Fire, Starts, Free, At
<1>2. d \notin fresh'
  BY <1>1, NotFresh
<1>3. t.key[1] # "staff"
  BY DEF BInv, TimersOK, ArmOK
<1>4. DriverPcs' /\ DriversOK'
  <2> DEFINE x == [pc |-> "look", cause |-> t.key]
  <2>1. x.pc = "look" /\ CauseOK(x.cause)
    BY <1>3 DEF CauseOK
  <2>2. driver' = [driver EXCEPT ![d] = x]
    BY <1>1
  <2> HIDE DEF x
  <2> QED BY <1>1, <1>2, <2>1, <2>2, DriverGoes
<1>5. TimersOK'
  <2>1. <<t.key, d>> \in {u.key : u \in timers} \X Drivers
    OBVIOUS
  <2> QED BY <1>1, <2>1 DEF BInv, TimersOK, ArmOK
<1>6. Ambient'
  BY <1>1 DEF BInv, Ambient
<1>7. Played' /\ RequestsOK' /\ RequestPcs'
  BY <1>1, PlayedStays, RequestsStay DEF BInv
<1> QED BY <1>4, <1>5, <1>6, <1>7 DEF BInv

\* Staff decide.
LEMMA StaffB == ASSUME BInv, NEW d \in Drivers, NEW p \in Players, Staff(d, p) PROVE BInv'
<1>1. /\ match' = match /\ subs' = subs /\ request' = request /\ intact' = intact /\ now' = now
      /\ fresh' = fresh /\ timers' = timers /\ claimed' = claimed /\ fed' = fed /\ flaws' = flaws
      /\ left.staff > 0 /\ left' = [left EXCEPT !.staff = @ - 1]
      /\ driver' = [driver EXCEPT ![d] = [pc |-> "look", cause |-> <<"staff", p>>]]
      /\ driver[d].pc = "idle"
  BY DEF Staff, Starts, Free, At
<1>2. left' \in LeftType /\ left'.extra = left.extra
  BY <1>1, LeftSpent DEF BInv, Ambient
<1>3. d \notin fresh'
  BY <1>1, NotFresh
<1>4. DriverPcs' /\ DriversOK'
  <2> DEFINE x == [pc |-> "look", cause |-> <<"staff", p>>]
  <2>1. x.pc = "look" /\ CauseOK(x.cause)
    BY DEF CauseOK
  <2>2. driver' = [driver EXCEPT ![d] = x]
    BY <1>1
  <2> HIDE DEF x
  <2> QED BY <1>1, <1>2, <1>3, <2>1, <2>2, DriverGoes
<1>5. TimersOK'
  BY <1>1 DEF BInv, TimersOK, ArmOK
<1>6. Ambient'
  BY <1>1, <1>2 DEF BInv, Ambient
<1>7. Played' /\ RequestsOK' /\ RequestPcs'
  BY <1>1, <1>2, PlayedStays, RequestsStay DEF BInv
<1> QED BY <1>4, <1>5, <1>6, <1>7 DEF BInv

\* Verdicts and outcomes do not disturb the games.
LEMMA PlayKept ==
  ASSUME NEW m \in MatchType, NEW n, NEW S \in Seq(SubType), NEW T \in Seq(SubType), NEW extra,
         SameSubs(S, T)
  PROVE  /\ EarliestIn(m, S) => EarliestIn(m, T)
         /\ EarliestIn(m, S) /\ ExtraCharged(m, S, extra) => ExtraCharged(m, T, extra)
         /\ InTime(m, S) => InTime(m, T)
         /\ Carried(m, n, S, extra) => Carried(m, n, T, extra)
<1>1. Grown(S, T) /\ \A o : LateIsOpen(o, S, T)
  BY DEF SameSubs, LateIsOpen
<1>2. EarliestIn(m, S) => EarliestIn(m, T)
  BY <1>1, GamesKept
<1>3. EarliestIn(m, S) /\ ExtraCharged(m, S, extra) => ExtraCharged(m, T, extra)
  BY <1>1, GamesKept
<1>4. InTime(m, S) => InTime(m, T)
  BY DEF InTime, SameSubs, Grown
<1>5. ASSUME Carried(m, n, S, extra) PROVE Carried(m, n, T, extra)
  <2>1. n \in MatchType /\ EarliestIn(n, S) /\ ExtraCharged(n, S, extra)
    BY <1>5 DEF Carried, MatchOK, Sound
  <2>2. EarliestIn(n, T) /\ ExtraCharged(n, T, extra)
    BY <2>1, <1>1, GamesKept
  <2> QED BY <1>5, <2>2 DEF Carried
<1> QED BY <1>2, <1>3, <1>4, <1>5

\* A run goes on and gives submissions verdicts or outcomes.
LEMMA SubsMove ==
  ASSUME BInv, NEW d \in Drivers, NEW x, driver' = [driver EXCEPT ![d] = x],
         x.pc \in {"look", "finish"}, CauseOK(x.cause),
         driver[d].pc # "commit", fresh' = fresh, match' = match, left' = left, now' = now,
         request' = request, intact' = intact,
         subs' \in Seq(SubType), SameSubs(subs, subs'), ShownOK(match, subs')
  PROVE  DriverPcs' /\ DriversOK' /\ Played' /\ RequestPcs' /\ RequestsOK'
<1>0. match \in MatchType /\ subs \in Seq(SubType)
  BY DEF BInv, Played, MatchOK, Sound
<1>1. /\ driver' = [e \in Drivers |-> driver'[e]]
      /\ driver'[d] = x /\ \A e \in Drivers \ {d} : driver'[e] = driver[e]
  BY DEF BInv, DriverPcs
<1>2. DriverPcs'
  BY <1>1 DEF BInv, DriverPcs
<1>3. d \notin fresh
  BY NotFresh
<1>4. ASSUME NEW e \in fresh
      PROVE  /\ driver'[e].pc = "commit"
             /\ Carried(match, driver'[e].match, subs', left.extra)
  <2>1. driver'[e] = driver[e] /\ driver[e].pc = "commit"
        /\ Carried(match, driver[e].match, subs, left.extra)
    BY <1>1, <1>3 DEF BInv, DriversOK, DriverPcs
  <2> QED BY <2>1, <1>0, PlayKept
<1>5. \A e \in Drivers : driver'[e].pc = "publish" =>
        driver'[e].match \in MatchType /\ Follows(driver'[e].match, match)
  BY <1>1 DEF BInv, DriversOK
<1>6. DriversOK'
  BY <1>4, <1>5 DEF DriversOK
<1>7. /\ EarliestIn(match, subs') /\ ExtraCharged(match, subs', left.extra) /\ InTime(match, subs')
  BY <1>0, PlayKept DEF BInv, Played
<1>8. PenaltiesOK(subs')
  BY PenaltiesKept DEF BInv, Played
<1>9. Played'
  BY <1>7, <1>8 DEF BInv, Played
<1>10. RequestPcs'
  BY DEF BInv, RequestPcs
<1>11. RequestsOK'
  <2> SUFFICES ASSUME NEW r \in intact PROVE RequestOK(request[r], match, subs', now)
    BY DEF RequestsOK
  <2>1. RequestOK(request[r], match, subs, now)
    BY DEF BInv, RequestsOK
  <2>2. match.games[request[r].game].opened \in Int
    <3>1. InPlay(match) /\ match.games \in Seq(GameType) /\ request[r].game = Len(match.games)
      BY <2>1 DEF BInv, Played, MatchOK, Sound, MatchType, OpenPhases, RequestOK
    <3>2. match.games[request[r].game] \in GameType
      BY <3>1 DEF InPlay
    <3> QED BY <3>2 DEF GameType
  <2>3. now \in Int /\ now <= now
    BY DEF BInv, Ambient
  <2> QED BY <2>1, <2>2, <2>3, RequestKept
<1> QED BY <1>2, <1>6, <1>9, <1>10, <1>11

\* A verdict is written.
LEMMA JudgeB ==
  ASSUME BInv, NEW d \in Drivers, NEW s \in DOMAIN subs, NEW v \in {"AC", "WA"}, Judge(d, s, v)
  PROVE  BInv'
<1>1. /\ match' = match /\ request' = request /\ intact' = intact /\ now' = now
      /\ fresh' = fresh /\ timers' = timers /\ claimed' = claimed /\ fed' = fed /\ flaws' = flaws
      /\ left' = left /\ subs' = [subs EXCEPT ![s].verdict = v] /\ subs[s].verdict = "none"
      /\ driver' = [driver EXCEPT ![d] = [pc |-> "look", cause |-> <<"verdict">>]]
      /\ driver[d].pc = "idle"
  BY DEF Judge, Starts, Free, At
<1>2. subs \in Seq(SubType) /\ ShownOK(match, subs)
  BY DEF BInv, Played
<1>3. subs' \in Seq(SubType) /\ SameSubs(subs, subs') /\ ShownOK(match, subs')
  BY <1>1, <1>2, JudgeKeeps
<1>4. DriverPcs' /\ DriversOK' /\ Played' /\ RequestPcs' /\ RequestsOK'
  <2> DEFINE x == [pc |-> "look", cause |-> <<"verdict">>]
  <2>1. x.pc = "look" /\ CauseOK(x.cause)
    BY DEF CauseOK
  <2>2. driver' = [driver EXCEPT ![d] = x]
    BY <1>1
  <2> HIDE DEF x
  <2> QED BY <1>1, <1>3, <2>1, <2>2, SubsMove
<1>5. TimersOK' /\ Ambient'
  BY <1>1 DEF BInv, TimersOK, ArmOK, Ambient
<1> QED BY <1>4, <1>5 DEF BInv

\* Held results are published.
LEMMA PublishB == ASSUME BInv, NEW d \in Drivers, Publish(d) PROVE BInv'
<1> DEFINE u == driver[d].match
           keys == {EffectiveKey(s, Effective(subs, s)) : s \in {s \in Held : Told(u, s)}}
           x == [pc |-> "finish", cause |-> driver[d].cause, match |-> u,
                 finish |-> driver[d].finish, keys |-> keys]
<1>1. /\ match' = match /\ request' = request /\ intact' = intact /\ now' = now
      /\ fresh' = fresh /\ flaws' = flaws /\ left' = left /\ driver[d].pc = "publish"
      /\ SetTimers({}, IF u.phase \in Over THEN {StartKey} ELSE {})
      /\ driver' = [driver EXCEPT ![d] = x]
      /\ fed' = IF u.phase = "Decided" THEN u.winner ELSE fed
  BY DEF Publish, At
<1>2. subs' = [s \in DOMAIN subs |->
                 IF s \in Held THEN [subs[s] EXCEPT !.outcome = PublishedIn(u, subs, s)] ELSE subs[s]]
  BY DEF Publish, Published, PublishedIn, Told, ToldIn, Wins, WinsIn, GameDecided, DecidedIn
<1>3. /\ subs \in Seq(SubType) /\ ShownOK(match, subs) /\ match \in MatchType
      /\ u \in MatchType /\ Follows(u, match)
  BY <1>1 DEF BInv, Played, DriversOK, MatchOK, Sound
<1>4. Held \in SUBSET DOMAIN subs /\ \A s \in Held : subs[s].outcome \in {"pending", "retired"}
  BY DEF Held
<1>5. subs' \in Seq(SubType) /\ SameSubs(subs, subs') /\ ShownOK(match, subs')
  <2> HIDE DEF u
  <2> QED BY <1>2, <1>3, <1>4, PublishKeeps, ZenonT(60)
<1>6. x.pc = "finish" /\ CauseOK(x.cause)
  <2>1. CauseOK(driver[d].cause)
    BY <1>1 DEF BInv, DriverPcs
  <2> QED BY <2>1
<1> HIDE DEF x, keys, u
<1>7. DriverPcs' /\ DriversOK' /\ Played' /\ RequestPcs' /\ RequestsOK'
  BY <1>1, <1>5, <1>6, SubsMove
<1>8. TimersOK'
  BY <1>1, NoTimer, SetTimersOK DEF BInv
<1>9. u.winner \in Players \union {Nobody}
  BY <1>3 DEF MatchType
<1>10. Ambient'
  BY <1>1, <1>9 DEF BInv, Ambient
<1> QED BY <1>7, <1>8, <1>10 DEF BInv

\* A run reads the match and works out what to write.
LEMMA LookB == ASSUME BInv, NEW d \in Drivers, Look(d) PROVE BInv'
<1> DEFINE c == driver[d].cause
           made == Effect(c, match, subs, now)
           x == [pc |-> "commit", cause |-> c, match |-> made.match, finish |-> Finishes(c, match)]
<1>1. /\ match' = match /\ subs' = subs /\ request' = request /\ intact' = intact /\ now' = now
      /\ flaws' = flaws /\ left' = left /\ fed' = fed /\ driver[d].pc = "look"
      /\ fresh' = fresh \union {d} /\ SetTimers(made.arm, made.drop)
      /\ ~(c[1] = "staff" /\ match.phase = "Decided")
  BY DEF Look, At
<1>2. driver' = [driver EXCEPT ![d] = x]
  BY Zenon DEF Look
<1>3. CauseOK(c)
  BY <1>1 DEF BInv, DriverPcs
<1>4. /\ match \in MatchType /\ MatchOK(match) /\ subs \in Seq(SubType) /\ InTime(match, subs)
      /\ EarliestIn(match, subs) /\ ExtraCharged(match, subs, left.extra) /\ now \in Nat
  BY DEF BInv, Played, MatchOK, Sound, Ambient
<1>5. Works(match, made, subs, left.extra)
  BY <1>1, <1>3, <1>4, EffectWorks DEF CauseOK
<1>6. x.pc = "commit" /\ x.cause = c /\ x.match = made.match
  OBVIOUS
<1> HIDE DEF x, made, c
<1>7. /\ driver' = [e \in Drivers |-> driver'[e]]
      /\ driver'[d] = x /\ \A e \in Drivers \ {d} : driver'[e] = driver[e]
  BY <1>2 DEF BInv, DriverPcs
<1>8. DriverPcs'
  BY <1>1, <1>3, <1>6, <1>7 DEF BInv, DriverPcs
<1>9. DriversOK'
  <2>1. \A e \in fresh' : /\ driver'[e].pc = "commit"
                          /\ Carried(match, driver'[e].match, subs, left.extra)
    BY <1>1, <1>5, <1>6, <1>7 DEF BInv, DriversOK, DriverPcs, Works
  <2>2. \A e \in Drivers : driver'[e].pc = "publish" =>
          driver'[e].match \in MatchType /\ Follows(driver'[e].match, match)
    BY <1>6, <1>7 DEF BInv, DriversOK
  <2> QED BY <2>1, <2>2, <1>1 DEF DriversOK
<1>10. TimersOK'
  BY <1>1, <1>5, SetTimersOK DEF BInv, Works
<1>11. Ambient'
  BY <1>1 DEF BInv, Ambient
<1>12. Played' /\ RequestsOK' /\ RequestPcs'
  BY <1>1, PlayedStays, RequestsStay DEF BInv
<1> QED BY <1>8, <1>9, <1>10, <1>11, <1>12 DEF BInv

\* A run ends, or starts over.
LEMMA DriverLeaves ==
  ASSUME BInv, NEW d \in Drivers, NEW x, driver' = [driver EXCEPT ![d] = x],
         x.pc \in {"idle", "look"}, x.pc # "idle" => CauseOK(x.cause),
         fresh' \subseteq fresh, d \notin fresh', TimersOK', left' \in LeftType,
         left'.extra = left.extra, flaws' \subseteq {"waited", "verdict", "staff"},
         UNCHANGED <<now, match, subs, request, intact, fed>>
  PROVE  BInv'
<1>1. DriverPcs' /\ DriversOK'
  BY DriverGoes
<1>2. Ambient'
  BY DEF BInv, Ambient
<1>3. Played' /\ RequestsOK' /\ RequestPcs'
  BY PlayedStays, RequestsStay DEF BInv
<1> QED BY <1>1, <1>2, <1>3 DEF BInv

\* Staff find the match decided.
LEMMA RefuseB == ASSUME BInv, NEW d \in Drivers, Refuse(d) PROVE BInv'
<1>1. /\ driver' = [driver EXCEPT ![d] = Idle] /\ driver[d].pc = "look" /\ fresh' = fresh
      /\ UNCHANGED <<now, match, subs, request, intact, fed>>
      /\ left' = left /\ flaws' = flaws /\ timers' = timers /\ claimed' = claimed
  BY DEF Refuse, At
<1>2. d \notin fresh'
  BY <1>1, NotFresh
<1>3. TimersOK'
  BY <1>1 DEF BInv, TimersOK, ArmOK
<1>4. left' \in LeftType /\ left'.extra = left.extra /\ flaws' \subseteq {"waited", "verdict", "staff"}
  BY <1>1 DEF BInv, Ambient
<1>5. Idle.pc = "idle"
  BY DEF Idle
<1> QED BY <1>1, <1>2, <1>3, <1>4, <1>5, DriverLeaves

\* The revision has changed: the run starts over.
LEMMA RetryB == ASSUME BInv, NEW d \in Drivers, Retry(d) PROVE BInv'
<1> DEFINE x == [pc |-> "look", cause |-> driver[d].cause]
<1>1. /\ driver' = [driver EXCEPT ![d] = x] /\ driver[d].pc = "commit" /\ fresh' = fresh
      /\ d \notin fresh'
      /\ UNCHANGED <<now, match, subs, request, intact, fed>>
      /\ left' = left /\ flaws' = flaws /\ timers' = timers /\ claimed' = claimed
  BY DEF Retry, At
<1>2. x.pc = "look" /\ CauseOK(x.cause)
  BY <1>1 DEF BInv, DriverPcs
<1> HIDE DEF x
<1>3. TimersOK'
  BY <1>1 DEF BInv, TimersOK, ArmOK
<1>4. left' \in LeftType /\ left'.extra = left.extra /\ flaws' \subseteq {"waited", "verdict", "staff"}
  BY <1>1 DEF BInv, Ambient
<1> QED BY <1>1, <1>2, <1>3, <1>4, DriverLeaves

\* The work is complete.
LEMMA FinishB == ASSUME BInv, NEW d \in Drivers, Finish(d) PROVE BInv'
<1> DEFINE drop == (IF driver[d].finish THEN driver[d].keys \union Obsolete(driver[d].match) ELSE {})
                     \union {k \in {driver[d].cause} : <<k, d>> \in claimed}
<1>1. /\ driver' = [driver EXCEPT ![d] = Idle] /\ fresh' = fresh \ {d}
      /\ UNCHANGED <<now, match, subs, request, intact, fed>>
      /\ left' = left /\ flaws' = flaws
  BY DEF Finish, Ends
<1>2. SetTimers({}, drop)
  BY DEF Finish
<1>3. TimersOK'
  <2> HIDE DEF drop
  <2> QED BY <1>2, NoTimer, SetTimersOK DEF BInv
<1>4. left' \in LeftType /\ left'.extra = left.extra /\ flaws' \subseteq {"waited", "verdict", "staff"}
  BY <1>1 DEF BInv, Ambient
<1>5. Idle.pc = "idle"
  BY DEF Idle
<1> QED BY <1>1, <1>3, <1>4, <1>5, DriverLeaves

\* A run gives up: what is noted is a cause without a timer.
LEMMA GaveUp ==
  ASSUME BInv, NEW d \in Drivers, GivesUp(d)
  PROVE  flaws' \subseteq {"waited", "verdict", "staff"}
BY DEF BInv, Ambient, GivesUp, Timed

\* A call fails.
LEMMA FailB == ASSUME BInv, NEW d \in Drivers, Fail(d) PROVE BInv'
<1> DEFINE arm == IF Timed(d) THEN {Timer(driver[d].cause, now)} ELSE {}
<1>1. /\ driver' = [driver EXCEPT ![d] = Idle] /\ fresh' = fresh \ {d}
      /\ UNCHANGED <<now, match, subs, request, intact, fed>>
      /\ left.faults > 0 /\ left' = [left EXCEPT !.faults = @ - 1] /\ GivesUp(d)
      /\ SetTimers(arm, {})
  BY DEF Fail, Ends
<1>2. ArmOK(arm)
  <2>1. CASE Timed(d)
    <3>1. driver[d].cause[1] # "staff"
      BY <2>1 DEF Timed
    <3> QED BY <3>1, <2>1, OneTimer
  <2>2. CASE ~Timed(d)
    BY <2>2, NoTimer
  <2> QED BY <2>1, <2>2
<1> HIDE DEF arm
<1>3. TimersOK'
  BY <1>1, <1>2, SetTimersOK DEF BInv
<1>4. left' \in LeftType /\ left'.extra = left.extra /\ flaws' \subseteq {"waited", "verdict", "staff"}
  BY <1>1, LeftSpent, GaveUp DEF BInv, Ambient
<1>5. Idle.pc = "idle"
  BY DEF Idle
<1> QED BY <1>1, <1>3, <1>4, <1>5, DriverLeaves

\* The server stops.
LEMMA CrashB == ASSUME BInv, NEW d \in Drivers, Crash(d) PROVE BInv'
<1>1. /\ driver' = [driver EXCEPT ![d] = Idle] /\ fresh' = fresh \ {d}
      /\ UNCHANGED <<now, match, subs, request, intact, fed>> /\ timers' = timers
      /\ left.faults > 0 /\ left' = [left EXCEPT !.faults = @ - 1] /\ GivesUp(d)
      /\ claimed' = {k \in claimed : k[2] # d}
  BY DEF Crash, Ends
<1>2. TimersOK'
  BY <1>1 DEF BInv, TimersOK, ArmOK
<1>3. left' \in LeftType /\ left'.extra = left.extra /\ flaws' \subseteq {"waited", "verdict", "staff"}
  BY <1>1, LeftSpent, GaveUp DEF BInv, Ambient
<1>4. Idle.pc = "idle"
  BY DEF Idle
<1> QED BY <1>1, <1>2, <1>3, <1>4, DriverLeaves

\* A match that is in order follows itself.
LEMMA FollowsSelf == ASSUME NEW m \in MatchType PROVE Follows(m, m)
<1>1. m.extra \in Nat /\ Len(m.games) \in Nat
  BY DEF MatchType
<1> QED BY <1>1 DEF Follows

\* The match is written on the revision that was read.
LEMMA CommitB == ASSUME BInv, NEW d \in Drivers, Commit(d) PROVE BInv'
<1> DEFINE n == driver[d].match
           x == [pc |-> IF driver[d].finish THEN "publish" ELSE "finish", cause |-> driver[d].cause,
                 match |-> n, finish |-> driver[d].finish, keys |-> {}]
<1>1. /\ driver[d].pc = "commit" /\ d \in fresh /\ match' = n /\ fresh' = {}
      /\ intact' = (IF match' = match THEN intact ELSE {})
      /\ UNCHANGED <<now, subs, request, timers, claimed, fed, left>>
      /\ flaws' \subseteq flaws \union {"waited"}
  BY DEF Commit, At
<1>2. driver' = [driver EXCEPT ![d] = x]
  BY <1>1, Zenon DEF Commit
<1>3. Carried(match, n, subs, left.extra) /\ CauseOK(driver[d].cause)
  BY <1>1 DEF BInv, DriversOK, DriverPcs
<1>4. match \in MatchType /\ n \in MatchType /\ MatchOK(n) /\ Follows(match, n)
  BY <1>3 DEF BInv, Played, Carried, MatchOK, Sound
<1>5. x.pc \in {"publish", "finish"} /\ x.cause = driver[d].cause /\ x.match = n
  OBVIOUS
<1> HIDE DEF x, n
<1>6. /\ driver' = [e \in Drivers |-> driver'[e]]
      /\ driver'[d] = x /\ \A e \in Drivers \ {d} : driver'[e] = driver[e]
  BY <1>2 DEF BInv, DriverPcs
<1>7. DriverPcs'
  BY <1>1, <1>3, <1>5, <1>6 DEF BInv, DriverPcs
<1>8. DriversOK'
  <2>1. ASSUME NEW e \in Drivers, driver'[e].pc = "publish"
        PROVE  driver'[e].match \in MatchType /\ Follows(driver'[e].match, n)
    <3>1. CASE e = d
      BY <3>1, <1>4, <1>5, <1>6, FollowsSelf
    <3>2. CASE e # d
      <4>1. driver'[e] = driver[e]
        BY <3>2, <1>6
      <4>2. driver[e].match \in MatchType /\ Follows(driver[e].match, match)
        BY <4>1, <2>1 DEF BInv, DriversOK
      <4> QED BY <4>1, <4>2, <1>4, FollowsTransitive
    <3> QED BY <3>1, <3>2
  <2> QED BY <2>1, <1>1 DEF DriversOK
<1>9. Played'
  <2>1. n.extra <= match.extra /\ match.extra <= left.extra
    BY <1>4 DEF Follows, BInv, Played
  <2>2. n.extra \in Nat /\ match.extra \in Nat /\ left.extra \in Nat
    BY <1>4 DEF MatchType, BInv, Ambient, LeftType
  <2>3. n.extra <= left.extra
    BY <2>1, <2>2
  <2>4. InTime(n, subs) /\ ShownOK(n, subs)
    BY <1>4, FollowsKeeps DEF BInv, Played
  <2>5. EarliestIn(n, subs) /\ ExtraCharged(n, subs, left.extra)
    BY <1>3 DEF Carried
  <2> QED BY <2>3, <2>4, <2>5, <1>1, <1>4 DEF BInv, Played
<1>10. RequestPcs' /\ RequestsOK'
  <2>1. CASE n = match
    BY <2>1, <1>1 DEF BInv, RequestPcs, RequestsOK
  <2>2. CASE n # match
    BY <2>2, <1>1 DEF BInv, RequestPcs, RequestsOK
  <2> QED BY <2>1, <2>2
<1>11. TimersOK' /\ Ambient'
  BY <1>1 DEF BInv, TimersOK, ArmOK, Ambient
<1> QED BY <1>7, <1>8, <1>9, <1>10, <1>11 DEF BInv

\* A request moves; the match, the runs and the timers do not.
LEMMA RequestMoves ==
  ASSUME BInv, NEW r \in Requests, NEW q, request' = [request EXCEPT ![r] = q],
         q.pc \in {"idle", "count", "insert"}, intact' \subseteq intact \union {r},
         r \in intact' => RequestOK(q, match, subs, now),
         left' \in LeftType, left'.extra = left.extra,
         UNCHANGED <<now, match, subs, driver, fresh, timers, claimed, fed, flaws>>
  PROVE  BInv'
<1>1. /\ request' = [e \in Requests |-> request'[e]]
      /\ request'[r] = q /\ \A e \in Requests \ {r} : request'[e] = request[e]
  BY DEF BInv, RequestPcs
<1>2. RequestPcs'
  BY <1>1 DEF BInv, RequestPcs
<1>3. RequestsOK'
  BY <1>1 DEF BInv, RequestsOK, RequestPcs
<1>4. Ambient' /\ TimersOK' /\ DriverPcs' /\ DriversOK'
  BY DEF BInv, Ambient, TimersOK, ArmOK, DriverPcs, DriversOK
<1>5. Played'
  BY PlayedStays DEF BInv
<1> QED BY <1>2, <1>3, <1>4, <1>5 DEF BInv

\* A request is turned away.
LEMMA RejectB ==
  ASSUME BInv, NEW r \in Requests, Reject(r), left' = left,
         UNCHANGED <<now, match, driver, fresh, timers, claimed, fed, flaws>>
  PROVE  BInv'
<1>1. /\ request' = [request EXCEPT ![r] = Idle] /\ intact' = intact \ {r} /\ subs' = subs
      /\ Idle.pc = "idle"
  BY DEF Reject, Idle
<1>2. left' \in LeftType /\ left'.extra = left.extra
  BY DEF BInv, Ambient
<1> QED BY <1>1, <1>2, RequestMoves

\* The gate reads the match and the slot: nothing of the player is being judged.
LEMMA AskB ==
  ASSUME BInv, NEW r \in Requests, NEW p \in Players, Ask(r, p)
  PROVE  BInv'
<1> DEFINE q == [pc |-> "count", player |-> p, game |-> Index(match),
                 generation |-> Cardinality(Mine(p))]
<1>1. /\ request' = [request EXCEPT ![r] = q] /\ intact' = intact \union {r}
      /\ left.asks > 0 /\ left' = [left EXCEPT !.asks = @ - 1]
      /\ match.phase \in {"InProgress", "Tiebreak"} /\ ~SlotTaken(p)
      /\ UNCHANGED <<now, match, subs, driver, fresh, timers, claimed, fed, flaws>>
  BY DEF Ask
<1>2. left' \in LeftType /\ left'.extra = left.extra
  BY <1>1, LeftSpent DEF BInv, Ambient
<1>3. /\ q.pc = "count" /\ q.player = p /\ q.game = Len(match.games)
      /\ q.generation = Cardinality(MineOf(subs, p))
  BY DEF Index, Mine, MineOf
<1> HIDE DEF q
<1>4. Cardinality(MineOf(subs, p)) \in Nat
  <2>1. MineOf(subs, p) \in SUBSET DOMAIN subs /\ subs \in Seq(SubType)
    BY DEF MineOf, BInv, Played
  <2> QED BY <2>1, SubsOrdered, FS_CardinalityType
<1>5. ASSUME NEW s \in MineOf(subs, p) PROVE subs[s].verdict # "none"
  <2>1. s \in DOMAIN subs /\ subs \in Seq(SubType)
    BY DEF MineOf, BInv, Played
  <2>2. subs[s].outcome # "pending"
    BY <1>1 DEF SlotTaken, Mine, MineOf
  <2>3. subs[s].outcome # "retired"
    BY <2>1, <1>1 DEF BInv, Played, ShownOK
  <2>4. subs[s].outcome \in {"original", "toolate"}
    BY <2>1, <2>2, <2>3, SubFields
  <2> QED BY <2>1, <2>4 DEF BInv, Played, ShownOK
<1>6. RequestOK(q, match, subs, now)
  BY <1>1, <1>3, <1>4, <1>5 DEF RequestOK
<1> QED BY <1>1, <1>2, <1>3, <1>6, RequestMoves

\* The delay of the next submission of p to the current game.
LEMMA DelayIs ==
  ASSUME NEW m \in MatchType, NEW n, n.games = m.games, NEW S \in Seq(SubType), InTime(m, S),
         Len(m.games) >= 1, NEW p
  PROVE  /\ Delay(n, S, p) = PenaltyFor(InGameOf(S, p, Len(m.games)), S, Len(m.games))
         /\ Delay(n, S, p) \in Nat
<1> DEFINE g == Len(m.games)
           W == {e \in InGameOf(S, p, g) : S[e].verdict = "WA"}
<1>1. InGame(n, S) = {s \in DOMAIN S : S[s].game = g}
  <2>1. InGame(n, S) = InGame(m, S)
    BY DEF InGame, Game
  <2> QED BY <2>1, AllInGame
<1>2. {s \in InGame(n, S) : S[s].player = p /\ S[s].verdict = "WA"} = W
  BY <1>1 DEF InGameOf, MineOf
<1>3. W \in SUBSET DOMAIN S
  BY DEF InGameOf, MineOf
<1>4. Cardinality(W) \in Nat
  BY <1>3, SubsOrdered, FS_CardinalityType
<1> HIDE DEF W
<1>5. IsRegular(n) <=> g <= Regular
  BY DEF IsRegular
<1>6. Delay(n, S, p) = IF g <= Regular THEN Penalty * Cardinality(W) ELSE 0
  BY <1>2, <1>5 DEF Delay
<1>7. \A c \in Nat : Penalty * c \in Nat
  BY MatchSettings
<1>8. Delay(n, S, p) \in Nat
  BY <1>4, <1>6, <1>7
<1> QED BY <1>6, <1>8 DEF PenaltyFor, W

\* The gate counts the errors and looks at the clock.
LEMMA CountB == ASSUME BInv, NEW r \in Requests, Count(r) PROVE BInv'
<1> DEFINE q == request[r]
           n == [match EXCEPT !.games = SubSeq(@, 1, q.game)]
           y == [pc |-> "insert", player |-> q.player, game |-> q.game,
                 generation |-> q.generation, delay |-> Delay(n, subs, q.player)]
<1>1. /\ q.pc = "count" /\ left' = left
      /\ UNCHANGED <<now, match, driver, fresh, timers, claimed, fed, flaws>>
  BY DEF Count
<1>2. CASE ~(Playing(r).opened <= now /\ now < Cutoff(Playing(r).deadline))
  <2>1. Reject(r)
    BY <1>2 DEF Count
  <2> QED BY <2>1, <1>1, RejectB
<1>3. CASE Playing(r).opened <= now /\ now < Cutoff(Playing(r).deadline)
  <2>1. request' = [request EXCEPT ![r] = y]
    BY <1>3, Zenon DEF Count
  <2>2. subs' = subs /\ intact' = intact
    BY <1>3 DEF Count
  <2>3. left' \in LeftType /\ left'.extra = left.extra
    BY <1>1 DEF BInv, Ambient
  <2>4. /\ y.pc = "insert" /\ y.player = q.player /\ y.game = q.game
        /\ y.generation = q.generation /\ y.delay = Delay(n, subs, q.player)
    OBVIOUS
  <2>5. ASSUME r \in intact PROVE RequestOK(y, match, subs, now)
    <3>1. RequestOK(q, match, subs, now)
      BY <2>5 DEF BInv, RequestsOK
    <3>2. /\ match \in MatchType /\ subs \in Seq(SubType) /\ InTime(match, subs)
          /\ match.games \in Seq(GameType) /\ Len(match.games) >= 1 /\ q.game = Len(match.games)
      BY <3>1 DEF BInv, Played, MatchOK, Sound, MatchType, OpenPhases, InPlay, RequestOK
    <3>3. n.games = match.games
      <4>1. SubSeq(match.games, 1, Len(match.games)) = match.games
        BY <3>2
      <4>2. n.games = SubSeq(match.games, 1, q.game)
        BY <3>2 DEF MatchType
      <4> QED BY <4>1, <4>2, <3>2
    <3> HIDE DEF n
    <3>4. /\ Delay(n, subs, q.player) = PenaltyFor(InGameOf(subs, q.player, q.game), subs, q.game)
          /\ Delay(n, subs, q.player) \in Nat
      BY <3>2, <3>3, DelayIs
    <3>5. match.games[q.game].opened <= now
      BY <1>3 DEF Playing
    <3> HIDE DEF y, q
    <3> QED BY <3>1, <3>4, <3>5, <2>4 DEF RequestOK
  <2> HIDE DEF y, q, n
  <2> QED BY <2>1, <2>2, <2>3, <2>4, <2>5, <1>1, RequestMoves
<1> QED BY <1>2, <1>3

\* The submission is inserted, and every fresh snapshot is stale.
LEMMA InsertB == ASSUME BInv, NEW r \in Requests, Insert(r) PROVE BInv'
<1> DEFINE q == request[r]
<1>1. /\ q.pc = "insert" /\ r \in intact /\ q.generation = Cardinality(MineOf(subs, q.player))
      /\ now < Cutoff(match.games[q.game].deadline)
      /\ subs' = Append(subs, NewSub(q, now))
      /\ request' = [request EXCEPT ![r] = Idle] /\ intact' = intact \ {r} /\ fresh' = {}
      /\ UNCHANGED <<now, match, driver, timers, claimed, fed, left, flaws>>
  BY DEF Insert, Admissible, Playing, Mine, MineOf, NewSub
<1>2. /\ match \in MatchType /\ subs \in Seq(SubType) /\ now \in 0..Horizon
      /\ MatchOK(match) /\ InTime(match, subs) /\ ShownOK(match, subs) /\ PenaltiesOK(subs)
      /\ EarliestIn(match, subs) /\ ExtraCharged(match, subs, left.extra)
      /\ RequestOK(q, match, subs, now)
  BY <1>1 DEF BInv, Played, Ambient, RequestsOK, MatchOK, Sound
<1> HIDE DEF q
<1>3. /\ subs' \in Seq(SubType) /\ Grown(subs, subs') /\ LateIsOpen(match, subs, subs')
      /\ InTime(match, subs') /\ ShownOK(match, subs') /\ PenaltiesOK(subs')
      /\ \A o : RequestOK(o, match, subs, now) => RequestOK(o, match, subs', now)
  BY <1>1, <1>2, InsertKeeps
<1>4. EarliestIn(match, subs') /\ ExtraCharged(match, subs', left.extra)
  BY <1>2, <1>3, GamesKept
<1>5. Played'
  BY <1>1, <1>3, <1>4 DEF BInv, Played
<1>6. /\ request' = [e \in Requests |-> request'[e]]
      /\ request'[r] = Idle /\ \A e \in Requests \ {r} : request'[e] = request[e]
  BY <1>1 DEF BInv, RequestPcs
<1>7. RequestPcs'
  BY <1>1, <1>6 DEF BInv, RequestPcs, Idle
<1>8. RequestsOK'
  BY <1>1, <1>3, <1>6 DEF BInv, RequestsOK, RequestPcs
<1>9. Ambient' /\ TimersOK' /\ DriverPcs' /\ DriversOK'
  BY <1>1 DEF BInv, Ambient, TimersOK, ArmOK, DriverPcs, DriversOK
<1> QED BY <1>5, <1>7, <1>8, <1>9 DEF BInv

\* Every step keeps the invariant.
LEMMA NextB == ASSUME BInv, [Next]_vars PROVE BInv'
<1>1. CASE UNCHANGED vars
  BY <1>1 DEF vars, BInv, Ambient, TimersOK, ArmOK, DriverPcs, RequestPcs, Played, DriversOK,
       RequestsOK
<1>2. CASE Tick
  BY <1>2, TickB
<1>3. CASE Deliver
  BY <1>3, FireB DEF Deliver
<1>4. ASSUME NEW d \in Drivers, Run(d) PROVE BInv'
  BY <1>4, LookB, RefuseB, CommitB, RetryB, PublishB, FinishB DEF Run
<1>5. ASSUME NEW d \in Drivers, Fail(d) \/ Crash(d) PROVE BInv'
  BY <1>5, FailB, CrashB
<1>6. ASSUME NEW d \in Drivers, NEW s \in DOMAIN subs, NEW v \in {"AC", "WA"}, Judge(d, s, v)
      PROVE  BInv'
  BY <1>6, JudgeB
<1>7. ASSUME NEW d \in Drivers, NEW p \in Players, Staff(d, p) PROVE BInv'
  BY <1>7, StaffB
<1>8. ASSUME NEW r \in Requests, Submit(r) PROVE BInv'
  <2>1. CASE Count(r)
    BY <2>1, CountB
  <2>2. CASE Insert(r)
    BY <2>2, InsertB
  <2>3. CASE Refused(r)
    <3>1. /\ Reject(r) /\ left' = left
          /\ UNCHANGED <<now, match, driver, fresh, timers, claimed, fed, flaws>>
      BY <2>3 DEF Refused
    <3> QED BY <3>1, RejectB
  <2>4. ASSUME NEW p \in Players, Ask(r, p) PROVE BInv'
    BY <2>4, AskB
  <2> QED BY <1>8, <2>1, <2>2, <2>3, <2>4 DEF Submit
<1> QED BY <1>1, <1>2, <1>3, <1>4, <1>5, <1>6, <1>7, <1>8 DEF Next

-----------------------------------------------------------------------------
(* The theorems *)

\* The invariant holds in every state.
THEOREM BracketInvariant == Spec => []BInv
BY InitB, NextB, PTL DEF Spec

\* What the invariant says of a state.
LEMMA InvariantSays ==
  ASSUME BInv
  PROVE  TypeOK /\ EarliestWins /\ PenaltyExact /\ ScoreExact /\ ShownIsWon
<1>1. /\ match \in MatchType /\ Sound(match) /\ subs \in Seq(SubType)
  BY DEF BInv, Played, MatchOK, Sound
<1>2. EarliestWins
  BY DEF BInv, Played, EarliestWins
<1>3. ScoreExact
  BY <1>1 DEF BInv, Played, ScoreExact, Sound
<1>4. PenaltyExact
  <2> SUFFICES ASSUME NEW s \in DOMAIN subs
               PROVE  LET earlier == {e \in Mine(subs[s].player) : e < s /\ subs[e].game = subs[s].game} IN
                        /\ \A e \in earlier : subs[e].verdict # "none"
                        /\ subs[s].delay =
                             IF subs[s].game <= Regular
                             THEN Penalty * Cardinality({e \in earlier : subs[e].verdict = "WA"}) ELSE 0
    BY DEF PenaltyExact
  <2>1. /\ \A e \in EarlierOf(subs, s) : subs[e].verdict # "none"
        /\ subs[s].delay = PenaltyFor(EarlierOf(subs, s), subs, subs[s].game)
    BY DEF BInv, Played, PenaltiesOK
  <2>2. EarlierOf(subs, s) = {e \in Mine(subs[s].player) : e < s /\ subs[e].game = subs[s].game}
    BY DEF EarlierOf, Mine, MineOf
  <2> QED BY <2>1, <2>2 DEF PenaltyFor
<1>5. ShownIsWon
  <2> SUFFICES ASSUME NEW s \in DOMAIN subs, subs[s].verdict = "AC",
                      subs[s].outcome \in {"original", "toolate"}
               PROVE  subs[s].outcome = "original" <=> Wins(match, s)
    BY DEF ShownIsWon
  <2>1. subs[s].outcome = "original" <=> WinsIn(match, subs, s)
    BY DEF BInv, Played, ShownOK
  <2> QED BY <2>1 DEF Wins, WinsIn, GameDecided, DecidedIn
<1>6. TypeOK
  <2>1. /\ match.phase \in Phases /\ Len(match.games) <= MaxGames
        /\ match.winner \in Players \union {Nobody}
    BY <1>1 DEF Sound, MatchType
  <2>2. \A p \in Players : match.score[p] \in 0..MaxGames
    <3> SUFFICES ASSUME NEW p \in Players PROVE match.score[p] \in 0..MaxGames
      OBVIOUS
    <3> DEFINE A == {i \in DOMAIN match.games : match.games[i].winner = p}
               k == Len(match.games)
    <3>1. k \in Nat /\ DOMAIN match.games = 1..k /\ k <= MaxGames /\ MaxGames \in Nat
      BY <1>1, MatchSettings DEF Sound, MatchType, MaxGames
    <3>2. match.score[p] = Cardinality(A)
      BY <1>1 DEF Sound, ScoredOnce
    <3>3. A \subseteq 1..k
      BY <3>1
    <3> HIDE DEF A, k
    <3>4. IsFiniteSet(1..k) /\ Cardinality(1..k) = k
      BY <3>1, FS_Interval
    <3>5. IsFiniteSet(A) /\ Cardinality(A) <= Cardinality(1..k)
      BY <3>3, <3>4, FS_Subset
    <3>6. Cardinality(A) \in Nat
      BY <3>5, FS_CardinalityType
    <3> QED BY <3>1, <3>2, <3>4, <3>5, <3>6
  <2>3. match.tiebreak \in 0..Tiebreaks /\ match.extra \in 0..left.extra
    <3>1. match.tiebreak \in Nat /\ match.extra \in Nat /\ Tiebreaks \in Nat /\ left.extra \in Nat
      BY <1>1, MatchSettings DEF MatchType, BInv, Ambient, LeftType
    <3>2. match.tiebreak <= Tiebreaks /\ match.extra <= left.extra
      BY <1>1 DEF Sound, BInv, Played
    <3> QED BY <3>1, <3>2
  <2>4. \A i \in DOMAIN match.games : match.games[i].winner \in Players \union {Nobody}
    <3> SUFFICES ASSUME NEW i \in DOMAIN match.games
                 PROVE  match.games[i].winner \in Players \union {Nobody}
      OBVIOUS
    <3>1. match.games \in Seq(GameType)
      BY <1>1 DEF MatchType
    <3>2. match.games[i] \in GameType
      BY <3>1
    <3> QED BY <3>2 DEF GameType
  <2>5. \A s \in DOMAIN subs :
          /\ subs[s].player \in Players /\ subs[s].at \in 0..Horizon /\ subs[s].delay \in Nat
          /\ subs[s].verdict \in {"none", "AC", "WA"}
          /\ subs[s].outcome \in {"pending", "retired", "original", "toolate"}
    BY <1>1, SubFields
  <2>6. /\ now \in 0..Horizon /\ fed \in Players \union {Nobody}
        /\ flaws \subseteq {"waited", "verdict", "staff"}
    BY DEF BInv, Ambient
  <2>7. /\ \A r \in Requests : request[r].pc \in {"idle", "count", "insert"}
        /\ \A d \in Drivers : driver[d].pc \in {"idle", "look", "commit", "publish", "finish"}
        /\ intact \subseteq Requests /\ fresh \subseteq Drivers
    BY DEF BInv, RequestPcs, DriverPcs
  <2>8. /\ \A t, u \in timers : t.key = u.key => t = u
        /\ claimed \subseteq {t.key : t \in timers} \X Drivers
    BY DEF BInv, TimersOK, ArmOK
  <2> QED BY <2>1, <2>2, <2>3, <2>4, <2>5, <2>6, <2>7, <2>8 DEF TypeOK
<1> QED BY <1>2, <1>3, <1>4, <1>5, <1>6

\* The match, its submissions, runs, requests and timers keep their types; no more
\* games are opened than there are problems for (open_xiaoju_at indexes them).
THEOREM MatchTypeCorrect == Spec => []TypeOK
BY BracketInvariant, InvariantSays, PTL

\* decide_game_at_cutoff gives a game to its earliest effective accepted submission,
\* whatever was judged, submitted or decided while the decision was made.
THEOREM EarliestSubmissionWins == Spec => []EarliestWins
BY BracketInvariant, InvariantSays, PTL

\* insert_admitted admits a submission with the penalty for all the errors its player
\* made before in the game, with none of them still being judged.
THEOREM PenaltiesAreExact == Spec => []PenaltyExact
BY BracketInvariant, InvariantSays, PTL

\* A game is scored once and the extra time it used is charged once, over all
\* redeliveries and overlapping runs of step.
THEOREM GamesScoredOnce == Spec => []ScoreExact
BY BracketInvariant, InvariantSays, PTL

\* publish shows an accepted submission for what it was worth, although it works from
\* the match its run has written and not from the stored one.
THEOREM ShownAsWon == Spec => []ShownIsWon
BY BracketInvariant, InvariantSays, PTL

\* Only a commit changes the match, and it goes on from the stored one.
LEMMA MatchFollows == ASSUME BInv, [Next]_vars PROVE Follows(match, match')
<1>1. match \in MatchType
  BY DEF BInv, Played, MatchOK, Sound
<1>2. CASE match' = match
  BY <1>1, <1>2, FollowsSelf
<1>3. ASSUME NEW d \in Drivers, Commit(d) PROVE Follows(match, match')
  <2>1. d \in fresh /\ match' = driver[d].match
    BY <1>3 DEF Commit
  <2> QED BY <2>1 DEF BInv, DriversOK, Carried
<1>4. CASE UNCHANGED vars
  BY <1>2, <1>4 DEF vars
<1>5. CASE Tick \/ Deliver
  BY <1>2, <1>5 DEF Tick, Deliver, Fire
<1>6. ASSUME NEW d \in Drivers, Run(d) PROVE Follows(match, match')
  BY <1>2, <1>3, <1>6 DEF Run, Look, Refuse, Retry, Publish, Finish
<1>7. ASSUME NEW d \in Drivers, Fail(d) \/ Crash(d) PROVE Follows(match, match')
  BY <1>2, <1>7 DEF Fail, Crash
<1>8. ASSUME NEW d \in Drivers, NEW s \in DOMAIN subs, NEW v \in {"AC", "WA"}, Judge(d, s, v)
      PROVE  Follows(match, match')
  BY <1>2, <1>8 DEF Judge
<1>9. ASSUME NEW d \in Drivers, NEW p \in Players, Staff(d, p) PROVE Follows(match, match')
  BY <1>2, <1>9 DEF Staff
<1>10. ASSUME NEW r \in Requests, Submit(r) PROVE Follows(match, match')
  BY <1>2, <1>10 DEF Submit, Count, Insert, Refused, Ask
<1> QED BY <1>4, <1>5, <1>6, <1>7, <1>8, <1>9, <1>10 DEF Next

\* The compare-and-set of Storage::modify is enough: no trigger reopens or rewrites a
\* decided match or game.
THEOREM DecisionsAreFinal == Spec => DecisionStands
<1>1. ASSUME BInv, [Next]_vars PROVE DecisionKept
  <2>1. Follows(match, match')
    BY <1>1, MatchFollows
  <2> QED BY <2>1 DEF Follows, DecisionKept
<1>2. BInv /\ [Next]_vars => [DecisionKept]_vars
  BY <1>1
<1> QED BY <1>2, BracketInvariant, PTL DEF Spec, DecisionStands

=============================================================================
