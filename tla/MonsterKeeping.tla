--------------------------- MODULE MonsterKeeping ---------------------------
(***************************************************************************)
(* How the server keeps a monster: it is a row that nothing touches until  *)
(* a request of its owner locks it (monster.service.ts, lockAndTickLiving) *)
(* and replays the minutes since lastTickAt (simulation.ts, tick).  There  *)
(* is no background job.                                                   *)
(*                                                                         *)
(* A request holds the row's lock while it works, so it is one step here   *)
(* (MonsterRoster has the locking); a request that is refused rolls its    *)
(* tick back and changes nothing.  Its `now` was taken before it waited    *)
(* for the lock and may be older than the one of the request before it.    *)
(***************************************************************************)
EXTENDS MonsterEngine

CONSTANTS
    MAX_TICK_MINUTES,
    MAX_LAG,         \* how old, in instants, a request's `now` may be
    MAX_REQUESTS     \* bounds the requests of one behaviour

ASSUME KeepingAssumption ==
    MAX_TICK_MINUTES \in Nat \ {0} /\ MAX_LAG \in Nat /\ MAX_REQUESTS \in Nat /\ MAX_CLOCK \in Nat

(* An egg hatches whatever happens to it (its one rule in species-data.ts  *)
(* has no conditions), and one tick may replay more minutes than an egg    *)
(* and a life last (monster-rules.ts: 30 days, against 5 and the egg).     *)
ASSUME LifeFitsAssumption ==
    /\ STAGE_DURATION_MINUTES["EGG"] # Never
    /\ \E i \in 1..Len(Evolutions[Egg]) : IsEvolutionRuleMet(Evolutions[Egg][i], NewEgg(0))
    /\ MAX_TICK_MINUTES >= STAGE_DURATION_MINUTES["EGG"] + LIFESPAN_MINUTES["EGG"]

VARIABLE requests

vars == <<pet, clock, drain, requests>>

Init ==
    /\ pet = NewEgg(0)
    /\ clock = 0
    /\ drain \in Drains
    /\ requests = 0

(* The loop body of tick(): a minute of any monster that is still alive.   *)
MinuteOf(s, at, d) == IF IsDead(s) THEN s ELSE Step(s, at, d)

(* The n minutes that follow `from`, one after the other. *)
Replayed(s, from, n, d) ==
    LET after[k \in 0..n] ==
            IF k = 0 THEN s ELSE MinuteOf(after[k - 1], from + k * Minute, d)
    IN after[n]

(* Two bugs this module is checked against: leftover instants dropped, and *)
(* a `now` from before the last tick taken seriously.                      *)
TickDroppingRest(s, now, d) ==
    LET elapsed == (now - s.lastTickAt) \div Minute IN
    IF IsDead(s) \/ elapsed <= 0 THEN s
    ELSE [Replayed(s, s.lastTickAt, AtMost(elapsed, MAX_TICK_MINUTES), d)
            EXCEPT !.lastTickAt = now]

(* tick(): leftover instants stay pending for the next one. *)
Tick(s, now, d) ==
    LET elapsed == (now - s.lastTickAt) \div Minute IN
    IF IsDead(s) \/ elapsed <= 0 THEN s
    ELSE [Replayed(s, s.lastTickAt, AtMost(elapsed, MAX_TICK_MINUTES), d)
            EXCEPT !.lastTickAt = s.lastTickAt + elapsed * Minute]

(* A bug: the owner is marked online for the minutes being replayed. *)
LoadedAsSeen(now) == Tick([pet EXCEPT !.lastSeenAt = now], now, drain)

(* lockAndTickLiving: the tick uses the previous lastSeenAt. *)
Loaded(now) == [Tick(pet, now, drain) EXCEPT !.lastSeenAt = now]

Request ==
    /\ requests < MAX_REQUESTS
    /\ ~IsDead(pet)
    /\ \E lag \in 0..MAX_LAG :
          /\ lag <= clock
          /\ \E s \in {Loaded(clock - lag)} : Act(s, clock - lag)
    /\ requests' = requests + 1
    /\ UNCHANGED <<clock, drain>>

Pass ==
    /\ clock < MAX_CLOCK
    /\ clock' = clock + 1
    /\ UNCHANGED <<pet, drain, requests>>

(* PassiveService.allocate does not tick the monsters: the minutes since   *)
(* lastTickAt will be replayed with the new drain.                         *)
Allocate == drain' \in Drains /\ UNCHANGED <<pet, clock, requests>>

Next == Request \/ Pass \/ Allocate

Spec == Init /\ [][Next]_vars

(* Time passes. *)
FairSpec == Spec /\ WF_vars(Pass)

---------------------------------------------------------------------------

TypeOK ==
    /\ pet \in Pet
    /\ clock \in 0..MAX_CLOCK
    /\ drain \in Drains
    /\ requests \in 0..MAX_REQUESTS

(* A monster nobody looks at for MAX_TICK_MINUTES is dead by then, so the  *)
(* cap of one tick never loses a minute: "a living monster dies of         *)
(* starvation or old age long before this" (monster-rules.ts).             *)
CapNeverBites ==
    ~IsDead(pet) =>
        \A d \in Drains :
            IsDead(Tick(pet, pet.lastTickAt + MAX_TICK_MINUTES * Minute, d))

(* However the requests fall between the minutes, and however old their    *)
(* `now`, the minutes a living monster has aged are those up to lastTickAt *)
(* but for the ones it spent in the egg: calling tick often "never loses   *)
(* or double-counts time" (simulation.ts:267-268).                         *)
NoMinuteLost ==
    /\ pet.lastTickAt <= clock
    /\ pet.lastTickAt % Minute = 0
    /\ ~IsDead(pet) /\ ~IsEgg(pet) =>
          pet.lastTickAt \div Minute - pet.ageMinutes
            \in 1..STAGE_DURATION_MINUTES[Stage[Egg]]

(* A request that waited for the lock never rewinds the monster's life.    *)
NeverRewound == pet'.lastTickAt >= pet.lastTickAt /\ pet'.ageMinutes >= pet.ageMinutes

(* A form is decided once (see MonsterLife): a monster whose time was up   *)
(* keeps its form, also when the tick that says so runs much later.        *)
DecidedOnce ==
    LET duration == STAGE_DURATION_MINUTES[Stage[pet.form]] IN
    duration # Never /\ pet.stageMinutes >= duration => pet'.form = pet.form

(* A monster's life only moves on, minute by minute, whatever requests come  *)
(* and in which order they get its row.                                     *)
LifeMovesOn == [][NoMinuteLost' /\ NeverRewound /\ DecidedOnce]_vars
=============================================================================
