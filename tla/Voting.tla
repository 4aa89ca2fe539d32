------------------------------- MODULE Voting -------------------------------
(* One poll: its creator edits and closes it while people vote and look at  *)
(* the results (src/src/modules/voting).  Creating and editing are          *)
(* transactions; a vote is not: it reads the poll, looks for an earlier     *)
(* ballot of the voter, and writes, each on its own.                        *)
EXTENDS Integers, Sequences, FiniteSets, FiniteSetsExt, SequencesExt

CONSTANTS
    Requests, Plans, Voters,
    MAX_CLOCK, NoBallot, NoPoll

VARIABLES
    plan,
    pc,        \* where each request is
    page,      \* submitVote: the options that the voter was shown
    seen,      \* the poll as it read it
    known,     \* submitVote: whether the voter already had a ballot
    doomed,    \* editPoll: the options that its deletion sees
    answer,    \* getResults: what it returned
    poll, ballots, clock,
    crossed    \* ghost: voters whose ballot was written while an edit was under way

vars == <<plan, pc, page, seen, known, doomed, answer, poll, ballots, clock, crossed>>

Kind(r) == plan[r].kind
Ends == {"done", "refused", "failed"}

(* An option is named by who wrote it and its order: every save() makes new ids. *)
OptionsOf(r) == {<<r, i>> : i \in 1..plan[r].options}

Poll == [type : {"single", "multiple", "ranking"}, max : Nat, options : SUBSET (Requests \X Nat),
         closesAt : 0..MAX_CLOCK + 1, closed : BOOLEAN]

(* A poll's options are in their order; those of edits that crossed share it. *)
Listings(options) ==
    {s \in SetToSeqs(options) : \A i, j \in DOMAIN s : i < j => s[i][2] <= s[j][2]}

Parameters ==
    /\ IsFiniteSet(Voters) /\ MAX_CLOCK \in Nat /\ NoPoll \notin Poll
    /\ \A p \in Plans : DOMAIN p \subseteq Requests
    /\ \A p \in Plans : \A r \in DOMAIN p :
          /\ p[r].kind \in {"create", "edit", "close", "vote", "results"}
          /\ p[r].kind \in {"create", "edit"} => p[r].options \in Nat
          /\ p[r].kind = "create" => /\ p[r].type \in {"single", "multiple", "ranking"} /\ p[r].max \in Nat
                                     /\ p[r].closesAt \in 0..MAX_CLOCK + 1
          /\ p[r].kind \in {"vote", "results"} => p[r].voter \in Voters
          /\ p[r].kind = "vote" => Len(p[r].choice) \in Nat /\ DOMAIN p[r].choice = 1..Len(p[r].choice)

TypeOK ==
    /\ plan \in Plans
    /\ pc \in [Requests -> {"idle", "shown", "read", "find", "write", "count", "delete", "insert"} \cup Ends]
    /\ \A r \in Requests : page[r] \in Seq(Requests \X Nat)
    /\ \A r \in Requests : seen[r] = NoPoll \/ seen[r] \in Poll
    /\ known \in [Requests -> BOOLEAN]
    /\ \A r \in Requests : doomed[r] \subseteq Requests \X Nat
    /\ \A r \in Requests : answer[r] # NoPoll => answer[r].total \in Nat
    /\ poll = NoPoll \/ poll \in Poll
    /\ \A v \in Voters : ballots[v] = NoBallot \/ ballots[v] \in Seq(Requests \X Nat)
    /\ clock \in 0..MAX_CLOCK
    /\ crossed \subseteq Voters

Init ==
    /\ plan \in Plans
    /\ pc = [r \in Requests |-> "idle"]
    /\ page = [r \in Requests |-> <<>>]
    /\ seen = [r \in Requests |-> NoPoll]
    /\ known = [r \in Requests |-> FALSE]
    /\ doomed = [r \in Requests |-> {}]
    /\ answer = [r \in Requests |-> NoPoll]
    /\ poll = NoPoll
    /\ ballots = [v \in Voters |-> NoBallot]
    /\ clock = 0
    /\ crossed = {}

Elapse ==
    /\ clock < MAX_CLOCK
    /\ clock' = clock + 1
    /\ UNCHANGED <<plan, pc, page, seen, known, doomed, answer, poll, ballots, crossed>>

At(r, label) == r \in DOMAIN plan /\ pc[r] = label
Goto(r, label) == pc' = [pc EXCEPT ![r] = label] /\ UNCHANGED <<plan, clock>>

---------------------------------------------------------------------------

(* createPoll: `max` is 0 where maxSelections is not given, `closesAt`      *)
(* beyond the clock's bound where the poll has no end.                      *)
CanCreate(p) ==
    /\ p.max # 0 => p.type = "multiple" /\ p.max <= p.options
    /\ p.closesAt > clock

Create(r) ==
    /\ At(r, "idle") /\ Kind(r) = "create"
    /\ IF poll = NoPoll /\ CanCreate(plan[r])
       THEN /\ poll' = [type |-> plan[r].type, max |-> plan[r].max, options |-> OptionsOf(r),
                        closesAt |-> plan[r].closesAt, closed |-> FALSE]
            /\ Goto(r, "done")
       ELSE Goto(r, "refused") /\ UNCHANGED poll
    /\ UNCHANGED <<page, seen, known, doomed, answer, ballots, crossed>>

(* getPublicPoll: the page on which a voter chooses, by the places of the   *)
(* options.                                                                *)
Show(r) ==
    /\ At(r, "idle") /\ Kind(r) = "vote" /\ poll # NoPoll
    /\ \E listing \in Listings(poll.options) : page' = [page EXCEPT ![r] = listing]
    /\ Goto(r, IF \A i \in DOMAIN plan[r].choice : plan[r].choice[i] \in DOMAIN page'[r]
               THEN "shown" ELSE "refused")
    /\ UNCHANGED <<seen, known, doomed, answer, poll, ballots, crossed>>

(* Every other request begins by reading the poll; a vote reads it again. *)
ReadPoll(r) ==
    /\ IF Kind(r) = "vote" THEN At(r, "shown") ELSE At(r, "idle")
    /\ Kind(r) # "create" /\ poll # NoPoll
    /\ seen' = [seen EXCEPT ![r] = poll]
    /\ Goto(r, IF Kind(r) = "edit" THEN "count" ELSE "read")
    /\ UNCHANGED <<page, known, doomed, answer, poll, ballots, crossed>>

---------------------------------------------------------------------------
(* submitVote                                                              *)

IsOpen(p) == ~p.closed /\ p.closesAt > clock

(* buildVoteSelections: no option twice, none of another poll, and as many  *)
(* as the poll's type asks for.                                             *)
Fits(choice, p) ==
    /\ IsInjective(choice)
    /\ ToSet(choice) \subseteq p.options
    /\ p.type = "single" => Len(choice) = 1
    /\ p.type = "multiple" => Len(choice) <= (IF p.max = 0 THEN Cardinality(p.options) ELSE p.max)
    /\ p.type = "ranking" => Len(choice) = Cardinality(p.options)

Choice(r) == [i \in DOMAIN plan[r].choice |-> page[r][plan[r].choice[i]]]

CheckBallot(r) ==
    /\ At(r, "read") /\ Kind(r) = "vote"
    /\ Goto(r, IF IsOpen(seen[r]) /\ Fits(Choice(r), seen[r]) THEN "find" ELSE "refused")
    /\ UNCHANGED <<page, seen, known, doomed, answer, poll, ballots, crossed>>

FindExisting(r) ==
    /\ At(r, "find") /\ Kind(r) = "vote"
    /\ known' = [known EXCEPT ![r] = ballots[plan[r].voter] # NoBallot]
    /\ Goto(r, "write")
    /\ UNCHANGED <<page, seen, doomed, answer, poll, ballots, crossed>>

IsEditing(r) == pc[r] \in {"delete", "insert"}

(* An insert that meets the unique index of poll and voter fails. *)
WriteBallot(r) ==
    /\ At(r, "write")
    /\ LET v == plan[r].voter IN
       IF known[r] \/ ballots[v] = NoBallot
       THEN /\ ballots' = [ballots EXCEPT ![v] = Choice(r)]
            /\ crossed' = IF (\E q \in Requests : IsEditing(q)) \/ seen[r].options # poll.options
                          THEN crossed \cup {v} ELSE crossed \ {v}
            /\ Goto(r, "done")
       ELSE Goto(r, "failed") /\ UNCHANGED <<ballots, crossed>>
    /\ UNCHANGED <<page, seen, known, doomed, answer, poll>>

---------------------------------------------------------------------------
(* editPoll and closePoll, by the creator                                  *)

(* A bug: options can be changed at any time. *)
HasNoVotesAtAll == TRUE

HasNoVotes == \A v \in Voters : ballots[v] = NoBallot

CountVotes(r) ==
    /\ At(r, "count")
    /\ Goto(r, IF HasNoVotes THEN "delete" ELSE "refused")
    /\ UNCHANGED <<page, seen, known, doomed, answer, poll, ballots, crossed>>

(* The deletion works on the options it sees when it begins, even if it     *)
(* then waits for another edit that is deleting them.                       *)
DeleteOptions(r) ==
    /\ At(r, "delete")
    /\ doomed' = [doomed EXCEPT ![r] = poll.options]
    /\ Goto(r, "insert")
    /\ UNCHANGED <<page, seen, known, answer, poll, ballots, crossed>>

CommitEdit(r) ==
    /\ At(r, "insert")
    /\ poll' = [poll EXCEPT !.options = (@ \ doomed[r]) \cup OptionsOf(r)]
    /\ Goto(r, "done")
    /\ UNCHANGED <<page, seen, known, doomed, answer, ballots, crossed>>

Close(r) ==
    /\ At(r, "read") /\ Kind(r) = "close"
    /\ poll' = [poll EXCEPT !.closed = @ \/ ~seen[r].closed]
    /\ Goto(r, "done")
    /\ UNCHANGED <<page, seen, known, doomed, answer, ballots, crossed>>

---------------------------------------------------------------------------
(* getResults                                                              *)

(* computeOptionCounts *)
Counts(all, option) == Cardinality({v \in DOMAIN all : option \in ToSet(all[v])})

(* A ballot's first choice earns n - 1 points, its last none. *)
Points(ballot, option, n) ==
    LET rank == CHOOSE i \in DOMAIN ballot : ballot[i] = option IN n - 1 - (rank - 1)

(* computeBordaScores *)
Borda(all, option, n) ==
    SumFunction([v \in {u \in DOMAIN all : option \in ToSet(all[u])} |-> Points(all[v], option, n)])

Score(p, all, option) ==
    IF p.type = "ranking" THEN Borda(all, option, Cardinality(p.options)) ELSE Counts(all, option)

Cast == [v \in {u \in Voters : ballots[u] # NoBallot} |-> ballots[v]]

(* Only those who have voted see the results; the ballots are read after    *)
(* the options.                                                             *)
Tally(r) ==
    /\ At(r, "read") /\ Kind(r) = "results"
    /\ IF plan[r].voter \in DOMAIN Cast
       THEN /\ answer' = [answer EXCEPT ![r] =
                    [total |-> Cardinality(DOMAIN Cast),
                     scores |-> [option \in seen[r].options |-> Score(seen[r], Cast, option)],
                     cast |-> Cast,
                     fresh |-> crossed = {} /\ seen[r].options = poll.options]]
            /\ Goto(r, "done")
       ELSE Goto(r, "refused") /\ UNCHANGED answer
    /\ UNCHANGED <<page, seen, known, doomed, poll, ballots, crossed>>

Fail(r) ==
    /\ r \in DOMAIN plan /\ pc[r] \notin Ends \cup {"idle"}
    /\ Goto(r, "failed")
    /\ UNCHANGED <<page, seen, known, doomed, answer, poll, ballots, crossed>>

Step(r) ==
    \/ Create(r) \/ Show(r) \/ ReadPoll(r) \/ CheckBallot(r) \/ FindExisting(r) \/ WriteBallot(r)
    \/ CountVotes(r) \/ DeleteOptions(r) \/ CommitEdit(r) \/ Close(r) \/ Tally(r) \/ Fail(r)

Next == Elapse \/ \E r \in DOMAIN plan : Step(r)

Spec == Init /\ [][Next]_vars

---------------------------------------------------------------------------

(* How often one option stands before another, over all ballots. *)
Preferences(all, options) ==
    SumFunction([v \in DOMAIN all |->
        Cardinality({p \in options \X options :
                        \E i, j \in DOMAIN all[v] : i < j /\ <<all[v][i], all[v][j]>> = p})])

Chosen(all) == SumFunction([v \in DOMAIN all |-> Len(all[v])])

(* Results that a voter is shown count every ballot: one point for each     *)
(* option chosen, or one for each pair that a ranking puts in order -       *)
(* unless an edit was under way when a ballot was written, or changed the   *)
(* options while the results were read ("Options cannot be changed once     *)
(* voting has started", voting.service.ts:139).                             *)
EveryBallotCounts ==
    \A r \in DOMAIN plan :
        answer[r] # NoPoll /\ answer[r].fresh =>
            SumFunction(answer[r].scores) =
                IF seen[r].type = "ranking" THEN Preferences(answer[r].cast, seen[r].options)
                ELSE Chosen(answer[r].cast)
=============================================================================
