------------------------------ MODULE Accounts ------------------------------
(* What keeps accounts, one part of it per behaviour: the wallets, the      *)
(* key-value store, the logins, the polls, the restaurant's ledger and the  *)
(* shared houses.  They meet only in the database, each in tables of its    *)
(* own, so `live` says which of them this behaviour is about.  The wallets  *)
(* and the key-value store stay as they begin while they are not live, so   *)
(* that their refinements hold of every behaviour; the others share the     *)
(* variables that have the same name, and are idle.                         *)
EXTENDS Wallet

CONSTANTS
    KvKeys, KvValues, KvLifetimes, KvPrefixes, KV_CLOCK, KV_MAX_VALUE, NoValue,      \* KvStore
    LoginRequests, LoginPlans, Codes, RENEW, PASSWORD_LIMIT, PASSWORD_TTL,           \* Login
    VERIFY_LIMIT, VERIFY_TTL, CLAIM_TTL, DEVICE_TTL, ACCESS_TTL, REFRESH_TTL,
    OpeningUser, OpeningStore, LOGIN_CLOCK, NoSecret, NoSession,
    VotingRequests, VotingPlans, Voters, VOTING_CLOCK, NoBallot, NoPoll,             \* Voting
    LedgerRequests, LedgerPlans, TABLE_START_ROW, LAST_ROW, OIL_SALE_ITEM, NoItem,   \* Ledger
    PROTECTED_ITEM_NAMES, LedgerPerson, OpeningSheets, OpeningItems,
    RentRequests, RentPlans, New, Nobody,                                            \* HouseRent
    OpeningHouses, OpeningRents, OpeningMembers, OpeningFiles,
    Idle

VARIABLES
    live,
    rows, entries, kvClock, said,
    plan, at, read, clock,
    renew, left, given, user, store, redeemed, ended,
    page, known, doomed, answer, poll, ballots, crossed,
    view, cells, marks, wages, withdrawals, items, torn,
    link, houses, rents, members, files, fileDraft, fileHolder, stale

ofKv == <<rows, entries, kvClock, said>>
ofLogin == <<renew, left, given, user, store, redeemed, ended>>
ofVoting == <<page, known, doomed, answer, poll, ballots>>
ofLedger == <<view, cells, marks, wages, withdrawals, items, torn>>
ofRent == <<link, houses, rents, members, files, fileDraft, fileHolder, stale>>
ofRequests == <<plan, at, read, clock, crossed>>
accountVars == <<live, vars, ofKv, ofRequests, ofLogin, ofVoting, ofLedger, ofRent>>

Kv ==
    INSTANCE KvStore WITH
        Keys <- KvKeys, Values <- KvValues, Lifetimes <- KvLifetimes, Prefixes <- KvPrefixes,
        MAX_CLOCK <- KV_CLOCK, MAX_VALUE <- KV_MAX_VALUE, clock <- kvClock, answer <- said

Gate ==
    INSTANCE Login WITH
        Requests <- LoginRequests, Plans <- LoginPlans, MAX_CLOCK <- LOGIN_CLOCK,
        pc <- at, seen <- read, todo <- left

Booth ==
    INSTANCE Voting WITH
        Requests <- VotingRequests, Plans <- VotingPlans, MAX_CLOCK <- VOTING_CLOCK,
        pc <- at, seen <- read

Sheets ==
    INSTANCE Ledger WITH Requests <- LedgerRequests, Plans <- LedgerPlans, pc <- at

Homes ==
    INSTANCE HouseRent WITH
        Requests <- RentRequests, Plans <- RentPlans, pc <- at, draft <- fileDraft, holder <- fileHolder

ASSUME KvParameters == Kv!Parameters
ASSUME LoginParameters == Gate!Parameters
ASSUME VotingParameters == Booth!Parameters

---------------------------------------------------------------------------

NoLogin == renew = Idle /\ left = Idle /\ given = Idle /\ user = Idle /\ store = Idle
           /\ redeemed = Idle /\ ended = Idle
NoVoting == page = Idle /\ known = Idle /\ doomed = Idle /\ answer = Idle /\ poll = Idle /\ ballots = Idle
NoLedger == view = Idle /\ cells = Idle /\ marks = Idle /\ wages = Idle /\ withdrawals = Idle
            /\ items = Idle /\ torn = Idle
NoRent == link = Idle /\ houses = Idle /\ rents = Idle /\ members = Idle /\ files = Idle
          /\ fileDraft = Idle /\ fileHolder = Idle /\ stale = Idle
NoRequests == plan = Idle /\ at = Idle /\ read = Idle /\ clock = Idle /\ crossed = Idle

AccountsInit ==
    /\ Init /\ Kv!Init
    /\ \/ live \in {"wallet", "kv"} /\ NoRequests /\ NoLogin /\ NoVoting /\ NoLedger /\ NoRent
       \/ live = "login" /\ Gate!Init /\ crossed = Idle /\ NoVoting /\ NoLedger /\ NoRent
       \/ live = "voting" /\ Booth!Init /\ NoLogin /\ NoLedger /\ NoRent
       \/ live = "ledger" /\ Sheets!Init /\ read = Idle /\ clock = Idle /\ crossed = Idle
          /\ NoLogin /\ NoVoting /\ NoRent
       \/ live = "rent" /\ Homes!Init /\ read = Idle /\ clock = Idle /\ NoLogin /\ NoVoting /\ NoLedger

KeepWallet ==
    /\ live = "wallet" /\ Next
    /\ UNCHANGED <<live, ofKv, ofRequests, ofLogin, ofVoting, ofLedger, ofRent>>
KeepKeys ==
    /\ live = "kv" /\ Kv!Next
    /\ UNCHANGED <<live, vars, ofRequests, ofLogin, ofVoting, ofLedger, ofRent>>
KeepLogins ==
    /\ live = "login" /\ Gate!Next
    /\ UNCHANGED <<live, crossed, vars, ofKv, ofVoting, ofLedger, ofRent>>
KeepVotes ==
    /\ live = "voting" /\ Booth!Next
    /\ UNCHANGED <<live, vars, ofKv, ofLogin, ofLedger, ofRent>>
KeepBooks ==
    /\ live = "ledger" /\ Sheets!Next
    /\ UNCHANGED <<live, read, clock, crossed, vars, ofKv, ofLogin, ofVoting, ofRent>>
KeepHouses ==
    /\ live = "rent" /\ Homes!Next
    /\ UNCHANGED <<live, read, clock, vars, ofKv, ofLogin, ofVoting, ofLedger>>

AccountsNext == KeepWallet \/ KeepKeys \/ KeepLogins \/ KeepVotes \/ KeepBooks \/ KeepHouses

(* The runtime runs the requests on the wallets on. *)
Accounts ==
    /\ AccountsInit /\ [][AccountsNext]_accountVars
    /\ \A r \in Requests : WF_vars(live = "wallet" /\ Step(r))

---------------------------------------------------------------------------
(* Every component's state is of its type. *)
TypesOK ==
    /\ TypeOK /\ Kv!TypeOK
    /\ CASE live = "login" -> Gate!TypeOK
         [] live = "voting" -> Booth!TypeOK
         [] live = "ledger" -> Sheets!TypeOK
         [] live = "rent" -> Homes!TypeOK
         [] OTHER -> TRUE

(* The wallets behave as if every request ran alone and at once, and every  *)
(* request is paid or refused in the end: the process never waits for ever  *)
(* on the locks of lockWallets and change().                                *)
BehavesAsBank == ImplementsBank /\ (live = "wallet" => EveryRequestEnds)

(* The key-value table is a store whose entries end on time, whenever the   *)
(* expired rows are dropped (kv-store.ts:14); and the map that stands for   *)
(* it in the tests gives the same answers in any sequence of calls.         *)
ImplementsLiveStore == Kv!ImplementsLiveStore /\ [](Kv!FakeAnswersAlike /\ Kv!SameWhileLive)

(* Requests that hold the same backup code at once redeem it once           *)
(* (auth.service.ts:122-124).                                               *)
CodeRedeemedOnce == live = "login" => Gate!CodeRedeemedOnce

(* A session that was answered works until it expires or it is itself       *)
(* refreshed or signed out (auth.service.ts:170-199,                        *)
(* authentication.service.ts:52).                                           *)
AnsweredSessionsWork == live = "login" => Gate!AnsweredSessionsWork

(* The results that a voter is shown count every ballot                     *)
(* (voting.service.ts:139).                                                 *)
EveryBallotCounts == live = "voting" => Booth!EveryBallotCounts

(* Every write to the sheet changes its books as the request asked, and no  *)
(* other step does, whichever requests cross and wherever one dies, but for *)
(* blank date cells below a row that is given another date, and withdrawals *)
(* deleted over a blank row (paojiao-ledger.service.ts:211); the sheet is   *)
(* in order, with its rounds marked, when no request is at work on it.  No  *)
(* delete changes a round that was closed (paojiao-ledger.service.ts:320).  *)
(* What the members of a house are asked to pay covers its bills, and no    *)
(* file is taken from the record it belongs to, nor lost                    *)
(* (house-rent.service.ts:392, 426).                                        *)
BooksAreKept ==
    /\ [](live = "ledger" => Sheets!SheetIsSettled)
    /\ [](live = "rent" => Homes!SharesCoverTheBill /\ Homes!NoFileIsLost)
    /\ [][/\ live = "ledger" => Sheets!WritesAsAsked /\ Sheets!StaySettled
          /\ live = "rent" => Homes!FilesStay]_accountVars
=============================================================================
