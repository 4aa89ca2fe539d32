------------------------------- MODULE Login -------------------------------
(* Signing in, the second factor and the tokens of one user                *)
(* (src/src/modules/auth/auth.service.ts, authentication, and              *)
(* changePassword of user.service.ts).                                     *)
(*                                                                         *)
(* No request holds a transaction: each statement on the user's row or on  *)
(* the key-value store stands alone, and whatever another request does may *)
(* come between two of them.  Writes under one Promise.all come in any     *)
(* order (`todo`).  Cryptography is left out: a code is Totp, the number   *)
(* of a backup code, or wrong.                                             *)
EXTENDS KvRows, Sequences, FiniteSets

CONSTANTS
    Requests, Plans, Codes,             \* Codes: the numbers of the backup codes
    RENEW,                              \* values of JWT_RENEW_REFRESH_TOKEN to look at
    PASSWORD_LIMIT, PASSWORD_TTL,       \* failures that block the account; in how long
    VERIFY_LIMIT, VERIFY_TTL,           \* failed codes that lock the second factor; for how long
    CLAIM_TTL, DEVICE_TTL, ACCESS_TTL, REFRESH_TTL,
    OpeningUser, OpeningStore,          \* before the requests come
    MAX_CLOCK, NoSecret, NoSession

UserRow == [status : {"active", "blocked"}, password : Nat, enabled : BOOLEAN,
            secret : Nat \cup {NoSecret}, used : SUBSET Codes]
Body == [kind : {"login", "verify", "disable", "enroll", "confirm", "password", "refresh", "logout"},
         code : Nat, jti : 0..MAX_CLOCK, device : Requests]
Session == [jti : 0..MAX_CLOCK, at : 0..MAX_CLOCK]

(* What the code is given: lifetimes, a user, and a store of any rows. *)
Parameters ==
    /\ {PASSWORD_TTL, VERIFY_TTL, CLAIM_TTL, DEVICE_TTL, ACCESS_TTL, REFRESH_TTL, MAX_CLOCK} \subseteq Nat
    /\ Codes \subseteq Nat /\ RENEW \subseteq BOOLEAN
    /\ \A p \in Plans : DOMAIN p \subseteq Requests /\ \A r \in DOMAIN p : p[r] \in Body
    /\ OpeningUser \in UserRow
    /\ \A k \in DOMAIN OpeningStore : OpeningStore[k].value \in Nat /\ OpeningStore[k].expires \in Nat
    /\ NoSession \notin Session

VARIABLES
    plan, renew,
    pc, seen,    \* where each request is, and the user's row as it read it
    todo,        \* the writes of its Promise.all that are still under way
    given,       \* the session it handed out: [jti, at], or NoSession
    user, store, clock,
    redeemed,    \* when each backup code was accepted
    ended        \* the sessions signed out, replaced, or left half refreshed

requestVars == <<plan, renew, pc, seen, todo, given>>
ghosts == <<redeemed, ended>>
vars == <<requestVars, user, store, clock, ghosts>>

PasswordFails == <<"login_password_failed">>
VerifyFails == <<"two_factor_verify_failed">>
VerifyLock == <<"two_factor_verify_locked">>
Claim(c) == <<"backup_code_claim", c>>
Device(d) == <<"remember_device", d>>
Token(type, jti) == <<"login_token", type, jti>>

Kind(r) == plan[r].kind
Totp == 0    \* the code of the authenticator app
Ends == {"done", "refused", "failed"}
Labels == {"idle", "read", "password", "blocking", "device", "locked", "code", "claim", "failing",
           "locking", "writes", "access", "refresh", "drop", "guard", "write", "old"} \cup Ends

TypeOK ==
    /\ plan \in Plans /\ renew \in RENEW
    /\ pc \in [Requests -> Labels]
    /\ seen \in [Requests -> UserRow]
    /\ todo \in [Requests -> SUBSET {"tokens", "save", "device", "unfail", "revoke"}]
    /\ given \in [Requests -> {NoSession} \cup Session]
    /\ user \in UserRow
    /\ \A k \in DOMAIN store : store[k].value \in Nat /\ store[k].expires \in Nat
    /\ clock \in 0..MAX_CLOCK
    /\ redeemed \in [Codes -> Seq(0..MAX_CLOCK)]
    /\ ended \subseteq 0..MAX_CLOCK

Init ==
    /\ plan \in Plans /\ renew \in RENEW
    /\ pc = [r \in Requests |-> "idle"]
    /\ seen = [r \in Requests |-> OpeningUser]
    /\ todo = [r \in Requests |-> {}]
    /\ given = [r \in Requests |-> NoSession]
    /\ user = OpeningUser
    /\ store = OpeningStore
    /\ clock = 0
    /\ redeemed = [c \in Codes |-> <<>>]
    /\ ended = {}

Elapse ==
    /\ clock < MAX_CLOCK
    /\ clock' = clock + 1
    /\ UNCHANGED <<requestVars, user, store, ghosts>>

At(r, label) == r \in DOMAIN plan /\ pc[r] = label
Goto(r, label) == pc' = [pc EXCEPT ![r] = label]
IsRunning(r) == r \in DOMAIN plan /\ pc[r] \notin Ends \cup {"idle"}

Keeps(r, label) ==
    /\ Goto(r, label)
    /\ UNCHANGED <<plan, renew, seen, todo, given, user, clock, ghosts>>

(* The process dies, or the store or the database does not answer. *)
Fail(r) ==
    /\ IsRunning(r)
    /\ Goto(r, "failed")
    /\ ended' = IF Kind(r) = "refresh" THEN ended \cup {plan[r].jti} ELSE ended
    /\ UNCHANGED <<plan, renew, seen, todo, given, user, store, clock, redeemed>>

---------------------------------------------------------------------------
(* Reading the user's row                                                  *)

(* login() drops what has expired, then reads. *)
Begin(r) ==
    /\ At(r, "idle")
    /\ Keeps(r, IF Kind(r) \in {"refresh", "logout"} THEN "guard" ELSE "read")
    /\ store' = IF Kind(r) = "login" THEN [k \in LiveKeys(store, clock) |-> store[k]] ELSE store

AfterRead(r) ==
    CASE Kind(r) = "login" -> IF user.status = "active" THEN "password" ELSE "refused"
      [] Kind(r) = "verify" -> IF user.enabled /\ user.secret # NoSecret /\ user.status = "active"
                               THEN "locked" ELSE "refused"
      [] Kind(r) = "disable" -> IF user.enabled /\ user.secret # NoSecret THEN "locked" ELSE "refused"
      [] Kind(r) = "confirm" -> IF user.secret = plan[r].code THEN "write" ELSE "refused"
      [] Kind(r) = "password" -> IF user.password = plan[r].code THEN "write" ELSE "refused"
      [] OTHER -> "write"

ReadUser(r) ==
    /\ At(r, "read")
    /\ seen' = [seen EXCEPT ![r] = user]
    /\ Goto(r, AfterRead(r))
    /\ UNCHANGED <<plan, renew, todo, given, user, store, clock, ghosts>>

---------------------------------------------------------------------------
(* login                                                                   *)

NewSession(r) == given' = [given EXCEPT ![r] = [jti |-> clock, at |-> clock]]

RightPassword(r) ==
    /\ At(r, "password")
    /\ plan[r].code = seen[r].password
    /\ IF ~seen[r].enabled
       THEN Goto(r, "access") /\ NewSession(r)
       ELSE Goto(r, "device") /\ UNCHANGED given
    /\ UNCHANGED <<plan, renew, seen, todo, user, store, clock, ghosts>>

WrongPassword(r) ==
    /\ At(r, "password")
    /\ plan[r].code # seen[r].password
    /\ Keeps(r, IF CountAfter(store, PasswordFails, clock) >= PASSWORD_LIMIT
                THEN "blocking" ELSE "refused")
    /\ store' = WithOneMore(store, PasswordFails, PASSWORD_TTL, clock)

(* save() writes every column that it read and that differs by now. *)
Block(r) ==
    /\ At(r, "blocking")
    /\ user' = [user EXCEPT !.status = "blocked", !.enabled = seen[r].enabled,
                            !.password = seen[r].password]
    /\ Goto(r, "refused")
    /\ UNCHANGED <<plan, renew, seen, todo, given, store, clock, ghosts>>

(* Without the cookie of a remembered device the login ends with a token    *)
(* that only completeTwoFactorLogin accepts.                                *)
CheckDevice(r) ==
    /\ At(r, "device")
    /\ IF IsLive(store, Device(plan[r].device), clock)
       THEN Goto(r, "access") /\ NewSession(r)
       ELSE Goto(r, "done") /\ UNCHANGED given
    /\ UNCHANGED <<plan, renew, seen, todo, user, store, clock, ghosts>>

---------------------------------------------------------------------------
(* The second factor                                                       *)

CheckLock(r) ==
    /\ At(r, "locked")
    /\ Keeps(r, IF IsLive(store, VerifyLock, clock) THEN "refused" ELSE "code")
    /\ UNCHANGED store

(* The writes that follow a code that was accepted. *)
Accepted(r, more) ==
    /\ todo' = [todo EXCEPT ![r] = more \cup {"unfail"} \cup
                    (IF Kind(r) = "verify" THEN {"tokens", "device"} ELSE {"save", "revoke"})]
    /\ Goto(r, "writes")
    /\ UNCHANGED <<plan, renew, seen, given, user, store, clock, ghosts>>

CheckCode(r) ==
    /\ At(r, "code")
    /\ \/ plan[r].code = Totp /\ Accepted(r, {})
       \/ /\ Kind(r) = "verify" /\ plan[r].code \in Codes \ seen[r].used
          /\ Keeps(r, "claim") /\ UNCHANGED store
       \/ /\ plan[r].code # Totp
          /\ Kind(r) = "verify" => plan[r].code \notin Codes \ seen[r].used
          /\ Keeps(r, "failing") /\ UNCHANGED store

(* A bug: the claim is taken whether or not somebody has it. *)
WinsAnyway(c) == TRUE

Wins(c) == ~IsLive(store, Claim(c), clock)

ClaimCode(r) ==
    /\ At(r, "claim")
    /\ LET c == plan[r].code IN
       /\ store' = WithIfAbsent(store, Claim(c), 1, CLAIM_TTL, clock)
       /\ IF Wins(c)
          THEN /\ Goto(r, "writes")
               /\ todo' = [todo EXCEPT ![r] = {"tokens", "device", "unfail", "save"}]
               /\ redeemed' = [redeemed EXCEPT ![c] = Append(@, clock)]
          ELSE Goto(r, "failing") /\ UNCHANGED <<todo, redeemed>>
    /\ UNCHANGED <<plan, renew, seen, given, user, clock, ended>>

(* recordTwoFactorVerifyFailure *)
CountFailure(r) ==
    /\ At(r, "failing")
    /\ Keeps(r, IF CountAfter(store, VerifyFails, clock) >= VERIFY_LIMIT THEN "locking" ELSE "refused")
    /\ store' = WithOneMore(store, VerifyFails, VERIFY_TTL, clock)

LockVerify(r) ==
    /\ At(r, "locking")
    /\ Keeps(r, "refused")
    /\ store' = With(store, VerifyLock, 1, clock + VERIFY_TTL)

(* The used codes of a login are those it had read and its own. *)
Saved(r) ==
    IF Kind(r) = "verify" THEN [user EXCEPT !.used = seen[r].used \cup {plan[r].code}]
    ELSE [user EXCEPT !.enabled = FALSE, !.secret = NoSecret, !.used = Codes]

Write(r) ==
    /\ At(r, "writes")
    /\ \E w \in todo[r] \ {"tokens"} :
        /\ todo' = [todo EXCEPT ![r] = @ \ {w}]
        /\ user' = IF w = "save" THEN Saved(r) ELSE user
        /\ store' = CASE w = "device" -> With(store, Device(r), 1, clock + DEVICE_TTL)
                      [] w = "unfail" -> Without(store, {VerifyFails})
                      [] w = "revoke" -> Without(store, {Device(d) : d \in Requests})
                      [] w = "save"   -> store
    /\ UNCHANGED <<plan, renew, pc, seen, given, clock, ghosts>>

(* The tokens are issued among the other writes; when the last of them is  *)
(* over, the request is answered.                                          *)
IssueTokens(r) ==
    /\ At(r, "writes") /\ "tokens" \in todo[r]
    /\ todo' = [todo EXCEPT ![r] = @ \ {"tokens"}]
    /\ NewSession(r)
    /\ Goto(r, "access")
    /\ UNCHANGED <<plan, renew, seen, user, store, clock, ghosts>>

Written(r) ==
    /\ At(r, "writes") /\ todo[r] = {}
    /\ Keeps(r, "done") /\ UNCHANGED store

(* startTwoFactorEnrollment, confirmTwoFactorEnrollment, changePassword *)
WriteUser(r) ==
    /\ At(r, "write")
    /\ user' = CASE Kind(r) = "enroll"  -> [user EXCEPT !.secret = plan[r].code]
                 [] Kind(r) = "confirm" -> [user EXCEPT !.enabled = TRUE, !.used = {}]
                 [] Kind(r) = "password" -> [user EXCEPT !.password = @ + 1]
    /\ Goto(r, "done")
    /\ UNCHANGED <<plan, renew, seen, todo, given, store, clock, ghosts>>

---------------------------------------------------------------------------
(* Tokens: a session is named by the second it was issued in (jti).        *)

StoreAccess(r) ==
    /\ At(r, "access")
    /\ store' = With(store, Token("access", given[r].jti), 1, clock + ACCESS_TTL)
    /\ Keeps(r, IF Kind(r) = "refresh" /\ ~renew THEN "done" ELSE "refresh")

StoreRefresh(r) ==
    /\ At(r, "refresh")
    /\ store' = With(store, Token("refresh", given[r].jti), 1, clock + REFRESH_TTL)
    /\ Keeps(r, IF Kind(r) = "refresh" THEN "old" ELSE IF Kind(r) = "verify" THEN "writes" ELSE "done")

(* The strategies let a token through while it is stored. *)
Guard(r) ==
    /\ At(r, "guard")
    /\ LET type == IF Kind(r) = "refresh" THEN "refresh" ELSE "access" IN
       Keeps(r, IF IsLive(store, Token(type, plan[r].jti), clock) THEN "drop" ELSE "refused")
    /\ UNCHANGED store

(* refreshToken and clearToken delete the access token first. *)
DropAccess(r) ==
    /\ At(r, "drop")
    /\ store' = Without(store, {Token("access", plan[r].jti)})
    /\ IF Kind(r) = "refresh"
       THEN /\ Goto(r, "access")
            /\ given' = [given EXCEPT ![r] = [jti |-> IF renew THEN clock ELSE plan[r].jti,
                                              at |-> clock]]
       ELSE Goto(r, "old") /\ UNCHANGED given
    /\ ended' = IF Kind(r) = "logout" \/ renew THEN ended \cup {plan[r].jti} ELSE ended
    /\ UNCHANGED <<plan, renew, seen, todo, user, clock, redeemed>>

(* A bug: the refresh token that was just issued is deleted. *)
ReplacedNew(r) == IF Kind(r) = "refresh" THEN given[r].jti ELSE plan[r].jti

Replaced(r) == plan[r].jti

DropRefresh(r) ==
    /\ At(r, "old")
    /\ store' = Without(store, {Token("refresh", Replaced(r))})
    /\ Keeps(r, "done")

Step(r) ==
    \/ Begin(r) \/ ReadUser(r) \/ Fail(r)
    \/ RightPassword(r) \/ WrongPassword(r) \/ Block(r) \/ CheckDevice(r)
    \/ CheckLock(r) \/ CheckCode(r) \/ ClaimCode(r) \/ CountFailure(r) \/ LockVerify(r)
    \/ Write(r) \/ IssueTokens(r) \/ Written(r) \/ WriteUser(r)
    \/ StoreAccess(r) \/ StoreRefresh(r) \/ Guard(r) \/ DropAccess(r) \/ DropRefresh(r)

Next == Elapse \/ \E r \in DOMAIN plan : Step(r)

Spec == Init /\ [][Next]_vars

---------------------------------------------------------------------------

(* However many logins hold the same unused backup code, only one of them   *)
(* redeems it while the claim lasts ("Only the request that wins the claim  *)
(* proceeds", auth.service.ts:122-124).                                     *)
CodeRedeemedOnce ==
    \A c \in Codes : \A i \in 2..Len(redeemed[c]) :
        redeemed[c][i] - redeemed[c][i - 1] >= CLAIM_TTL

(* A login or a refresh that was answered leaves tokens that work until     *)
(* they expire, whatever else the user signs in, refreshes or signs out     *)
(* meanwhile - unless it is that session that is refreshed or signed out;   *)
(* sessions issued in the same second are one session.                      *)
AnsweredSessionsWork ==
    \A r \in DOMAIN plan :
        LET s == given[r] IN
        /\ pc[r] = "done" /\ s # NoSession
        /\ s.jti \notin ended
        /\ ~ \E q \in DOMAIN plan : IsRunning(q) /\ Kind(q) = "refresh" /\ plan[q].jti = s.jti
        => /\ clock < s.at + ACCESS_TTL => IsLive(store, Token("access", s.jti), clock)
           /\ clock < s.at + REFRESH_TTL /\ (Kind(r) # "refresh" \/ renew)
                 => IsLive(store, Token("refresh", s.jti), clock)
=============================================================================
