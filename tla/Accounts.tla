------------------------------ MODULE Accounts ------------------------------
(***************************************************************************)
(* Accounts: signing up by password or through Google, signing in, the     *)
(* refresh token, codes sent by mail, resetting the password, the profile  *)
(* and the ban.  An account is a User row and a Profile row, inserted in   *)
(* one transaction.  Some handlers write one column of a row (update), and *)
(* some read a row and save all of it (save).                              *)
(*                                                                         *)
(* A password, a refresh token or a code is the number of the request that *)
(* made it, 0 is none.  A name is <<base, k>>: as asked for (k = 0), or    *)
(* with the k-th suffix.  Who is asked for a token or password knows it:   *)
(* a request with a wrong one changes nothing.                             *)
(*                                                                         *)
(* The operators named Slip... are wrong variants of the definition that   *)
(* follows them; no action uses them.                                      *)
(***************************************************************************)
EXTENDS Naturals, FiniteSets

CONSTANTS
    Emails,      \* addresses as users spell them
    Lower(_),    \* the address in lower case, as Google sign-in looks it up
    Bases,       \* names that users ask for
    MaxRequests, \* bound: requests
    Alone        \* what saves a row it has read, or replaces a code, has the account to itself

ASSUME AccountAssumption ==
    /\ IsFiniteSet(Emails) /\ \A e \in Emails : Lower(e) \in Emails
    /\ MaxRequests \in Nat
    /\ Alone \in BOOLEAN

VARIABLES
    user,    \* User row of each address: password, refreshToken, isBanned, isOAuthUser
    profile, \* Profile row: firstName, avatarUrl
    codes,   \* Code rows, expired ones included
    old,     \* codes that have expired
    meant,   \* history: what was last written on purpose into each column
    req      \* what each request is doing

rows == <<user, profile>>
vars == <<rows, codes, old, meant, req>>

Requests == 1..MaxRequests
Names    == Bases \X (0..Cardinality(Emails))
NoUser    == [there |-> FALSE, pass |-> 0, refresh |-> 0, banned |-> FALSE, oauth |-> FALSE]
NoProfile == [name |-> <<>>, avatar |-> 0]

Idle == [op |-> "none", pc |-> "idle"]
Call(op, pc, e, arg) ==
    [op |-> op, pc |-> pc, e |-> e, arg |-> arg, k |-> 0, u |-> NoUser, p |-> NoProfile]

At(r, pc) == req[r].pc = pc
Op(r, op) == req[r].op = op
Active(r) == req[r].pc \notin {"ended", "idle"}
Goto(r, pc) ==
    req' = [req EXCEPT ![r] = IF pc = "ended" THEN [op |-> "none", pc |-> pc]
                              ELSE [@ EXCEPT !.pc = pc]]

There(e)    == user[e].there
Taken(name) == \E e \in Emails : There(e) /\ profile[e].name = name

Init ==
    /\ user = [e \in Emails |-> NoUser]
    /\ profile = [e \in Emails |-> NoProfile]
    /\ codes = {} /\ old = {}
    /\ meant = [e \in Emails |-> [pass |-> 0, refresh |-> 0, banned |-> FALSE,
                                  name |-> <<>>, avatar |-> 0]]
    /\ req = [r \in Requests |-> Idle]

(* Requests that read and then save a whole row, or delete and insert.     *)
Wide == {"google", "ban", "rename", "init", "forgot"}

Begin(r, c) ==
    /\ At(r, "idle")
    /\ \A q \in 1..(r - 1) : ~At(q, "idle")
    /\ Alone => \A q \in Requests : Active(q) /\ req[q].e = c.e
                   => {req[q].op, c.op} \cap Wide = {}
    /\ req' = [req EXCEPT ![r] = c]
    /\ UNCHANGED <<rows, codes, old, meant>>

-----------------------------------------------------------------------------
(* POST /auth/sign-up, registerUser: address, name, then user and profile  *)
(* in one transaction.  No code is asked for.                              *)

Register(r, e, name) == Begin(r, Call("signup", "email", e, name))

SignUpEmail(r) ==
    /\ At(r, "email") /\ Op(r, "signup")
    /\ Goto(r, IF There(req[r].e) THEN "ended" ELSE "name")
    /\ UNCHANGED <<rows, codes, old, meant>>

SignUpName(r) ==
    /\ At(r, "name") /\ Op(r, "signup")
    /\ Goto(r, IF Taken(req[r].arg) THEN "ended" ELSE "create")
    /\ UNCHANGED <<rows, codes, old, meant>>

(* The transaction: addresses and names are unique.                        *)
NameOf(c) == IF c.op = "google" THEN <<c.arg, c.k>> ELSE c.arg

CreateUserWithProfile(r) ==
    /\ At(r, "create")
    /\ LET c == req[r]
           pass == IF c.op = "google" THEN 0 ELSE r
       IN  IF There(c.e) \/ Taken(NameOf(c))
             THEN /\ Goto(r, "ended")
                  /\ UNCHANGED <<rows, meant>>
             ELSE /\ user' = [user EXCEPT ![c.e] =
                         [NoUser EXCEPT !.there = TRUE, !.pass = pass, !.oauth = c.op = "google"]]
                  /\ profile' = [profile EXCEPT ![c.e] = [NoProfile EXCEPT !.name = NameOf(c)]]
                  /\ meant' = [meant EXCEPT ![c.e].pass = pass, ![c.e].name = NameOf(c)]
                  /\ Goto(r, IF c.op = "google" THEN "issue" ELSE "avatar")
    /\ UNCHANGED <<codes, old>>

(* The avatar is asked of the file service.  If that fails the account     *)
(* stays, and the request ends without tokens.                             *)
Avatar(r) ==
    /\ At(r, "avatar")
    /\ \E pc \in {"issue", "ended"} : Goto(r, pc)
    /\ UNCHANGED <<rows, codes, old, meant>>

-----------------------------------------------------------------------------
(* updateRefreshToken, the last step of signing up, in and on.             *)
SlipIssueToken(r) ==       \* saves the row as it was when the request read it
    /\ At(r, "issue")
    /\ user' = [user EXCEPT ![req[r].e] =
                  [IF req[r].u.there THEN req[r].u ELSE @ EXCEPT !.refresh = r]]
    /\ meant' = [meant EXCEPT ![req[r].e].refresh = r]
    /\ Goto(r, "ended")
    /\ UNCHANGED <<profile, codes, old>>

IssueToken(r) ==
    /\ At(r, "issue")
    /\ user' = [user EXCEPT ![req[r].e].refresh = r]
    /\ meant' = [meant EXCEPT ![req[r].e].refresh = r]
    /\ Goto(r, "ended")
    /\ UNCHANGED <<profile, codes, old>>

(* validateUser and refreshToken read the user and compare.                *)
ReadUser(c) == [c EXCEPT !.u = user[c.e]]

ValidUser(e)  == There(e) /\ user[e].pass # 0 /\ ~user[e].oauth
ValidToken(e) == There(e) /\ user[e].refresh # 0

(* POST /auth/login and POST /auth/new-access-token.                       *)
Login(r, e)   == ValidUser(e) /\ Begin(r, ReadUser(Call("in", "issue", e, 0)))
Refresh(r, e) == ValidToken(e) /\ Begin(r, ReadUser(Call("in", "issue", e, 0)))

-----------------------------------------------------------------------------
(* validateGoogleProfile, of a token that the app got from Google, or of   *)
(* Google's redirect.  What is not a name is asked for as another base.    *)

GoogleProfile(r, e, base) ==
    /\ There(Lower(e)) => ~user[Lower(e)].banned
    /\ Begin(r, Call("google", IF There(Lower(e)) THEN "known" ELSE "pick", Lower(e), base))

GoogleMobile(r, e, base)   == GoogleProfile(r, e, base)
GoogleCallback(r, e, base) == GoogleProfile(r, e, base)

(* The picture is taken over if it is Google's own and has changed; then   *)
(* updateProfile reads the profile once more and saves it.                 *)
Known(r) ==
    /\ At(r, "known")
    /\ \/ /\ user[req[r].e].oauth
          /\ req' = [req EXCEPT ![r].pc = "saveProfile", ![r].p = profile[req[r].e]]
       \/ Goto(r, "issue")
    /\ UNCHANGED <<rows, codes, old, meant>>

SlipPickName(r) ==         \* looks for the same name again
    /\ At(r, "pick")
    /\ IF Taken(NameOf(req[r]))
         THEN UNCHANGED req
         ELSE Goto(r, "create")
    /\ UNCHANGED <<rows, codes, old, meant>>

(* pickUniqueDisplayName: one look-up for each suffix.                     *)
PickName(r) ==
    /\ At(r, "pick")
    /\ IF Taken(NameOf(req[r]))
         THEN req' = [req EXCEPT ![r].k = @ + 1]
         ELSE Goto(r, "create")
    /\ UNCHANGED <<rows, codes, old, meant>>

-----------------------------------------------------------------------------
(* updateProfile, of the user or through Google.                           *)

BeginRename(r, e, name) ==
    /\ There(e)
    /\ Begin(r, [Call("rename", "saveProfile", e, name) EXCEPT !.p = profile[e]])

SaveProfile(r) ==
    /\ At(r, "saveProfile")
    /\ LET c == req[r]
           p == IF c.op = "google" THEN [c.p EXCEPT !.avatar = r] ELSE [c.p EXCEPT !.name = c.arg]
       IN  IF \E e \in Emails \ {c.e} : There(e) /\ profile[e].name = p.name
             THEN /\ Goto(r, "ended")
                  /\ UNCHANGED <<profile, meant>>
             ELSE /\ profile' = [profile EXCEPT ![c.e] = p]
                  /\ meant' = IF c.op = "google" THEN [meant EXCEPT ![c.e].avatar = r]
                                                 ELSE [meant EXCEPT ![c.e].name = c.arg]
                  /\ Goto(r, IF c.op = "google" THEN "issue" ELSE "ended")
    /\ UNCHANGED <<user, codes, old>>

(* setBanStatus and updateUser.                                            *)
BeginBan(r, e, banned) ==
    /\ There(e)
    /\ Begin(r, ReadUser(Call("ban", "saveUser", e, banned)))

SaveUser(r) ==
    /\ At(r, "saveUser")
    /\ user' = [user EXCEPT ![req[r].e] = [req[r].u EXCEPT !.banned = req[r].arg]]
    /\ meant' = [meant EXCEPT ![req[r].e].banned = req[r].arg]
    /\ Goto(r, "ended")
    /\ UNCHANGED <<profile, codes, old>>

-----------------------------------------------------------------------------
(* generateCode, for signing up ("init") or for a forgotten password, and  *)
(* resetPasswordByCode.  A code is valid for ten minutes.                  *)

Code(op, e, r) == [type |-> op, e |-> e, r |-> r]
CodesOf(op, e) == {c \in codes : c.type = op /\ c.e = e}

(* POST /auth/sign-up-init and POST /auth/forgot-password: the mail with   *)
(* the code is sent without waiting for it.                                *)
SignUpInit(r, e)     == ~There(e) /\ Begin(r, Call("init", "delete", e, 0))
ForgotPassword(r, e) == Begin(r, Call("forgot", "delete", e, 0))

SlipDeleteCodes(r) ==      \* leaves codes that have not expired
    /\ At(r, "delete")
    /\ codes' = codes \ (CodesOf(req[r].op, req[r].e) \cap old)
    /\ old' = old \cap codes'
    /\ Goto(r, "insert")
    /\ UNCHANGED <<rows, meant>>

DeleteCodes(r) ==
    /\ At(r, "delete")
    /\ codes' = codes \ CodesOf(req[r].op, req[r].e)
    /\ old' = old \cap codes'
    /\ Goto(r, "insert")
    /\ UNCHANGED <<rows, meant>>

InsertCode(r) ==
    /\ At(r, "insert")
    /\ codes' = codes \cup {Code(req[r].op, req[r].e, r)}
    /\ Goto(r, "ended")
    /\ UNCHANGED <<rows, old, meant>>

TenMinutesPass ==
    /\ \E c \in codes \ old : old' = old \cup {c}
    /\ UNCHANGED <<rows, codes, meant, req>>

(* POST /auth/forgot-password/reset, of an account that has a password.    *)
MayReset(e) == There(e) /\ ~user[e].oauth
Valid(code) == code \in codes \ old

ResetPassword(r, e, n) == MayReset(e) /\ Begin(r, Call("reset", "verify", e, n))

VerifyCode(r) ==
    /\ At(r, "verify")
    /\ Goto(r, IF Valid(Code("forgot", req[r].e, req[r].arg)) THEN "password" ELSE "ended")
    /\ UNCHANGED <<rows, codes, old, meant>>

UpdatePassword(r) ==
    /\ At(r, "password")
    /\ user' = [user EXCEPT ![req[r].e].pass = r]
    /\ meant' = [meant EXCEPT ![req[r].e].pass = r]
    /\ Goto(r, "ended")
    /\ UNCHANGED <<profile, codes, old>>

-----------------------------------------------------------------------------
Start(r) == At(r, "idle") /\ \E e \in Emails :
    \/ \E name \in Bases \X {0, 1} : Register(r, e, name) \/ BeginRename(r, e, name)
    \/ \E base \in Bases : GoogleMobile(r, e, base) \/ GoogleCallback(r, e, base)
    \/ Login(r, e) \/ Refresh(r, e)
    \/ \E banned \in BOOLEAN : BeginBan(r, e, banned)
    \/ SignUpInit(r, e) \/ ForgotPassword(r, e)
    \/ \E c \in codes : c.type = "forgot" /\ c.e = e /\ ResetPassword(r, e, c.r)

Continue(r) ==
    \/ SignUpEmail(r) \/ SignUpName(r) \/ CreateUserWithProfile(r) \/ Avatar(r) \/ IssueToken(r)
    \/ Known(r) \/ PickName(r) \/ SaveProfile(r) \/ SaveUser(r)
    \/ DeleteCodes(r) \/ InsertCode(r) \/ VerifyCode(r) \/ UpdatePassword(r)

Next ==
    \/ \E r \in Requests : Start(r) \/ Continue(r)
    \/ TenMinutesPass

Spec == Init /\ [][Next]_vars
FairSpec == Spec /\ \A r \in Requests : WF_vars(Continue(r))

-----------------------------------------------------------------------------
TypeOK ==
    /\ \A e \in Emails : /\ user[e].pass \in 0..MaxRequests /\ user[e].refresh \in 0..MaxRequests
                         /\ There(e) => profile[e].name \in Names
    /\ old \subseteq codes
    /\ \A r \in Requests : At(r, "pick") => NameOf(req[r]) \in Names

(* Every column holds what was last written into it on purpose: a ban, a   *)
(* rename or a new picture brings back no password, token, ban or name.    *)
LastWriteStands ==
    \A e \in Emails : There(e) =>
        meant[e] = [pass |-> user[e].pass, refresh |-> user[e].refresh, banned |-> user[e].banned,
                    name |-> profile[e].name, avatar |-> profile[e].avatar]

(* An address has at most one code of a type, whether or not it expired.   *)
OneCodeEach ==
    \A e \in Emails : \A op \in {"init", "forgot"} : Cardinality(CodesOf(op, e)) <= 1

(* The search for a free name ends, however many accounts use the name and *)
(* take names meanwhile: of finitely many requests none searches for ever. *)
PickingEnds == <>[](\A r \in Requests : ~At(r, "pick"))
=============================================================================
