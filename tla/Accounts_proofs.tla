-------------------------- MODULE Accounts_proofs ---------------------------
(***************************************************************************)
(* That no column of an account goes back to an older value, and that an   *)
(* address has one code of a type at most, for any addresses, names and    *)
(* number of requests, if what saves a whole row or replaces a code has    *)
(* the account to itself.                                                  *)
(***************************************************************************)
EXTENDS Accounts, FiniteSetTheorems, TLAPS

(* The columns are those that were last written on purpose; without an     *)
(* account there are none.                                                 *)
Agree(e) ==
    /\ user[e] = [there |-> user[e].there, pass |-> user[e].pass, refresh |-> user[e].refresh,
                  banned |-> user[e].banned, oauth |-> user[e].oauth]
    /\ profile[e] = [name |-> profile[e].name, avatar |-> profile[e].avatar]
    /\ meant[e] = [pass |-> user[e].pass, refresh |-> user[e].refresh, banned |-> user[e].banned,
                   name |-> profile[e].name, avatar |-> profile[e].avatar]
    /\ There(e) \/ (user[e] = NoUser /\ profile[e] = NoProfile)

(* A request that has read a row, or deleted codes, finds them so when it  *)
(* writes; one that writes to an account finds it.                         *)
Fields(c) == c = [op |-> c.op, pc |-> c.pc, e |-> c.e, arg |-> c.arg, k |-> c.k, u |-> c.u, p |-> c.p]
Found(r) ==
    LET c == req[r] IN
    /\ Fields(c) /\ c.e \in Emails
    /\ c.pc \in {"avatar", "issue", "known", "saveProfile", "saveUser", "verify", "password"} => There(c.e)
    /\ c.pc = "known" => c.op = "google"
    /\ c.pc = "saveUser" => c.op = "ban" /\ c.u = user[c.e]
    /\ c.pc = "saveProfile" => c.op \in {"google", "rename"} /\ c.p = profile[c.e]
    /\ c.pc \in {"delete", "insert"} => c.op \in {"init", "forgot"}
    /\ c.pc = "insert" => CodesOf(c.op, c.e) = {}

Shape == DOMAIN user = Emails /\ DOMAIN profile = Emails /\ DOMAIN meant = Emails /\ DOMAIN req = Requests

OneCode == \A c, d \in codes : c.type = d.type /\ c.e = d.e => c = d

Lone == \A q, r \in Requests : q # r /\ Active(q) /\ Active(r) /\ req[q].e = req[r].e
                                  => req[q].op \notin Wide

AInv ==
    /\ Shape /\ OneCode /\ Lone
    /\ \A e \in Emails : Agree(e)
    /\ \A r \in Requests : Active(r) => Found(r)

-----------------------------------------------------------------------------
LEMMA Initially == Init => AInv
<1> SUFFICES ASSUME Init PROVE AInv
  OBVIOUS
<1>1. \A r \in Requests : ~Active(r)
  BY DEF Init, Idle, Active
<1>2. \A e \in Emails : Agree(e)
  BY DEF Init, Agree, NoUser, NoProfile
<1> QED
  BY <1>1, <1>2 DEF Init, AInv, Shape, OneCode, Lone

(* A step of a request writes to its own account only.                     *)
LEMMA OneSteps ==
    ASSUME AInv, NEW r \in Requests, NEW e \in Emails,
           Active(r), req[r].e = e, Shape', OneCode',
           \A q \in Requests \ {r} : req'[q] = req[q],
           Active(r)' => req'[r].e = e /\ req'[r].op = req[r].op,
           \A x \in Emails \ {e} : /\ user'[x] = user[x] /\ profile'[x] = profile[x]
                                   /\ meant'[x] = meant[x]
                                   /\ \A op : CodesOf(op, x)' = CodesOf(op, x),
           Agree(e)', There(e) => There(e)',
           Active(r)' => Found(r)'
    PROVE  AInv'
<1>1. ASSUME NEW x \in Emails PROVE Agree(x)'
  <2>1. CASE x # e
    BY <2>1 DEF AInv, Agree, There
  <2> QED
    BY <2>1
<1>2. \A q \in Requests \ {r} : Active(q)' => Active(q) /\ (req[q].e = e => req[q].op \notin Wide)
  BY DEF AInv, Lone, Active
<1>3. Lone'
  <2> SUFFICES ASSUME NEW q \in Requests, NEW s \in Requests, q # s, Active(q)', Active(s)',
                      req'[q].e = req'[s].e
               PROVE  req'[q].op \notin Wide
    BY DEF Lone, Wide
  <2>1. CASE q = r
    <3>1. s # r /\ Active(s) /\ req[s].e = e
      BY <1>2, <2>1
    <3> QED
      BY <2>1, <3>1 DEF AInv, Lone
  <2>2. CASE q # r /\ s = r
    BY <1>2, <2>2
  <2>3. CASE q # r /\ s # r
    <3>1. Active(q) /\ Active(s)
      BY <1>2, <2>3
    <3> QED
      BY <2>3, <3>1 DEF AInv, Lone
  <2> QED
    BY <2>1, <2>2, <2>3
<1>4. ASSUME NEW q \in Requests, q # r, Active(q)' PROVE Found(q)'
  <2>1. Active(q) /\ req'[q] = req[q] /\ Found(q) /\ req[q].e \in Emails
    BY <1>2, <1>4 DEF AInv, Found
  <2>2. CASE req[q].e = e
    <3>1. req[q].op \notin Wide
      BY <1>2, <1>4, <2>2
    <3>2. req[q].pc \notin {"known", "saveUser", "saveProfile", "delete", "insert"}
      BY <2>1, <3>1 DEF Found, Wide
    <3> QED
      BY <2>1, <2>2, <3>2 DEF Found, Fields, There
  <2>3. CASE req[q].e # e
    BY <2>1, <2>3 DEF Found, Fields, There
  <2> QED
    BY <2>2, <2>3
<1> QED
  BY <1>1, <1>3, <1>4 DEF AInv

(* A request begins while none on its account is in its way.               *)
LEMMA OneBegins ==
    ASSUME Alone, AInv, NEW r \in Requests, NEW c, Begin(r, c), c.e \in Emails, Fields(c),
           c.pc \in {"issue", "known", "saveProfile", "saveUser", "verify"} => There(c.e),
           c.pc \in {"email", "issue", "known", "pick", "saveProfile", "saveUser", "delete", "verify"},
           c.pc = "known" => c.op = "google",
           c.pc = "saveUser" => c.op = "ban" /\ c.u = user[c.e],
           c.pc = "saveProfile" => c.op = "rename" /\ c.p = profile[c.e],
           c.pc = "delete" => c.op \in {"init", "forgot"}
    PROVE  AInv'
<1>1. /\ req' = [req EXCEPT ![r] = c] /\ UNCHANGED <<user, profile, codes, old, meant>>
      /\ ~Active(r)
      /\ \A q \in Requests : Active(q) /\ req[q].e = c.e => {req[q].op, c.op} \cap Wide = {}
  BY DEF Begin, rows, At, Active
<1>2. /\ DOMAIN req' = Requests /\ req'[r] = c
      /\ \A q \in Requests \ {r} : req'[q] = req[q]
  BY <1>1 DEF AInv, Shape
<1>3. \A q \in Requests \ {r} : Active(q)' => Active(q)
  BY <1>2 DEF Active
<1>4. Lone'
  <2> SUFFICES ASSUME NEW q \in Requests, NEW s \in Requests, q # s, Active(q)', Active(s)',
                      req'[q].e = req'[s].e
               PROVE  req'[q].op \notin Wide
    BY DEF Lone, Wide
  <2>1. CASE q = r \/ s = r
    BY <1>1, <1>2, <1>3, <2>1
  <2>2. CASE q # r /\ s # r
    <3>1. Active(q) /\ Active(s)
      BY <1>3, <2>2
    <3> QED
      BY <1>2, <2>2, <3>1 DEF AInv, Lone
  <2> QED
    BY <2>1, <2>2
<1>5. ASSUME NEW q \in Requests, Active(q)' PROVE Found(q)'
  <2>1. CASE q = r
    BY <1>1, <1>2, <2>1 DEF Found, There
  <2>2. CASE q # r
    <3>1. Found(q) /\ req'[q] = req[q]
      BY <1>2, <1>3, <1>5, <2>2 DEF AInv
    <3> QED
      BY <1>1, <3>1 DEF Found, Fields, There, CodesOf
  <2> QED
    BY <2>1, <2>2
<1> QED
  BY <1>1, <1>2, <1>4, <1>5 DEF AInv, Shape, OneCode, Agree, There

LEMMA StartOK == ASSUME Alone, AInv, NEW r \in Requests, Start(r) PROVE AInv'
<1>1. PICK e \in Emails :
         \/ \E name \in Bases \X {0, 1} : Register(r, e, name) \/ BeginRename(r, e, name)
         \/ \E base \in Bases : GoogleProfile(r, e, base)
         \/ Login(r, e) \/ Refresh(r, e)
         \/ \E banned \in BOOLEAN : BeginBan(r, e, banned)
         \/ SignUpInit(r, e) \/ ForgotPassword(r, e)
         \/ \E n : ResetPassword(r, e, n)
  BY DEF Start, GoogleMobile, GoogleCallback
<1>2. ASSUME NEW name, Register(r, e, name) PROVE AInv'
  <2> DEFINE c == Call("signup", "email", e, name)
  <2>1. Fields(c) /\ c.e = e /\ c.pc = "email"
    BY DEF Call, Fields
  <2> QED
    BY <1>2, <2>1, OneBegins DEF Register
<1>3. ASSUME NEW name, BeginRename(r, e, name) PROVE AInv'
  <2> DEFINE c == [Call("rename", "saveProfile", e, name) EXCEPT !.p = profile[e]]
  <2>1. Fields(c) /\ c.e = e /\ c.pc = "saveProfile" /\ c.op = "rename" /\ c.p = profile[e]
    BY DEF Call, Fields
  <2> QED
    BY <1>3, <2>1, OneBegins DEF BeginRename
<1>4. ASSUME NEW base, GoogleProfile(r, e, base) PROVE AInv'
  <2> DEFINE c == Call("google", IF There(Lower(e)) THEN "known" ELSE "pick", Lower(e), base)
  <2>1. /\ Fields(c) /\ c.e = Lower(e) /\ c.op = "google" /\ c.pc \in {"known", "pick"}
        /\ c.pc = "known" => There(Lower(e))
    BY DEF Call, Fields
  <2>2. Lower(e) \in Emails
    BY AccountAssumption
  <2> QED
    BY <1>4, <2>1, <2>2, OneBegins DEF GoogleProfile
<1>5. CASE Login(r, e) \/ Refresh(r, e)
  <2> DEFINE c == ReadUser(Call("in", "issue", e, 0))
  <2>1. Fields(c) /\ c.e = e /\ c.pc = "issue"
    BY DEF ReadUser, Call, Fields
  <2>2. There(e) /\ Begin(r, c)
    BY <1>5 DEF Login, Refresh, ValidUser, ValidToken
  <2> QED
    BY <2>1, <2>2, OneBegins
<1>6. ASSUME NEW banned, BeginBan(r, e, banned) PROVE AInv'
  <2> DEFINE c == ReadUser(Call("ban", "saveUser", e, banned))
  <2>1. Fields(c) /\ c.e = e /\ c.pc = "saveUser" /\ c.op = "ban" /\ c.u = user[e]
    BY DEF ReadUser, Call, Fields
  <2> QED
    BY <1>6, <2>1, OneBegins DEF BeginBan
<1>7. ASSUME NEW op \in {"init", "forgot"}, Begin(r, Call(op, "delete", e, 0)) PROVE AInv'
  <2> DEFINE c == Call(op, "delete", e, 0)
  <2>1. Fields(c) /\ c.e = e /\ c.pc = "delete" /\ c.op = op
    BY DEF Call, Fields
  <2> QED
    BY <1>7, <2>1, OneBegins
<1>8. ASSUME NEW n, ResetPassword(r, e, n) PROVE AInv'
  <2> DEFINE c == Call("reset", "verify", e, n)
  <2>1. Fields(c) /\ c.e = e /\ c.pc = "verify"
    BY DEF Call, Fields
  <2> QED
    BY <1>8, <2>1, OneBegins DEF ResetPassword, MayReset
<1> QED
  BY <1>1, <1>2, <1>3, <1>4, <1>5, <1>6, <1>7, <1>8 DEF SignUpInit, ForgotPassword

(* What Goto makes of a request: e and op stay until it has ended.         *)
LEMMA GotoStep ==
    ASSUME AInv, NEW r \in Requests, Active(r), NEW pc, Goto(r, pc)
    PROVE  /\ DOMAIN req' = Requests
           /\ \A q \in Requests \ {r} : req'[q] = req[q]
           /\ pc = "ended" => ~Active(r)'
           /\ pc # "ended" => /\ Fields(req'[r]) /\ req'[r].pc = pc
                              /\ req'[r].e = req[r].e /\ req'[r].op = req[r].op
                              /\ req'[r].u = req[r].u /\ req'[r].p = req[r].p
<1>1. /\ DOMAIN req' = Requests /\ \A q \in Requests \ {r} : req'[q] = req[q]
      /\ req'[r] = IF pc = "ended" THEN [op |-> "none", pc |-> pc] ELSE [req[r] EXCEPT !.pc = pc]
  BY DEF Goto, AInv, Shape
<1>2. Fields(req[r])
  BY DEF AInv, Found
<1>3. CASE pc = "ended"
  BY <1>1, <1>3 DEF Active
<1>4. CASE pc # "ended"
  BY <1>1, <1>2, <1>4 DEF Fields
<1> QED
  BY <1>1, <1>3, <1>4

(* A step that only looks.                                                 *)
LEMMA Looks ==
    ASSUME AInv, NEW r \in Requests, Active(r), UNCHANGED <<rows, codes, meant>>,
           DOMAIN req' = Requests, \A q \in Requests \ {r} : req'[q] = req[q],
           Active(r)' => req'[r].e = req[r].e /\ req'[r].op = req[r].op /\ Found(r)'
    PROVE  AInv'
<1>1. PICK e \in Emails : req[r].e = e
  BY DEF AInv, Found
<1>2. UNCHANGED <<user, profile, codes, meant>>
  BY DEF rows
<1>3. Shape' /\ OneCode'
  BY <1>2 DEF AInv, Shape, OneCode
<1>4. Agree(e)' /\ (There(e) => There(e)')
  BY <1>2 DEF AInv, Agree, There
<1>5. \A x \in Emails \ {e} : \A op : CodesOf(op, x)' = CodesOf(op, x)
  BY <1>2 DEF CodesOf
<1> QED
  BY <1>1, <1>2, <1>3, <1>4, <1>5, OneSteps

LEMMA LooksOn ==
    ASSUME AInv, NEW r \in Requests,
           SignUpEmail(r) \/ SignUpName(r) \/ Avatar(r) \/ VerifyCode(r)
    PROVE  AInv'
<1>1. /\ Active(r) /\ UNCHANGED <<rows, codes, meant>>
      /\ At(r, "avatar") \/ At(r, "verify") => There(req[r].e)
  BY DEF SignUpEmail, SignUpName, Avatar, VerifyCode, At, Active, AInv, Found
<1>2. UNCHANGED user
  BY <1>1 DEF rows
<1>3. PICK pc \in {"name", "create", "issue", "password", "ended"} :
         Goto(r, pc) /\ (pc \in {"issue", "password"} => There(req[r].e))
  BY <1>1 DEF SignUpEmail, SignUpName, Avatar, VerifyCode, At
<1>4. DOMAIN req' = Requests /\ \A q \in Requests \ {r} : req'[q] = req[q]
  BY <1>1, <1>3, GotoStep
<1>5. req[r].e \in Emails
  BY <1>1 DEF AInv, Found
<1>6. CASE pc = "ended"
  <2>1. ~Active(r)'
    BY <1>1, <1>3, <1>6, GotoStep
  <2> QED
    BY <1>1, <1>4, <2>1, Looks
<1>7. CASE pc # "ended"
  <2>1. /\ Fields(req'[r]) /\ req'[r].pc = pc
        /\ req'[r].e = req[r].e /\ req'[r].op = req[r].op
    BY <1>1, <1>3, <1>7, GotoStep
  <2>2. Found(r)'
    BY <1>2, <1>3, <1>5, <1>7, <2>1 DEF Found, Fields, There
  <2> QED
    BY <1>1, <1>4, <2>1, <2>2, Looks
<1> QED
  BY <1>6, <1>7

LEMMA KnownOK == ASSUME AInv, NEW r \in Requests, Known(r) PROVE AInv'
<1>1. /\ Active(r) /\ UNCHANGED <<rows, codes, meant>>
      /\ Fields(req[r]) /\ req[r].e \in Emails /\ There(req[r].e) /\ req[r].op = "google"
  BY DEF Known, At, Active, AInv, Found
<1>2. UNCHANGED <<user, profile>>
  BY <1>1 DEF rows
<1>3. CASE req' = [req EXCEPT ![r].pc = "saveProfile", ![r].p = profile[req[r].e]]
  <2>1. /\ DOMAIN req' = Requests /\ \A q \in Requests \ {r} : req'[q] = req[q]
        /\ req'[r] = [req[r] EXCEPT !.pc = "saveProfile", !.p = profile[req[r].e]]
    BY <1>3 DEF AInv, Shape
  <2>2. /\ Fields(req'[r]) /\ req'[r].pc = "saveProfile" /\ req'[r].p = profile[req[r].e]
        /\ req'[r].e = req[r].e /\ req'[r].op = req[r].op
    BY <1>1, <2>1 DEF Fields
  <2>3. Found(r)'
    BY <1>1, <1>2, <2>2 DEF Found, Fields, There
  <2> QED
    BY <1>1, <2>1, <2>2, <2>3, Looks
<1>4. CASE Goto(r, "issue")
  <2>1. /\ DOMAIN req' = Requests /\ \A q \in Requests \ {r} : req'[q] = req[q]
        /\ Fields(req'[r]) /\ req'[r].pc = "issue"
        /\ req'[r].e = req[r].e /\ req'[r].op = req[r].op
    BY <1>1, <1>4, GotoStep
  <2>2. Found(r)'
    BY <1>1, <1>2, <2>1 DEF Found, Fields, There
  <2> QED
    BY <1>1, <2>1, <2>2, Looks
<1> QED
  BY <1>3, <1>4 DEF Known

LEMMA PickNameOK == ASSUME AInv, NEW r \in Requests, PickName(r) PROVE AInv'
<1>1. /\ Active(r) /\ UNCHANGED <<rows, codes, meant>>
      /\ Fields(req[r]) /\ req[r].e \in Emails /\ req[r].pc = "pick"
  BY DEF PickName, At, Active, AInv, Found
<1>2. CASE req' = [req EXCEPT ![r].k = @ + 1]
  <2>1. /\ DOMAIN req' = Requests /\ \A q \in Requests \ {r} : req'[q] = req[q]
        /\ req'[r] = [req[r] EXCEPT !.k = req[r].k + 1]
    BY <1>2 DEF AInv, Shape
  <2>2. /\ Fields(req'[r]) /\ req'[r].pc = "pick"
        /\ req'[r].e = req[r].e /\ req'[r].op = req[r].op
    BY <1>1, <2>1 DEF Fields
  <2>3. Found(r)'
    BY <1>1, <2>2 DEF Found, Fields
  <2> QED
    BY <1>1, <2>1, <2>2, <2>3, Looks
<1>3. CASE Goto(r, "create")
  <2>1. /\ DOMAIN req' = Requests /\ \A q \in Requests \ {r} : req'[q] = req[q]
        /\ Fields(req'[r]) /\ req'[r].pc = "create"
        /\ req'[r].e = req[r].e /\ req'[r].op = req[r].op
    BY <1>1, <1>3, GotoStep
  <2>2. Found(r)'
    BY <1>1, <2>1 DEF Found, Fields
  <2> QED
    BY <1>1, <2>1, <2>2, Looks
<1> QED
  BY <1>2, <1>3 DEF PickName

(* A step that writes to the row or the profile of its account, and with   *)
(* it what was meant, and has ended or goes on to look.                    *)
LEMMA Writes ==
    ASSUME AInv, NEW r \in Requests, Active(r), UNCHANGED codes,
           NEW e \in Emails, req[r].e = e,
           NEW pc \in {"avatar", "issue", "ended"}, Goto(r, pc),
           DOMAIN user' = Emails, DOMAIN profile' = Emails, DOMAIN meant' = Emails,
           \A x \in Emails \ {e} : /\ user'[x] = user[x] /\ profile'[x] = profile[x]
                                   /\ meant'[x] = meant[x],
           Agree(e)', There(e)'
    PROVE  AInv'
<1>1. Shape' /\ OneCode'
  BY GotoStep DEF AInv, Shape, OneCode
<1>2. \A x \in Emails \ {e} : \A op : CodesOf(op, x)' = CodesOf(op, x)
  BY DEF CodesOf
<1>3. \A q \in Requests \ {r} : req'[q] = req[q]
  BY GotoStep
<1>4. CASE pc = "ended"
  <2>1. ~Active(r)'
    BY <1>4, GotoStep
  <2> QED
    BY <1>1, <1>2, <1>3, <2>1, OneSteps
<1>5. CASE pc # "ended"
  <2>1. /\ Fields(req'[r]) /\ req'[r].pc = pc
        /\ req'[r].e = e /\ req'[r].op = req[r].op
    BY <1>5, GotoStep
  <2>2. Found(r)'
    BY <1>5, <2>1 DEF Found, Fields, There
  <2> QED
    BY <1>1, <1>2, <1>3, <2>1, <2>2, OneSteps
<1> QED
  BY <1>4, <1>5

LEMMA CreateOK == ASSUME AInv, NEW r \in Requests, CreateUserWithProfile(r) PROVE AInv'
<1>1. Active(r) /\ UNCHANGED codes
  BY DEF CreateUserWithProfile, At, Active
<1>2. PICK e \in Emails : req[r].e = e
  BY <1>1 DEF AInv, Found
<1>3. CASE Goto(r, "ended") /\ UNCHANGED <<rows, meant>>
  <2>1. /\ DOMAIN req' = Requests /\ \A q \in Requests \ {r} : req'[q] = req[q]
        /\ ~Active(r)'
    BY <1>1, <1>3, GotoStep
  <2> QED
    BY <1>1, <1>3, <2>1, Looks
<1>4. CASE ~(Goto(r, "ended") /\ UNCHANGED <<rows, meant>>)
  <2> DEFINE pass  == IF req[r].op = "google" THEN 0 ELSE r
             oauth == req[r].op = "google"
             name  == NameOf(req[r])
  <2>1. /\ Goto(r, "issue") \/ Goto(r, "avatar")
        /\ user' = [user EXCEPT ![e] =
                      [NoUser EXCEPT !.there = TRUE, !.pass = pass, !.oauth = oauth]]
        /\ profile' = [profile EXCEPT ![e] = [NoProfile EXCEPT !.name = name]]
        /\ meant' = [meant EXCEPT ![e].pass = pass, ![e].name = name]
        /\ ~There(e)
    BY <1>2, <1>4 DEF CreateUserWithProfile
  <2> HIDE DEF pass, oauth, name
  <2>2. /\ meant[e] = [pass |-> user[e].pass, refresh |-> user[e].refresh,
                      banned |-> user[e].banned, name |-> profile[e].name,
                      avatar |-> profile[e].avatar]
        /\ user[e] = NoUser /\ profile[e] = NoProfile
    BY <2>1 DEF AInv, Agree
  <2>3. /\ DOMAIN user' = Emails /\ DOMAIN profile' = Emails /\ DOMAIN meant' = Emails
        /\ \A x \in Emails \ {e} : /\ user'[x] = user[x] /\ profile'[x] = profile[x]
                                    /\ meant'[x] = meant[x]
    BY <2>1 DEF AInv, Shape
  <2>4. /\ user'[e] = [there |-> TRUE, pass |-> pass, refresh |-> 0, banned |-> FALSE, oauth |-> oauth]
        /\ profile'[e] = [name |-> name, avatar |-> 0]
    BY <2>1 DEF AInv, Shape, NoUser, NoProfile
  <2>5. meant'[e] = [pass |-> pass, refresh |-> 0, banned |-> FALSE, name |-> name, avatar |-> 0]
    <3>1. meant'[e] = [meant[e] EXCEPT !.pass = pass, !.name = name]
      BY <2>1 DEF AInv, Shape
    <3>2. meant'[e] = [pass |-> pass, refresh |-> user[e].refresh, banned |-> user[e].banned,
                       name |-> name, avatar |-> profile[e].avatar]
      <4> DEFINE m == meant[e]
                 n == meant'[e]
                 u == user[e]
                 p == profile[e]
      <4>1. m = [pass |-> u.pass, refresh |-> u.refresh, banned |-> u.banned,
                 name |-> p.name, avatar |-> p.avatar]
        BY <2>2
      <4>2. n = [m EXCEPT !.pass = pass, !.name = name]
        BY <3>1
      <4> HIDE DEF m, n, u, p
      <4>3. n = [pass |-> pass, refresh |-> u.refresh, banned |-> u.banned,
                 name |-> name, avatar |-> p.avatar]
        BY <4>1, <4>2
      <4> QED
        BY <4>3 DEF n, u, p
    <3>3. user[e].refresh = 0 /\ user[e].banned = FALSE
      BY <2>2 DEF NoUser
    <3>4. profile[e].avatar = 0
      BY <2>2 DEF NoProfile
    <3> QED
      BY <3>2, <3>3, <3>4
  <2>6. Agree(e)' /\ There(e)'
    BY <2>4, <2>5 DEF Agree, There
  <2> QED
    BY <1>1, <1>2, <2>1, <2>3, <2>6, Writes
<1> QED
  BY <1>3, <1>4

(* Three columns written alone, and a row saved as it was read but for one. *)
LEMMA UserOK ==
    ASSUME AInv, NEW r \in Requests, IssueToken(r) \/ UpdatePassword(r) \/ SaveUser(r)
    PROVE  AInv'
<1>1. /\ Active(r) /\ UNCHANGED codes /\ UNCHANGED profile /\ Goto(r, "ended")
      /\ There(req[r].e)
  BY DEF IssueToken, UpdatePassword, SaveUser, At, Active, AInv, Found
<1>2. PICK e \in Emails : req[r].e = e
  BY <1>1 DEF AInv, Found
<1>3. /\ user[e] = [there |-> user[e].there, pass |-> user[e].pass, refresh |-> user[e].refresh,
                    banned |-> user[e].banned, oauth |-> user[e].oauth]
      /\ user[e].there
  BY <1>1, <1>2 DEF AInv, Agree, There
<1>4. meant[e] = [pass |-> user[e].pass, refresh |-> user[e].refresh, banned |-> user[e].banned,
                  name |-> profile[e].name, avatar |-> profile[e].avatar]
  BY DEF AInv, Agree
<1>5. PICK u, m :
         /\ user' = [user EXCEPT ![e] = u] /\ meant' = [meant EXCEPT ![e] = m]
         /\ \/ u = [user[e] EXCEPT !.refresh = r] /\ m = [meant[e] EXCEPT !.refresh = r]
            \/ u = [user[e] EXCEPT !.pass = r] /\ m = [meant[e] EXCEPT !.pass = r]
            \/ \E b : u = [user[e] EXCEPT !.banned = b] /\ m = [meant[e] EXCEPT !.banned = b]
  <2>1. CASE IssueToken(r)
    BY <1>2, <2>1 DEF IssueToken
  <2>2. CASE UpdatePassword(r)
    BY <1>2, <2>2 DEF UpdatePassword
  <2>3. CASE SaveUser(r)
    <3>1. req[r].u = user[e]
      BY <1>1, <1>2, <2>3 DEF SaveUser, At, AInv, Found
    <3> DEFINE b == req[r].arg
    <3>2. /\ user' = [user EXCEPT ![e] = [user[e] EXCEPT !.banned = b]]
          /\ meant' = [meant EXCEPT ![e] = [meant[e] EXCEPT !.banned = b]]
      BY <1>2, <2>3, <3>1 DEF SaveUser
    <3> DEFINE u == [user[e] EXCEPT !.banned = b]
               m == [meant[e] EXCEPT !.banned = b]
    <3>3. \E x : u = [user[e] EXCEPT !.banned = x] /\ m = [meant[e] EXCEPT !.banned = x]
      OBVIOUS
    <3>4. user' = [user EXCEPT ![e] = u] /\ meant' = [meant EXCEPT ![e] = m]
      BY <3>2
    <3> HIDE DEF b, u, m
    <3> QED
      BY <3>3, <3>4
  <2> QED
    BY <2>1, <2>2, <2>3
<1>6. /\ DOMAIN user' = Emails /\ DOMAIN profile' = Emails /\ DOMAIN meant' = Emails
      /\ user'[e] = u /\ meant'[e] = m
      /\ \A x \in Emails \ {e} : /\ user'[x] = user[x] /\ profile'[x] = profile[x]
                                  /\ meant'[x] = meant[x]
  BY <1>1, <1>5 DEF AInv, Shape
<1>7. profile'[e] = [name |-> profile'[e].name, avatar |-> profile'[e].avatar]
  BY <1>1 DEF AInv, Agree
<1>8. Agree(e)' /\ There(e)'
  <2>1. u.there /\ u = [there |-> u.there, pass |-> u.pass, refresh |-> u.refresh,
                        banned |-> u.banned, oauth |-> u.oauth]
    BY <1>3, <1>5
  <2>2. m = [pass |-> u.pass, refresh |-> u.refresh, banned |-> u.banned,
             name |-> profile[e].name, avatar |-> profile[e].avatar]
    BY <1>3, <1>4, <1>5
  <2> QED
    BY <1>1, <1>6, <1>7, <2>1, <2>2 DEF Agree, There
<1> QED
  BY <1>1, <1>2, <1>6, <1>8, Writes

LEMMA SaveProfileOK == ASSUME AInv, NEW r \in Requests, SaveProfile(r) PROVE AInv'
<1>1. Active(r) /\ UNCHANGED codes /\ UNCHANGED user
  BY DEF SaveProfile, At, Active
<1>2. PICK e \in Emails : req[r].e = e
  BY <1>1 DEF AInv, Found
<1>3. There(e) /\ req[r].p = profile[e] /\ user'[e].there
  BY <1>1, <1>2 DEF SaveProfile, At, AInv, Found, There
<1>4. CASE Goto(r, "ended") /\ UNCHANGED <<profile, meant>>
  <2>1. /\ DOMAIN req' = Requests /\ \A q \in Requests \ {r} : req'[q] = req[q]
        /\ ~Active(r)'
    BY <1>1, <1>4, GotoStep
  <2> QED
    BY <1>1, <1>4, <2>1, Looks DEF rows
<1>5. CASE ~(Goto(r, "ended") /\ UNCHANGED <<profile, meant>>)
  <2>1. PICK p, m, pc :
           /\ profile' = [profile EXCEPT ![e] = p] /\ meant' = [meant EXCEPT ![e] = m]
           /\ pc \in {"issue", "ended"} /\ Goto(r, pc)
           /\ \/ p = [profile[e] EXCEPT !.avatar = r] /\ m = [meant[e] EXCEPT !.avatar = r]
              \/ \E n : p = [profile[e] EXCEPT !.name = n] /\ m = [meant[e] EXCEPT !.name = n]
    <3>1. CASE req[r].op = "google"
      BY <1>2, <1>3, <1>5, <3>1 DEF SaveProfile
    <3>2. CASE req[r].op # "google"
      <4> DEFINE n == req[r].arg
      <4>1. /\ profile' = [profile EXCEPT ![e] = [profile[e] EXCEPT !.name = n]]
            /\ meant' = [meant EXCEPT ![e] = [meant[e] EXCEPT !.name = n]]
            /\ Goto(r, "ended")
        BY <1>2, <1>3, <1>5, <3>2 DEF SaveProfile
      <4> HIDE DEF n
      <4> QED
        BY <4>1
    <3> QED
      BY <3>1, <3>2
  <2>2. /\ DOMAIN user' = Emails /\ DOMAIN profile' = Emails /\ DOMAIN meant' = Emails
        /\ profile'[e] = p /\ meant'[e] = m
        /\ \A x \in Emails \ {e} : /\ user'[x] = user[x] /\ profile'[x] = profile[x]
                                    /\ meant'[x] = meant[x]
    BY <1>1, <2>1 DEF AInv, Shape
  <2>3. profile[e] = [name |-> profile[e].name, avatar |-> profile[e].avatar]
    BY DEF AInv, Agree
  <2>4. meant[e] = [pass |-> user[e].pass, refresh |-> user[e].refresh, banned |-> user[e].banned,
                    name |-> profile[e].name, avatar |-> profile[e].avatar]
    BY DEF AInv, Agree
  <2>5. user'[e] = [there |-> user'[e].there, pass |-> user'[e].pass, refresh |-> user'[e].refresh,
                    banned |-> user'[e].banned, oauth |-> user'[e].oauth]
    BY <1>1 DEF AInv, Agree
  <2>6. p = [name |-> p.name, avatar |-> p.avatar]
    BY <2>1, <2>3
  <2>7. m = [pass |-> user[e].pass, refresh |-> user[e].refresh, banned |-> user[e].banned,
             name |-> p.name, avatar |-> p.avatar]
    BY <2>1, <2>3, <2>4
  <2>8. Agree(e)' /\ There(e)'
    BY <1>1, <1>3, <2>2, <2>5, <2>6, <2>7 DEF Agree, There
  <2> QED
    BY <1>1, <1>2, <2>1, <2>2, <2>8, Writes
<1> QED
  BY <1>4, <1>5

(* Codes: a request inserts one where it has left none.                    *)
LEMMA CodesOK == ASSUME AInv, NEW r \in Requests, DeleteCodes(r) \/ InsertCode(r) PROVE AInv'
<1>1. /\ Active(r) /\ UNCHANGED <<rows, meant>> /\ req[r].op \in {"init", "forgot"}
      /\ req[r].pc \in {"delete", "insert"}
  BY DEF DeleteCodes, InsertCode, At, Active, AInv, Found
<1>2. PICK e \in Emails : req[r].e = e
  BY <1>1 DEF AInv, Found
<1>3. UNCHANGED <<user, profile, meant>>
  BY <1>1 DEF rows
<1>4. Agree(e)' /\ (There(e) => There(e)')
  BY <1>3 DEF AInv, Agree, There
<1>5. CASE DeleteCodes(r)
  <2>1. /\ Goto(r, "insert") /\ codes' = codes \ CodesOf(req[r].op, e)
    BY <1>2, <1>5 DEF DeleteCodes
  <2>2. /\ DOMAIN req' = Requests /\ \A q \in Requests \ {r} : req'[q] = req[q]
        /\ Fields(req'[r]) /\ req'[r].pc = "insert" /\ req'[r].e = e /\ req'[r].op = req[r].op
    BY <1>1, <1>2, <2>1, GotoStep
  <2>3. Shape' /\ OneCode'
    BY <1>3, <2>1, <2>2 DEF AInv, Shape, OneCode
  <2>4. \A x \in Emails \ {e} : \A op : CodesOf(op, x)' = CodesOf(op, x)
    BY <2>1 DEF CodesOf
  <2>5. {c \in codes' : c.type = req[r].op /\ c.e = e} = {}
    BY <2>1 DEF CodesOf
  <2>6. Found(r)'
    BY <1>1, <2>2, <2>5 DEF Found, Fields, CodesOf
  <2> QED
    BY <1>1, <1>2, <1>3, <1>4, <2>2, <2>3, <2>4, <2>6, OneSteps
<1>6. CASE InsertCode(r)
  <2>1. /\ Goto(r, "ended") /\ codes' = codes \cup {Code(req[r].op, e, r)}
        /\ CodesOf(req[r].op, e) = {}
    BY <1>1, <1>2, <1>6 DEF InsertCode, At, AInv, Found
  <2>2. /\ DOMAIN req' = Requests /\ \A q \in Requests \ {r} : req'[q] = req[q]
        /\ ~Active(r)'
    BY <1>1, <2>1, GotoStep
  <2>3. Shape'
    BY <1>3, <2>2 DEF AInv, Shape
  <2>4. OneCode'
    BY <2>1 DEF AInv, OneCode, CodesOf, Code
  <2>5. \A x \in Emails \ {e} : \A op : CodesOf(op, x)' = CodesOf(op, x)
    BY <2>1 DEF CodesOf, Code
  <2> QED
    BY <1>1, <1>2, <1>3, <1>4, <2>2, <2>3, <2>4, <2>5, OneSteps
<1> QED
  BY <1>5, <1>6

-----------------------------------------------------------------------------
LEMMA Stepwise == ASSUME Alone, AInv, [Next]_vars PROVE AInv'
<1>1. ASSUME NEW r \in Requests, Start(r) PROVE AInv'
  BY <1>1, StartOK
<1>2. ASSUME NEW r \in Requests, Continue(r) PROVE AInv'
  BY <1>2, LooksOn, KnownOK, PickNameOK, CreateOK, UserOK, SaveProfileOK, CodesOK DEF Continue
<1>3. CASE TenMinutesPass \/ UNCHANGED vars
  <2>1. UNCHANGED <<user, profile, codes, meant, req>>
    BY <1>3 DEF TenMinutesPass, vars, rows
  <2> QED
    BY <2>1 DEF AInv, Shape, OneCode, Lone, Active, Agree, There, Found, Fields, CodesOf
<1> QED
  BY <1>1, <1>2, <1>3 DEF Next

LEMMA Always == ASSUME Alone PROVE Spec => []AInv
<1>1. Init => AInv
  BY Initially
<1>2. AInv /\ [Next]_vars => AInv'
  BY Stepwise
<1> QED
  BY <1>1, <1>2, PTL DEF Spec

(* Every column holds what was last written into it on purpose, as long as *)
(* setBanStatus, updateProfile and validateGoogleProfile, which save a row *)
(* that they have read, have the account to themselves.                    *)
THEOREM ColumnsStand == ASSUME Alone PROVE Spec => []LastWriteStands
<1>1. AInv => LastWriteStands
  BY DEF AInv, Agree, LastWriteStands
<1> QED
  BY <1>1, Always, PTL

(* An address has at most one code of a type, as long as generateCode has  *)
(* the address to itself between deleting and inserting.                   *)
THEOREM CodeIsReplaced == ASSUME Alone PROVE Spec => []OneCodeEach
<1>1. ASSUME AInv PROVE OneCodeEach
  <2> SUFFICES ASSUME NEW e \in Emails, NEW op \in {"init", "forgot"}
               PROVE  Cardinality(CodesOf(op, e)) <= 1
    BY DEF OneCodeEach
  <2>1. \A c, d \in CodesOf(op, e) : c = d
    BY <1>1 DEF AInv, OneCode, CodesOf
  <2>2. CASE CodesOf(op, e) = {}
    BY <2>2, FS_EmptySet
  <2>3. CASE CodesOf(op, e) # {}
    <3>1. PICK c : CodesOf(op, e) = {c}
      BY <2>1, <2>3
    <3>2. Cardinality({c}) = 1
      BY FS_Singleton
    <3> QED
      BY <3>1, <3>2
  <2> QED
    BY <2>2, <2>3
<1>2. AInv => OneCodeEach
  BY <1>1
<1> QED
  BY <1>2, Always, PTL
=============================================================================
