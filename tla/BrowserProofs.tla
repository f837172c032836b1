--------------------------- MODULE BrowserProofs ---------------------------
(***************************************************************************)
(* Proofs about Browser, for any number of tabs, calls in flight and pairs *)
(* of tokens: whatever overlaps, is answered late, is lost or is left      *)
(* behind by a reload.                                                     *)
(*                                                                         *)
(* The invariant says of each call how far it can have come (CallOK), of   *)
(* each pair that an answer carries that no one has used it yet (FreshOK), *)
(* and of each tab which calls may still change it (TabOK).  With it, a    *)
(* call that is answered can be looked at by itself.                       *)
(***************************************************************************)
EXTENDS Browser, TLAPS

\* What the place of a call says about the rest of it; idle calls are all equal.
CallOK(k) ==
  /\ k.pc = "idle" => k = NoCall
  /\ k.pc = "me" => k.id # None /\ k.tab # None
  /\ k.pc \in {"sent", "valid"} => k.id = None
  /\ k.pc = "valid" => k.op = "boot" /\ k.sent # None
  /\ k.op = "logout" => k.id = None
  /\ k.op # "boot" => k.sent = None
  /\ k.op = "logout" => k.pc # "me"

\* Calls know issued pairs only.
Knows(k) ==
  /\ k.sent # None => owner[k.sent] # None
  /\ k.id # None => owner[k.id] # None

CallsOK == \A c \in Calls : CallOK(call[c]) /\ Knows(call[c])

\* An answer on its way with a pair.
Carries(k) == k.pc = "answered" /\ k.id # None

\* Such a pair is accepted, and nobody else has it.
FreshOK ==
  \A c \in Calls : Carries(call[c]) =>
    /\ call[c].id \in live
    /\ call[c].id # cookie
    /\ \A d \in Calls : call[d].sent # call[c].id /\ (d # c => call[d].id # call[c].id)

\* The answer that replaces the cookie is on its way.
Replaces(k, x) == Carries(k) /\ k.sent = x

CookieOK ==
  cookie # None /\ cookie \notin live => lost \/ \E c \in Calls : Replaces(call[c], cookie)

\* The calls of a tab: a restore excludes everything else, and, but for the tabs
\* of again, a login goes with no user shown and no other login.
Of(k, op, t) == k.op = op /\ k.tab = t

TabOK(t) ==
  /\ tab[t].booting => /\ tab[t].user = None
                       /\ \A c \in Calls : call[c].tab = t => call[c].op = "boot"
                       /\ \E c \in Calls : Of(call[c], "boot", t)
  /\ \A c \in Calls : Of(call[c], "boot", t) =>
       /\ tab[t].booting
       /\ call[c].pc = "me" => tab[t].token = call[c].id
       /\ \A d \in Calls : Of(call[d], "boot", t) => c = d
  /\ t \notin again =>
       /\ \A c \in Calls : Of(call[c], "login", t) =>
            /\ tab[t].user = None
            /\ \A d \in Calls : Of(call[d], "login", t) => c = d
       /\ tab[t].user # None => tab[t].token # None /\ owner[tab[t].token] = tab[t].user

TabsOK == \A t \in Tabs : TabOK(t)

\* After the logout: no cookie, and no call that could bring one.
Barren(k) == k.pc # "idle" /\ k.op # "logout" => k.op = "boot" /\ k.sent = None /\ k.id = None

SignedOutOK ==
  signedOut # None =>
    /\ cookie = None
    /\ \A c \in Calls : Barren(call[c])
    /\ \A t \in Tabs : tab[t].booting => tab[t].token = None

IInv == TypeOK /\ CallsOK /\ FreshOK /\ CookieOK /\ TabsOK /\ SignedOutOK

\* What no step does to owner: a pair, once issued, keeps its owner.
OwnerKept ==
  /\ owner' \in [Ids -> Ids \cup {None}]
  /\ \A i \in Ids : owner[i] # None => owner'[i] = owner[i]

-----------------------------------------------------------------------------
(***************************************************************************)
(* Steps of one call: it becomes k, and the others stay as they are.       *)
(***************************************************************************)
\* The value of every field.
LEMMA CallFields ==
  ASSUME NEW k \in Call
  PROVE  /\ k.pc \in {"idle", "sent", "valid", "answered", "me"}
         /\ k.op \in {"boot", "login", "logout"} /\ k.tab \in Tabs \cup {None}
         /\ k.sent \in Ids \cup {None} /\ k.id \in Ids \cup {None} /\ k.ok \in BOOLEAN
BY DEF Call

\* Calls, tabs and pairs that are not there.
LEMMA Blanks ==
  /\ None \notin Ids /\ None \notin Tabs /\ None \notin Calls
  /\ NoCall \in Call /\ CallOK(NoCall) /\ Blank \in Tab
BY NoneAssumption DEF NoCall, Call, CallOK, Blank, Tab

\* The calls after a step of one.
LEMMA Others ==
  ASSUME call \in [Calls -> Call], NEW c \in Calls, NEW k \in Call,
         call' = [call EXCEPT ![c] = k]
  PROVE  /\ call' \in [Calls -> Call]
         /\ call'[c] = k
         /\ \A d \in Calls : d # c => call'[d] = call[d]
OBVIOUS

\* Calls stay well-formed when k is.
LEMMA CallsStep ==
  ASSUME IInv, OwnerKept, NEW c \in Calls, NEW k \in Call, call' = [call EXCEPT ![c] = k],
         CallOK(k), Knows(k)'
  PROVE  CallsOK'
<1>1. call'[c] = k /\ \A d \in Calls : d # c => call'[d] = call[d]
  BY Others DEF IInv, TypeOK
<1>2. \A d \in Calls : d # c => Knows(call[d])'
  <2> SUFFICES ASSUME NEW d \in Calls, d # c PROVE Knows(call[d])'
    OBVIOUS
  <2>1. PICK q \in Call : q = call[d]
    BY DEF IInv, TypeOK
  <2>2. Knows(q) /\ call'[d] = q
    BY <1>1, <2>1 DEF IInv, CallsOK
  <2>3. Knows(q)'
    BY <2>2, CallFields DEF Knows, OwnerKept
  <2> QED
    BY <2>2, <2>3
<1>3. \A d \in Calls : CallOK(call'[d])
  BY <1>1 DEF IInv, CallsOK
<1> QED
  BY <1>1, <1>2, <1>3 DEF CallsOK

\* Pairs on their way stay fresh when k brings no new one and takes no one's.
LEMMA FreshKept ==
  ASSUME IInv, NEW c \in Calls, NEW k \in Call, call' = [call EXCEPT ![c] = k],
         k.sent \in {None, cookie, call[c].sent},
         k.id \in {None, call[c].id},
         Carries(k) => Carries(call[c]) /\ cookie' # k.id,
         cookie' \in {None, cookie, call[c].id},
         \A i \in live : i \notin live' => \E d \in Calls : call[d].sent = i
  PROVE  FreshOK'
<1>1. call'[c] = k /\ \A d \in Calls : d # c => call'[d] = call[d]
  BY Others DEF IInv, TypeOK
<1>2. FreshOK
  BY DEF IInv
<1> SUFFICES ASSUME NEW d \in Calls, Carries(call'[d])
             PROVE  /\ call'[d].id \in live'
                    /\ call'[d].id # cookie'
                    /\ \A e \in Calls : call'[e].sent # call'[d].id
                                        /\ (e # d => call'[e].id # call'[d].id)
  BY DEF FreshOK, Carries
<1>3. PICK i : i = call'[d].id
  OBVIOUS
<1>4. i # None /\ i = call[d].id /\ Carries(call[d])
  BY <1>1, <1>3 DEF Carries
<1>5. /\ i \in live /\ i # cookie
      /\ \A e \in Calls : call[e].sent # i /\ (e # d => call[e].id # i)
  BY <1>2, <1>4 DEF FreshOK
<1>6. i \in live'
  BY <1>5
<1>7. i # cookie'
  BY <1>1, <1>3, <1>4, <1>5
<1>8. ASSUME NEW e \in Calls PROVE call'[e].sent # i /\ (e # d => call'[e].id # i)
  BY <1>1, <1>4, <1>5
<1> QED
  BY <1>3, <1>6, <1>7, <1>8

\* And when the one it brings has just been issued.
LEMMA FreshNew ==
  ASSUME IInv, NEW c \in Calls, NEW k \in Call, call' = [call EXCEPT ![c] = k],
         NEW i \in Ids, owner[i] = None, i \in live', k.id \in {i, None},
         k.sent = call[c].sent, ~Carries(call[c]), UNCHANGED cookie,
         \A j \in live : j \notin live' => \E d \in Calls : call[d].sent = j
  PROVE  FreshOK'
<1>1. call'[c] = k /\ \A d \in Calls : d # c => call'[d] = call[d]
  BY Others DEF IInv, TypeOK
<1>2. FreshOK /\ CallsOK /\ call \in [Calls -> Call]
  BY DEF IInv, TypeOK
<1>3. i # None /\ cookie # i
  BY Blanks DEF IInv, TypeOK
<1>4. \A d \in Calls : call[d].sent # i /\ call[d].id # i
  BY <1>2, <1>3 DEF CallsOK, Knows
<1> SUFFICES ASSUME NEW d \in Calls, Carries(call'[d])
             PROVE  /\ call'[d].id \in live'
                    /\ call'[d].id # cookie'
                    /\ \A e \in Calls : call'[e].sent # call'[d].id
                                        /\ (e # d => call'[e].id # call'[d].id)
  BY DEF FreshOK, Carries
<1>5. CASE d = c
  <2>1. call'[d].id = i
    BY <1>1, <1>5 DEF Carries
  <2>2. ASSUME NEW e \in Calls PROVE call'[e].sent # i /\ (e # d => call'[e].id # i)
    BY <1>1, <1>4, <1>5
  <2> QED
    BY <1>3, <2>1, <2>2
<1>6. CASE d # c
  <2>1. PICK j : j = call[d].id
    OBVIOUS
  <2>2. /\ call'[d] = call[d] /\ Carries(call[d]) /\ j # None /\ j # i
        /\ j \in live /\ j # cookie
        /\ \A e \in Calls : call[e].sent # j /\ (e # d => call[e].id # j)
    BY <1>1, <1>2, <1>4, <1>6, <2>1 DEF FreshOK, Carries
  <2>3. ASSUME NEW e \in Calls PROVE call'[e].sent # j /\ (e # d => call'[e].id # j)
    BY <1>1, <2>2
  <2> QED
    BY <2>1, <2>2, <2>3
<1> QED
  BY <1>5, <1>6

\* The jar is kept when the call was not about to replace its token and the
\* token stays, or k is about to.
LEMMA CookieKept ==
  ASSUME IInv, NEW c \in Calls, NEW k \in Call, call' = [call EXCEPT ![c] = k],
         UNCHANGED cookie, lost => lost', ~Replaces(call[c], cookie),
         cookie \in live => cookie \in live' \/ lost' \/ Replaces(k, cookie)
  PROVE  CookieOK'
<1>1. call'[c] = k /\ \A d \in Calls : d # c => call'[d] = call[d]
  BY Others DEF IInv, TypeOK
<1>2. CookieOK
  BY DEF IInv
<1> SUFFICES ASSUME cookie # None, cookie \notin live', ~lost'
             PROVE  \E d \in Calls : Replaces(call'[d], cookie)
  BY DEF CookieOK, Replaces, Carries
<1>3. CASE cookie \in live
  BY <1>1, <1>3
<1>4. CASE cookie \notin live
  <2>1. PICK d \in Calls : Replaces(call[d], cookie)
    BY <1>2, <1>4 DEF CookieOK
  <2>2. d # c
    BY <2>1
  <2> QED
    BY <1>1, <2>1, <2>2
<1> QED
  BY <1>3, <1>4

\* Tabs do not notice what the server does.
LEMMA TabsServed ==
  ASSUME IInv, OwnerKept, NEW c \in Calls, NEW k \in Call, call' = [call EXCEPT ![c] = k],
         UNCHANGED <<tab, again>>, k.tab = call[c].tab, k.op = call[c].op, k.pc # "me"
  PROVE  TabsOK'
<1>1. call'[c] = k /\ \A d \in Calls : d # c => call'[d] = call[d]
  BY Others DEF IInv, TypeOK
<1>2. \A d \in Calls : /\ call'[d].tab = call[d].tab /\ call'[d].op = call[d].op
                       /\ call'[d].pc = "me" => call'[d] = call[d]
  BY <1>1
<1> SUFFICES ASSUME NEW t \in Tabs PROVE TabOK(t)'
  BY DEF TabsOK
<1>3. TabOK(t)
  BY DEF IInv, TabsOK
<1>4. PICK x \in Tab : x = tab[t]
  BY DEF IInv, TypeOK
<1>5. x.user # None /\ t \notin again => owner'[x.token] = x.user /\ x.token # None
  <2>1. x.token \in Ids \cup {None}
    BY DEF Tab
  <2> QED
    BY <1>3, <1>4, <2>1 DEF TabOK, OwnerKept
<1> QED
  BY <1>2, <1>3, <1>4, <1>5 DEF TabOK, Of

\* Nor do other tabs what happens to one, or to its call.
LEMMA OtherTabs ==
  ASSUME IInv, OwnerKept, NEW c \in Calls, NEW k \in Call, call' = [call EXCEPT ![c] = k],
         NEW t, NEW x, tab' = [tab EXCEPT ![t] = x],
         call[c].tab \in {t, None}, k.tab \in {t, None},
         NEW u \in Tabs, u # t, u \in again <=> u \in again'
  PROVE  TabOK(u)'
<1>1. call'[c] = k /\ \A d \in Calls : d # c => call'[d] = call[d]
  BY Others DEF IInv, TypeOK
<1>2. tab'[u] = tab[u] /\ u # None
  BY Blanks DEF IInv, TypeOK
<1>3. \A d \in Calls : \/ call'[d] = call[d]
                       \/ call[d].tab # u /\ call'[d].tab # u
  BY <1>1, <1>2
<1>4. TabOK(u)
  BY DEF IInv, TabsOK
<1>5. PICK y \in Tab : y = tab[u]
  BY DEF IInv, TypeOK
<1>6. y.user # None /\ u \notin again => owner'[y.token] = y.user /\ y.token # None
  <2>1. y.token \in Ids \cup {None}
    BY DEF Tab
  <2> QED
    BY <1>4, <1>5, <2>1 DEF TabOK, OwnerKept
<1> QED
  BY <1>2, <1>3, <1>4, <1>5, <1>6 DEF TabOK, Of

\* After a logout no call brings a cookie, when k does not.
LEMMA SignedOutKept ==
  ASSUME IInv, NEW c \in Calls, NEW k \in Call, call' = [call EXCEPT ![c] = k],
         UNCHANGED <<tab, signedOut>>, signedOut # None => Barren(k) /\ cookie' = None
  PROVE  SignedOutOK'
<1>1. call'[c] = k /\ \A d \in Calls : d # c => call'[d] = call[d]
  BY Others DEF IInv, TypeOK
<1> QED
  BY <1>1 DEF IInv, SignedOutOK, Barren

-----------------------------------------------------------------------------
(***************************************************************************)
(* The steps of the server.                                                *)
(***************************************************************************)
\* What holds of one call.
LEMMA CallFacts ==
  ASSUME IInv, NEW c \in Calls
  PROVE  /\ call[c] \in Call /\ CallOK(call[c]) /\ Knows(call[c])
         /\ call \in [Calls -> Call] /\ owner \in [Ids -> Ids \cup {None}]
         /\ live \subseteq Ids /\ cookie \in Ids \cup {None}
BY DEF IInv, TypeOK, CallsOK

\* A new pair changes the owner of nothing that is issued.
LEMMA NewPairKept ==
  ASSUME IInv, NEW i \in Ids, NEW u \in Ids \cup {None}, NewPair(i, u)
  PROVE  /\ OwnerKept /\ owner'[i] = u
         /\ \A j \in Ids : j # i => owner'[j] = owner[j]
BY DEF IInv, TypeOK, NewPair, OwnerKept

\* A step of the server on one call: what it issues, and to whom, what it
\* deletes, and what it answers.
LEMMA ServeStep ==
  ASSUME IInv, NEW c \in Calls, NEW k \in Call, call' = [call EXCEPT ![c] = k],
         UNCHANGED <<cookie, again, signedOut, tab>>,
         OwnerKept, live' \subseteq {i \in Ids : owner'[i] # None},
         lost' \in BOOLEAN, lost => lost',
         call[c].pc \in {"sent", "valid"}, k.pc # "me", k.pc # "idle",
         k.tab = call[c].tab, k.op = call[c].op, k.sent = call[c].sent,
         CallOK(k), FreshOK', Knows(k)',
         signedOut # None => Barren(k),
         cookie \in live => cookie \in live' \/ lost' \/ Replaces(k, cookie)
  PROVE  IInv'
<1>1. CallsOK' /\ TabsOK'
  BY CallsStep, TabsServed
<1>2. CookieOK'
  BY CookieKept DEF Replaces, Carries
<1>3. SignedOutOK'
  <2>1. signedOut # None => cookie' = None
    BY DEF IInv, SignedOutOK
  <2> QED
    BY <2>1, SignedOutKept
<1>4. TypeOK'
  <2>1. cookie' # None => owner'[cookie'] # None
    BY DEF IInv, TypeOK, OwnerKept
  <2> QED
    BY <2>1, Others DEF IInv, TypeOK, OwnerKept
<1> QED
  BY <1>1, <1>2, <1>3, <1>4 DEF IInv

\* Login issues a pair, answered or not, or fails.
LEMMA ServeLoginInv ==
  ASSUME IInv, NEW c \in Calls, ServeLogin(c)
  PROVE  IInv'
<1> DEFINE K(i) == [call[c] EXCEPT !.pc = "answered", !.id = i]
<1>1. /\ call[c] \in Call /\ CallOK(call[c]) /\ Knows(call[c])
      /\ call[c].pc = "sent" /\ call[c].op = "login" /\ call[c].sent = None /\ call[c].id = None
  BY CallFacts DEF ServeLogin, CallOK
<1>2. \A i : Answers(c, i) => call' = [call EXCEPT ![c] = K(i)]
  BY CallFacts DEF Answers
<1>3. ASSUME NEW i \in Ids \cup {None}
      PROVE  /\ K(i) \in Call /\ K(i).tab = call[c].tab /\ K(i).op = "login"
             /\ K(i).sent = None /\ K(i).id = i /\ K(i).pc = "answered" /\ CallOK(K(i))
  BY <1>1 DEF Call, CallOK
<1> HIDE DEF K
<1>4. signedOut = None
  BY <1>1 DEF IInv, SignedOutOK, Barren
<1>5. UNCHANGED <<cookie, lost, again, signedOut, tab>>
  BY DEF ServeLogin, jar
<1>6. lost \in BOOLEAN /\ live \subseteq {i \in Ids : owner[i] # None}
  BY DEF IInv, TypeOK
<1>7. ASSUME NEW i \in Ids, NewPair(i, i), live' = live \cup {i},
             NEW a \in {i, None}, Answers(c, a)
      PROVE  IInv'
  <2>1. PICK k \in Call :
           /\ k = K(a) /\ k.tab = call[c].tab /\ k.op = "login" /\ k.sent = None /\ k.id = a
           /\ k.pc = "answered" /\ CallOK(k)
    BY <1>3
  <2>2. i # None
    BY Blanks
  <2>3. OwnerKept /\ owner'[i] = i
    BY <1>7, NewPairKept
  <2>4. Knows(k)'
    BY <1>3, <2>1, <2>2, <2>3 DEF Knows
  <2>5. call' = [call EXCEPT ![c] = k]
    BY <1>2, <1>7, <2>1
  <2>6. FreshOK'
    <3>1. owner[i] = None
      BY <1>7 DEF NewPair
    <3>2. ~Carries(call[c])
      BY <1>1 DEF Carries
    <3>3. k.id \in {i, None} /\ k.sent = call[c].sent /\ UNCHANGED cookie
      BY <1>1, <1>5, <2>1
    <3>4. i \in live' /\ \A j \in live : j \in live'
      BY <1>7
    <3> QED
      BY <2>5, <3>1, <3>2, <3>3, <3>4, FreshNew
  <2>7. live' \subseteq {j \in Ids : owner'[j] # None}
    BY <1>6, <1>7, <2>2, <2>3 DEF OwnerKept
  <2>8. k.tab = call[c].tab /\ k.op = call[c].op /\ k.sent = call[c].sent /\ k.pc = "answered"
    BY <1>1, <2>1
  <2>9. cookie \in live => cookie \in live'
    BY <1>7
  <2> QED
    BY <1>1, <1>4, <1>5, <1>6, <2>1, <2>3, <2>4, <2>5, <2>6, <2>7, <2>8, <2>9, ServeStep
<1>8. ASSUME Answers(c, None), UNCHANGED <<live, owner>>
      PROVE  IInv'
  <2>1. PICK k \in Call : k = K(None)
    BY <1>3
  <2>2. OwnerKept
    BY <1>8, CallFacts DEF OwnerKept
  <2>3. Knows(k)'
    BY <1>3, <2>1 DEF Knows
  <2>4. call' = [call EXCEPT ![c] = k]
    BY <1>2, <1>8, <2>1
  <2>5. FreshOK'
    BY <1>3, <1>5, <1>8, <2>1, <2>4, FreshKept DEF Carries
  <2> QED
    BY <1>1, <1>3, <1>4, <1>5, <1>6, <1>8, <2>1, <2>2, <2>3, <2>4, <2>5, ServeStep
<1> QED
  BY <1>7, <1>8 DEF ServeLogin

\* The look-up of the refresh token.
LEMMA ServeRefreshInv ==
  ASSUME IInv, NEW c \in Calls, ServeRefresh(c)
  PROVE  IInv'
<1>1. /\ call[c] \in Call /\ CallOK(call[c]) /\ Knows(call[c])
      /\ call[c].pc = "sent" /\ call[c].op = "boot" /\ call[c].id = None
  BY CallFacts DEF ServeRefresh, CallOK
<1>2. UNCHANGED <<cookie, lost, again, signedOut, tab, live, owner>>
  BY DEF ServeRefresh, jar, server
<1>3. PICK k : /\ call' = [call EXCEPT ![c] = k]
               /\ \/ call[c].sent \in live /\ k = [call[c] EXCEPT !.pc = "valid"]
                  \/ k = [call[c] EXCEPT !.pc = "answered", !.id = None]
  BY CallFacts DEF ServeRefresh, Goto, Answers
<1>4. live \subseteq Ids /\ None \notin Ids
  BY CallFacts, Blanks
<1>5. /\ k \in Call /\ k.tab = call[c].tab /\ k.op = "boot" /\ k.sent = call[c].sent
      /\ k.id = None /\ k.pc \in {"valid", "answered"}
  BY <1>1, <1>3 DEF Call
<1>6. k.pc = "valid" => k.sent \in live
  BY <1>1, <1>3 DEF Call
<1>7. CallOK(k)
  BY <1>4, <1>5, <1>6 DEF CallOK
<1>8. OwnerKept
  BY <1>2, CallFacts DEF OwnerKept
<1>9. Knows(k)'
  BY <1>1, <1>2, <1>5 DEF Knows
<1>10. FreshOK'
  BY <1>2, <1>3, <1>5, FreshKept DEF Carries
<1>11. signedOut # None => Barren(k)
  BY <1>1, <1>5 DEF IInv, SignedOutOK, Barren
<1>12. lost \in BOOLEAN /\ live \subseteq {i \in Ids : owner[i] # None}
  BY DEF IInv, TypeOK
<1> QED
  BY <1>1, <1>2, <1>3, <1>5, <1>7, <1>8, <1>9, <1>10, <1>11, <1>12, ServeStep

\* The rotation: the old token is gone, and the answer has the new one, or is lost.
LEMMA RotateInv ==
  ASSUME IInv, NEW c \in Calls, Rotate(c)
  PROVE  IInv'
<1> DEFINE K(i) == [call[c] EXCEPT !.pc = "answered", !.id = i]
<1>1. /\ call[c] \in Call /\ CallOK(call[c]) /\ Knows(call[c])
      /\ call[c].pc = "valid" /\ call[c].op = "boot" /\ call[c].sent # None
      /\ call[c].id = None
  BY CallFacts DEF Rotate, CallOK
<1>2. PICK old \in Ids : old = call[c].sent
  BY <1>1, CallFields
<1>3. owner[old] \in Ids /\ owner[old] # None
  BY <1>1, <1>2, Blanks, CallFacts DEF Knows
<1>4. ASSUME NEW i \in Ids \cup {None}
      PROVE  /\ K(i) \in Call /\ K(i).tab = call[c].tab /\ K(i).op = "boot"
             /\ K(i).sent = old /\ K(i).id = i /\ K(i).pc = "answered" /\ CallOK(K(i))
  BY <1>1, <1>2 DEF Call, CallOK
<1>5. \A i : Answers(c, i) => call' = [call EXCEPT ![c] = K(i)]
  BY CallFacts DEF Answers
<1> HIDE DEF K
<1>6. signedOut = None
  BY <1>1 DEF IInv, SignedOutOK, Barren
<1>7. UNCHANGED <<cookie, again, signedOut, tab>>
  BY DEF Rotate
<1>8. lost \in BOOLEAN /\ live \subseteq {i \in Ids : owner[i] # None}
  BY DEF IInv, TypeOK
<1>9. ASSUME NEW i \in Ids, NewPair(i, owner[old]), live' = (live \ {old}) \cup {i},
             NEW a \in {i, None}, Answers(c, a), lost' \in BOOLEAN, lost => lost',
             a = None => lost'
      PROVE  IInv'
  <2>1. PICK k \in Call :
           /\ k = K(a) /\ k.tab = call[c].tab /\ k.op = "boot" /\ k.sent = old /\ k.id = a
           /\ k.pc = "answered" /\ CallOK(k)
    BY <1>4
  <2>2. i # None /\ owner[i] = None
    BY <1>9, Blanks DEF NewPair
  <2>3. OwnerKept /\ owner'[i] # None
    BY <1>3, <1>9, NewPairKept
  <2>4. Knows(k)'
    BY <1>3, <1>4, <2>1, <2>2, <2>3 DEF Knows, OwnerKept
  <2>5. call' = [call EXCEPT ![c] = k]
    BY <1>5, <1>9, <2>1
  <2>6. FreshOK'
    <3>1. ~Carries(call[c])
      BY <1>1 DEF Carries
    <3>2. k.id \in {i, None} /\ k.sent = call[c].sent /\ UNCHANGED cookie
      BY <1>2, <1>7, <2>1
    <3>3. i \in live' /\ \A j \in live : j \notin live' => call[c].sent = j
      BY <1>2, <1>9
    <3> QED
      BY <2>2, <2>5, <3>1, <3>2, <3>3, FreshNew
  <2>7. live' \subseteq {j \in Ids : owner'[j] # None}
    BY <1>8, <1>9, <2>3 DEF OwnerKept
  <2>8. cookie \in live => cookie \in live' \/ lost' \/ Replaces(k, cookie)
    BY <1>4, <1>9, <2>1, <2>2 DEF Replaces, Carries
  <2>9. k.tab = call[c].tab /\ k.op = call[c].op /\ k.sent = call[c].sent /\ k.pc = "answered"
    BY <1>1, <1>2, <2>1
  <2>10. lost' \in BOOLEAN /\ (lost => lost')
    BY <1>9
  <2> QED
    BY <1>1, <1>6, <1>7, <2>1, <2>3, <2>4, <2>5, <2>6, <2>7, <2>8, <2>9, <2>10, ServeStep
<1>10. ASSUME Answers(c, None), live' \in {live, live \ {old}}, lost' = (lost \/ live' # live),
              UNCHANGED owner
       PROVE  IInv'
  <2>1. PICK k \in Call : k = K(None)
    BY <1>4
  <2>2. OwnerKept
    BY <1>10, CallFacts DEF OwnerKept
  <2>3. Knows(k)'
    BY <1>3, <1>4, <1>10, <2>1 DEF Knows
  <2>4. call' = [call EXCEPT ![c] = k]
    BY <1>5, <1>10, <2>1
  <2>5. FreshOK'
    BY <1>2, <1>4, <1>7, <1>10, <2>1, <2>4, FreshKept DEF Carries
  <2>6. live' \subseteq {j \in Ids : owner'[j] # None}
    BY <1>8, <1>10
  <2>7. lost' \in BOOLEAN /\ (lost => lost')
    BY <1>8, <1>10
  <2>8. cookie \in live => cookie \in live' \/ lost'
    BY <1>10
  <2> QED
    BY <1>1, <1>2, <1>4, <1>6, <1>7, <2>1, <2>2, <2>3, <2>4, <2>5, <2>6, <2>7, <2>8, ServeStep
<1> QED
  <2>1. ASSUME NEW i \in Ids, NewPair(i, owner[old]), live' = (live \ {old}) \cup {i},
               \/ Answers(c, i) /\ UNCHANGED lost
               \/ Answers(c, None) /\ lost' = TRUE
        PROVE  IInv'
    <3>1. CASE Answers(c, i) /\ UNCHANGED lost
      <4>1. i # None /\ lost' \in BOOLEAN /\ (lost => lost')
        BY <1>8, <3>1, Blanks
      <4> QED
        BY <1>9, <2>1, <3>1, <4>1
    <3>2. CASE Answers(c, None) /\ lost' = TRUE
      BY <1>9, <2>1, <3>2
    <3> QED
      BY <2>1, <3>1, <3>2
  <2> QED
    BY <1>2, <1>10, <2>1 DEF Rotate

\* The cookie does not go with the logout request, so nothing is deleted.
LEMMA ServeLogoutInv ==
  ASSUME IInv, NEW c \in Calls, ServeLogout(c)
  PROVE  IInv'
<1>1. /\ call[c] \in Call /\ CallOK(call[c]) /\ Knows(call[c])
      /\ call[c].pc = "sent" /\ call[c].op = "logout" /\ call[c].id = None
      /\ call[c].sent = None
  BY CallFacts DEF ServeLogout, CallOK
<1>2. UNCHANGED <<cookie, lost, again, signedOut, tab, owner>>
  BY DEF ServeLogout, jar
<1>3. live' = live
  BY <1>1, CallFacts, Blanks DEF ServeLogout
<1>4. PICK ok \in BOOLEAN : call' = [call EXCEPT ![c].pc = "answered", ![c].ok = ok]
  BY DEF ServeLogout
<1>5. PICK k : k = [call[c] EXCEPT !.pc = "answered", !.ok = ok]
  OBVIOUS
<1>6. call' = [call EXCEPT ![c] = k]
  BY <1>4, <1>5, CallFacts
<1>7. /\ k \in Call /\ k.tab = call[c].tab /\ k.op = "logout" /\ k.sent = None
      /\ k.id = None /\ k.pc = "answered"
  BY <1>1, <1>5 DEF Call
<1>8. CallOK(k) /\ Knows(k)'
  BY <1>7 DEF CallOK, Knows
<1>9. OwnerKept
  BY <1>2, CallFacts DEF OwnerKept
<1>10. FreshOK'
  BY <1>2, <1>3, <1>6, <1>7, FreshKept DEF Carries
<1>11. Barren(k)
  BY <1>7 DEF Barren
<1>12. lost \in BOOLEAN /\ live \subseteq {i \in Ids : owner[i] # None}
  BY DEF IInv, TypeOK
<1> QED
  BY <1>1, <1>2, <1>3, <1>6, <1>7, <1>8, <1>9, <1>10, <1>11, <1>12, ServeStep

-----------------------------------------------------------------------------
(***************************************************************************)
(* The steps of the tabs.                                                  *)
(***************************************************************************)
\* A call that a tab waits for is in flight.
LEMMA Waiting ==
  ASSUME IInv, NEW t \in Tabs, NEW c \in Calls, call[c].tab = t
  PROVE  InFlight(c)
BY CallFacts, Blanks DEF InFlight, CallOK, NoCall

\* A tab's restore keeps its other calls away.
LEMMA Restoring ==
  ASSUME IInv, NEW t \in Tabs, NEW c \in Calls, call[c].tab = t
  PROVE  /\ call[c].op = "boot" =>
              /\ tab[t].booting /\ tab[t].user = None
              /\ \A d \in Calls : call[d].tab = t => d = c
         /\ call[c].op # "boot" =>
              /\ ~tab[t].booting
              /\ \A d \in Calls : call[d].tab = t => call[d].op # "boot"
BY DEF IInv, TabsOK, TabOK, Of

\* A step of tab t and of its call c.
LEMMA ClientStep ==
  ASSUME IInv, UNCHANGED server, NEW c \in Calls, NEW k \in Call,
         call' = [call EXCEPT ![c] = k],
         NEW t \in Tabs, NEW x \in Tab, tab' = [tab EXCEPT ![t] = x],
         call[c].tab \in {t, None}, k.tab \in {t, None},
         \A u \in Tabs : u # t => (u \in again <=> u \in again'), again' \subseteq Tabs,
         CallOK(k), Knows(k),
         cookie' \in {cookie, None, call[c].id}, lost' \in BOOLEAN,
         signedOut' \in Ids \cup {None},
         FreshOK', CookieOK', TabOK(t)', SignedOutOK'
  PROVE  IInv'
<1>1. OwnerKept /\ Knows(k)'
  BY CallFacts DEF OwnerKept, server, Knows
<1>2. CallsOK'
  BY <1>1, CallsStep
<1>3. TabsOK'
  BY <1>1, OtherTabs DEF TabsOK
<1>4. TypeOK'
  <2>1. cookie' \in Ids \cup {None} /\ (cookie' # None => owner[cookie'] # None)
    BY CallFacts, CallFields DEF IInv, TypeOK, Knows
  <2>2. call' \in [Calls -> Call] /\ tab' \in [Tabs -> Tab]
    BY Others DEF IInv, TypeOK
  <2> QED
    BY <2>1, <2>2 DEF IInv, TypeOK, server
<1> QED
  BY <1>2, <1>3, <1>4 DEF IInv

\* The tab after the step, in what its invariant reads.
LEMMA ThisTab ==
  ASSUME IInv, UNCHANGED owner, NEW c \in Calls, NEW k \in Call,
         call' = [call EXCEPT ![c] = k],
         NEW t \in Tabs, NEW x \in Tab, tab' = [tab EXCEPT ![t] = x],
         x.booting => /\ x.user = None
                      /\ k.tab = t => k.op = "boot"
                      /\ \A d \in Calls \ {c} : call[d].tab = t => call[d].op = "boot"
                      /\ \/ Of(k, "boot", t)
                         \/ \E d \in Calls \ {c} : Of(call[d], "boot", t),
         Of(k, "boot", t) => /\ x.booting
                             /\ k.pc = "me" => x.token = k.id
                             /\ \A d \in Calls \ {c} : ~Of(call[d], "boot", t),
         \A d \in Calls \ {c} : Of(call[d], "boot", t) =>
           x.booting /\ x.token = tab[t].token,
         t \notin again' =>
           /\ \/ Of(k, "login", t)
              \/ \E d \in Calls \ {c} : Of(call[d], "login", t)
              => x.user = None
           /\ Of(k, "login", t) => \A d \in Calls \ {c} : ~Of(call[d], "login", t)
           /\ t \in again => \A d \in Calls \ {c} : ~Of(call[d], "login", t)
           /\ x.user # None => x.token # None /\ owner[x.token] = x.user
  PROVE  TabOK(t)'
<1>1. call'[c] = k /\ \A d \in Calls : d # c => call'[d] = call[d]
  BY Others DEF IInv, TypeOK
<1>2. tab'[t] = x
  BY DEF IInv, TypeOK
<1>3. TabOK(t)
  BY DEF IInv, TabsOK
<1>4. x.booting => /\ x.user = None
                   /\ \A d \in Calls : call'[d].tab = t => call'[d].op = "boot"
                   /\ \E d \in Calls : Of(call'[d], "boot", t)
  BY <1>1
<1>5. ASSUME NEW d \in Calls, Of(call'[d], "boot", t)
      PROVE  /\ x.booting
             /\ call'[d].pc = "me" => x.token = call'[d].id
             /\ \A e \in Calls : Of(call'[e], "boot", t) => d = e
  <2>1. CASE d = c
    BY <1>1, <1>5, <2>1
  <2>2. CASE d # c
    BY <1>1, <1>3, <1>5, <2>2 DEF TabOK
  <2> QED
    BY <2>1, <2>2
<1>6. ASSUME t \notin again', NEW d \in Calls, Of(call'[d], "login", t)
      PROVE  /\ x.user = None
             /\ \A e \in Calls : Of(call'[e], "login", t) => d = e
  <2>1. CASE d = c
    BY <1>1, <1>6, <2>1
  <2>2. CASE d # c
    BY <1>1, <1>3, <1>6, <2>2 DEF TabOK
  <2> QED
    BY <2>1, <2>2
<1> QED
  BY <1>2, <1>4, <1>5, <1>6 DEF TabOK, Of

\* The logout is not undone by a step of tab t.
LEMMA StillSignedOut ==
  ASSUME IInv, NEW c \in Calls, NEW k \in Call, call' = [call EXCEPT ![c] = k],
         NEW t \in Tabs, NEW x \in Tab, tab' = [tab EXCEPT ![t] = x], UNCHANGED signedOut,
         signedOut # None => Barren(k) /\ cookie' = None /\ (x.booting => x.token = None)
  PROVE  SignedOutOK'
<1>1. call'[c] = k /\ \A d \in Calls : d # c => call'[d] = call[d]
  BY Others DEF IInv, TypeOK
<1>2. tab'[t] = x /\ \A u \in Tabs : u # t => tab'[u] = tab[u]
  BY DEF IInv, TypeOK
<1> QED
  BY <1>1, <1>2 DEF IInv, SignedOutOK, Barren

\* What the pages write to a tab.
LEMMA Patched ==
  ASSUME NEW y \in Tab
  PROVE  /\ \A b \in BOOLEAN :
              LET x == [y EXCEPT !.form = None, !.timer = b]
              IN  x \in Tab /\ x.booting = y.booting /\ x.token = y.token /\ x.user = y.user
         /\ \A f \in Calls \cup {None} :
              LET x == [y EXCEPT !.timer = FALSE, !.page = "login", !.form = f]
              IN  x \in Tab /\ x.booting = y.booting /\ x.token = y.token /\ x.user = y.user
         /\ LET x == [y EXCEPT !.page = "home", !.form = None]
            IN  x \in Tab /\ x.booting = y.booting /\ x.token = y.token /\ x.user = y.user
BY DEF Tab

\* Going from page to page changes nothing that matters to calls.
LEMMA PageInv ==
  ASSUME IInv, NEW t \in Tabs, GoRegister(t) \/ RegisterTimer(t) \/ GoHome(t)
  PROVE  IInv'
<1>1. UNCHANGED <<cookie, lost, again, signedOut, live, owner, call>>
  BY DEF GoRegister, RegisterTimer, GoHome, jar, server
<1>2. tab[t] \in Tab /\ tab \in [Tabs -> Tab]
  BY DEF IInv, TypeOK
<1>3. PICK x \in Tab : /\ tab' = [tab EXCEPT ![t] = x]
                       /\ x.booting = tab[t].booting /\ x.token = tab[t].token
                       /\ x.user = tab[t].user
  <2>1. PICK y \in Tab : y = tab[t]
    BY <1>2
  <2>2. CASE GoRegister(t)
    <3>1. PICK b \in BOOLEAN : tab' = [tab EXCEPT ![t].form = None, ![t].timer = b]
      BY <2>2 DEF GoRegister
    <3>2. tab' = [tab EXCEPT ![t] = [y EXCEPT !.form = None, !.timer = b]]
      BY <1>2, <2>1, <3>1
    <3> QED
      BY <2>1, <3>2, Patched
  <2>3. CASE RegisterTimer(t)
    <3>1. PICK f \in Calls \cup {None} :
             tab' = [tab EXCEPT ![t].timer = FALSE, ![t].page = "login", ![t].form = f]
      BY <1>2, <2>3 DEF RegisterTimer, Tab
    <3>2. tab' = [tab EXCEPT ![t] = [y EXCEPT !.timer = FALSE, !.page = "login", !.form = f]]
      BY <1>2, <2>1, <3>1
    <3>3. PICK x : x = [y EXCEPT !.timer = FALSE, !.page = "login", !.form = f]
      OBVIOUS
    <3>4. x \in Tab /\ x.booting = y.booting /\ x.token = y.token /\ x.user = y.user
      BY <3>3, Patched
    <3> QED
      BY <2>1, <3>2, <3>3, <3>4
  <2>4. CASE GoHome(t)
    <3>1. tab' = [tab EXCEPT ![t] = [y EXCEPT !.page = "home", !.form = None]]
      BY <1>2, <2>1, <2>4 DEF GoHome
    <3> QED
      BY <2>1, <3>1, Patched
  <2> QED
    BY <2>2, <2>3, <2>4
<1>4. TypeOK'
  BY <1>1, <1>2, <1>3 DEF IInv, TypeOK
<1>5. \A u \in Tabs : /\ tab'[u].booting = tab[u].booting
                      /\ tab'[u].token = tab[u].token
                      /\ tab'[u].user = tab[u].user
  BY <1>2, <1>3
<1>6. CallsOK' /\ FreshOK' /\ CookieOK' /\ SignedOutOK'
  BY <1>1, <1>5 DEF IInv, CallsOK, Knows, FreshOK, CookieOK, SignedOutOK
<1>7. TabsOK'
  BY <1>1, <1>5 DEF IInv, TabsOK, TabOK
<1> QED
  BY <1>4, <1>6, <1>7 DEF IInv

\* The login form.
LEMMA LoginSubmitInv ==
  ASSUME IInv, NEW t \in Tabs, NEW c \in Calls, LoginSubmit(t, c)
  PROVE  IInv'
<1>1. PICK k : k = [NoCall EXCEPT !.pc = "sent", !.op = "login", !.tab = t,
                                  !.sent = CookieFor("login")]
  OBVIOUS
<1>2. k = [pc |-> "sent", op |-> "login", tab |-> t, sent |-> None, id |-> None, ok |-> FALSE]
  BY <1>1 DEF NoCall, CookieFor
<1>3. k \in Call /\ CallOK(k) /\ Knows(k) /\ ~Carries(k)
  BY <1>2 DEF Call, CallOK, Knows, Carries
<1>4. call' = [call EXCEPT ![c] = k] /\ call[c] = NoCall
  BY <1>1, CallFacts DEF LoginSubmit, InFlight, CallOK
<1>5. call[c].tab = None /\ ~Carries(call[c])
  BY <1>4 DEF NoCall, Carries
<1>6. UNCHANGED <<server, cookie, lost>> /\ signedOut' = None
  BY DEF LoginSubmit
<1>7. PICK x : x = [tab[t] EXCEPT !.form = c]
  OBVIOUS
<1>8. tab[t] \in Tab
  BY DEF IInv, TypeOK
<1>9. /\ x \in Tab /\ x.booting = tab[t].booting /\ x.user = tab[t].user
      /\ x.token = tab[t].token
  BY <1>7, <1>8 DEF Tab
<1>10. tab' = [tab EXCEPT ![t] = x] /\ ~tab[t].booting
  BY <1>7 DEF LoginSubmit, IInv, TypeOK
<1>11. again' = IF LoginCalls(t) # {} \/ tab[t].user # None THEN again \cup {t} ELSE again
  BY DEF LoginSubmit
<1>12. t \notin again' =>
         t \notin again /\ tab[t].user = None /\ \A d \in Calls : ~Of(call[d], "login", t)
  BY <1>11, Waiting DEF LoginCalls, Of
<1>13. again' \subseteq Tabs /\ \A u \in Tabs : u # t => (u \in again <=> u \in again')
  BY <1>11 DEF IInv, TypeOK
<1>14. \A d \in Calls : ~Of(call[d], "boot", t)
  BY <1>10, Restoring DEF Of
<1>15. TabOK(t)'
  <2>1. ~Of(k, "boot", t) /\ UNCHANGED owner
    BY <1>2, <1>6 DEF Of, server
  <2> QED
    BY <1>3, <1>4, <1>9, <1>10, <1>12, <1>14, <2>1, ThisTab
<1>16. FreshOK' /\ CookieOK'
  <2>1. UNCHANGED <<live, cookie, lost>> /\ k.id = None /\ k.sent = None
    BY <1>2, <1>6 DEF server
  <2>2. FreshOK'
    BY <1>3, <1>4, <2>1, FreshKept
  <2>3. CookieOK'
    BY <1>3, <1>4, <1>5, <2>1, CookieKept DEF Replaces
  <2> QED
    BY <2>2, <2>3
<1>17. SignedOutOK' /\ lost' \in BOOLEAN /\ cookie' = cookie
  BY <1>6 DEF SignedOutOK, IInv, TypeOK
<1>18. k.tab \in {t, None}
  BY <1>2
<1> QED
  BY <1>3, <1>4, <1>5, <1>6, <1>9, <1>10, <1>13, <1>15, <1>16, <1>17, <1>18, ClientStep

\* The logout button.
LEMMA SignOutInv ==
  ASSUME IInv, NEW t \in Tabs, NEW c \in Calls, SignOut(t, c)
  PROVE  IInv'
<1>1. PICK k : k = [NoCall EXCEPT !.pc = "sent", !.op = "logout", !.tab = t,
                                  !.sent = CookieFor("logout")]
  OBVIOUS
<1>2. k = [pc |-> "sent", op |-> "logout", tab |-> t, sent |-> None, id |-> None, ok |-> FALSE]
  BY <1>1 DEF NoCall, CookieFor
<1>3. k \in Call /\ CallOK(k) /\ Knows(k) /\ ~Carries(k) /\ Barren(k) /\ k.tab \in {t, None}
  BY <1>2 DEF Call, CallOK, Knows, Carries, Barren
<1>4. call' = [call EXCEPT ![c] = k] /\ call[c] = NoCall
  BY <1>1, CallFacts DEF SignOut, InFlight, CallOK
<1>5. call[c].tab = None /\ ~Carries(call[c])
  BY <1>4 DEF NoCall, Carries
<1>6. UNCHANGED <<server, live, owner, cookie, lost, again, signedOut, tab>>
  BY DEF SignOut, jar, server
<1>7. PICK x \in Tab : x = tab[t]
  BY DEF IInv, TypeOK
<1>8. tab' = [tab EXCEPT ![t] = x] /\ x.user # None
  BY <1>6, <1>7 DEF SignOut, IInv, TypeOK
<1>9. TabOK(t)
  BY DEF IInv, TabsOK
<1>10. ~x.booting /\ \A d \in Calls : ~Of(call[d], "boot", t)
  BY <1>7, <1>8, <1>9 DEF TabOK
<1>11. TabOK(t)'
  <2>1. ~Of(k, "boot", t) /\ ~Of(k, "login", t)
    BY <1>2 DEF Of
  <2>2. t \notin again' =>
          /\ t \notin again
          /\ \A d \in Calls : ~Of(call[d], "login", t)
          /\ x.token # None /\ owner[x.token] = x.user
    BY <1>6, <1>7, <1>8, <1>9 DEF TabOK
  <2> QED
    BY <1>3, <1>4, <1>6, <1>8, <1>10, <2>1, <2>2, ThisTab
<1>12. FreshOK' /\ CookieOK'
  <2>1. k.id = None /\ k.sent = None
    BY <1>2
  <2>2. FreshOK'
    BY <1>3, <1>4, <1>6, <2>1, FreshKept
  <2>3. CookieOK'
    BY <1>3, <1>4, <1>5, <1>6, CookieKept DEF Replaces
  <2> QED
    BY <2>2, <2>3
<1>13. SignedOutOK'
  <2>1. signedOut # None => cookie' = None
    BY <1>6 DEF IInv, SignedOutOK
  <2> QED
    BY <1>3, <1>4, <1>6, <2>1, SignedOutKept
<1>14. /\ lost' \in BOOLEAN /\ signedOut' \in Ids \cup {None} /\ again' \subseteq Tabs
       /\ cookie' = cookie
       /\ \A u \in Tabs : u # t => (u \in again <=> u \in again')
  BY <1>6 DEF IInv, TypeOK
<1> QED
  BY <1>3, <1>4, <1>5, <1>6, <1>8, <1>11, <1>12, <1>13, <1>14, ClientStep

-----------------------------------------------------------------------------
(***************************************************************************)
(* The answers.                                                            *)
(***************************************************************************)
\* A call is over: no call is k any more, and the jar is as Set-Cookie leaves it.
LEMMA Ended ==
  ASSUME IInv, UNCHANGED <<live, owner>>, NEW c \in Calls, NEW k \in Call,
         call' = [call EXCEPT ![c] = k], ~Carries(k), k.sent = None,
         k.id \in {None, call[c].id}, cookie' = SetCookie(c), lost' = lost,
         call[c].pc = "answered"
  PROVE  /\ FreshOK' /\ CookieOK' /\ cookie' \in {cookie, None, call[c].id}
         /\ call[c].op # "logout" /\ call[c].id # None => cookie' = call[c].id
         /\ cookie' # cookie => call[c].op = "logout" \/ call[c].id # None
<1>1. CallOK(call[c]) /\ FreshOK
  BY CallFacts DEF IInv
<1>2. /\ call[c].op # "logout" /\ call[c].id # None => cookie' = call[c].id
      /\ call[c].id = None => cookie' = cookie \/ (cookie' = None /\ call[c].op = "logout")
  BY <1>1 DEF SetCookie
<1>3. cookie' \in {cookie, None, call[c].id} /\ (call[c].op = "logout" => call[c].id = None)
  BY <1>1, <1>2 DEF CallOK
<1>4. FreshOK'
  BY <1>3, FreshKept
<1>5. CookieOK'
  <2>1. CASE call[c].op # "logout" /\ call[c].id # None
    <3>1. cookie' \in live'
      BY <1>1, <1>2, <2>1 DEF FreshOK, Carries
    <3> QED
      BY <3>1 DEF CookieOK
  <2>2. CASE call[c].id = None /\ cookie' = cookie
    BY <2>2, CookieKept DEF Replaces, Carries
  <2>3. CASE cookie' = None
    BY <2>3 DEF CookieOK
  <2> QED
    BY <1>2, <1>3, <2>1, <2>2, <2>3
<1> QED
  BY <1>2, <1>3, <1>4, <1>5

\* The tab when its login failed.
Ready(t, c) == [tab[t] EXCEPT !.form = FormReady(t, c)]

\* A form that is ready, or is another one by now, is a form.
LEMMA ReadyTab ==
  ASSUME IInv, NEW t \in Tabs, NEW c \in Calls
  PROVE  /\ Ready(t, c) \in Tab /\ Ready(t, c).booting = tab[t].booting
         /\ Ready(t, c).user = tab[t].user /\ Ready(t, c).token = tab[t].token
<1>1. tab[t] \in Tab
  BY DEF IInv, TypeOK
<1>2. PICK f \in Calls \cup {None} : f = FormReady(t, c)
  BY <1>1 DEF Tab, FormReady
<1> QED
  BY <1>1, <1>2 DEF Tab, Ready

\* A call that failed leaves the tab blank after a restore, and as it was after
\* a login.
LEMMA FailedTab ==
  ASSUME IInv, UNCHANGED <<owner, again>>, NEW c \in Calls,
         call' = [call EXCEPT ![c] = NoCall],
         NEW t \in Tabs, call[c].tab = t, call[c].op # "logout",
         NEW x \in Tab, tab' = [tab EXCEPT ![t] = x],
         call[c].op = "boot" => x = Blank,
         call[c].op = "login" => /\ x.booting = tab[t].booting /\ x.user = tab[t].user
                                 /\ x.token = tab[t].token
  PROVE  TabOK(t)'
<1>1. call[c] \in Call /\ TabOK(t)
  BY CallFacts DEF IInv, TabsOK
<1>2. NoCall \in Call /\ ~Of(NoCall, "boot", t) /\ ~Of(NoCall, "login", t) /\ NoCall.tab # t
  BY Blanks DEF Of, NoCall
<1>3. CASE call[c].op = "boot"
  <2>1. x = Blank /\ x \in Tab /\ ~x.booting /\ x.user = None
    <3>1. x = Blank
      BY <1>3
    <3>2. ~Blank.booting /\ Blank.user = None
      BY DEF Blank
    <3> QED
      BY <3>1, <3>2, Blanks
  <2>2. \A d \in Calls \ {c} : call[d].tab # t
    BY <1>3, Restoring
  <2>3. \A d \in Calls \ {c} : ~Of(call[d], "boot", t) /\ ~Of(call[d], "login", t)
    BY <2>2 DEF Of
  <2>4. TabOK(t)'
    BY <1>2, <2>1, <2>2, <2>3, ThisTab
  <2> QED
    BY <2>1, <2>4
<1>4. CASE call[c].op = "login"
  <2>1. /\ x \in Tab /\ x.booting = tab[t].booting /\ x.user = tab[t].user
        /\ x.token = tab[t].token
    BY <1>4
  <2>2. ~x.booting /\ \A d \in Calls : ~Of(call[d], "boot", t)
    BY <1>4, <2>1, Restoring DEF Of
  <2>3. t \notin again => x.user = None
    BY <1>1, <1>4, <2>1 DEF TabOK, Of
  <2>4. TabOK(t)'
    BY <1>2, <2>1, <2>2, <2>3, ThisTab
  <2> QED
    BY <2>1, <2>4
<1> QED
  BY <1>1, <1>3, <1>4, CallFields

\* The answer of login or refresh.
LEMMA ReceivePairInv ==
  ASSUME IInv, NEW c \in Calls, ReceivePair(c)
  PROVE  IInv'
<1>1. PICK t \in Tabs : t = call[c].tab
  BY CallFacts, CallFields DEF ReceivePair
<1>2. /\ call[c] \in Call /\ CallOK(call[c]) /\ Knows(call[c])
      /\ call[c].pc = "answered" /\ call[c].op # "logout"
  BY CallFacts DEF ReceivePair
<1>3. UNCHANGED <<server, live, owner, lost, again, signedOut>> /\ cookie' = SetCookie(c)
  BY DEF ReceivePair, server
<1>4. /\ lost' \in BOOLEAN /\ signedOut' \in Ids \cup {None} /\ again' \subseteq Tabs
      /\ \A u \in Tabs : u # t => (u \in again <=> u \in again')
  BY <1>3 DEF IInv, TypeOK
<1>5. TabOK(t) /\ tab[t] \in Tab /\ tab \in [Tabs -> Tab] /\ SignedOutOK
  BY DEF IInv, TypeOK, TabsOK
<1>6. signedOut # None => cookie = None /\ call[c].id = None
  BY <1>2, <1>5 DEF SignedOutOK, Barren
<1>7. CASE call[c].id # None
  <2>1. PICK k : k = [call[c] EXCEPT !.pc = "me", !.sent = None]
    OBVIOUS
  <2>2. /\ k \in Call /\ k.pc = "me" /\ k.sent = None /\ k.id = call[c].id
        /\ k.op = call[c].op /\ k.tab = t
    BY <1>1, <1>2, <2>1 DEF Call
  <2>3. CallOK(k) /\ Knows(k) /\ ~Carries(k)
    BY <1>2, <1>7, <2>2, Blanks DEF CallOK, Knows, Carries
  <2>4. call' = [call EXCEPT ![c] = k]
    BY <1>7, <2>1, CallFacts DEF ReceivePair
  <2>5. PICK x : x = [tab[t] EXCEPT !.token = call[c].id]
    OBVIOUS
  <2>6. /\ x \in Tab /\ x.token = call[c].id /\ x.booting = tab[t].booting
        /\ x.user = tab[t].user
    BY <1>2, <1>5, <2>5, CallFields DEF Tab
  <2>7. tab' = [tab EXCEPT ![t] = x]
    BY <1>1, <1>5, <1>7, <2>5 DEF ReceivePair
  <2>8. FreshOK' /\ CookieOK' /\ cookie' \in {cookie, None, call[c].id}
    BY <1>2, <1>3, <2>2, <2>3, <2>4, Ended
  <2>9. TabOK(t)'
    <3>1. CASE call[c].op = "boot"
      <4>1. /\ x.booting /\ x.user = None /\ Of(k, "boot", t) /\ ~Of(k, "login", t)
            /\ \A d \in Calls \ {c} : call[d].tab # t
        BY <1>1, <2>2, <2>6, <3>1, Restoring DEF Of
      <4>2. \A d \in Calls \ {c} : ~Of(call[d], "boot", t) /\ ~Of(call[d], "login", t)
        BY <4>1 DEF Of
      <4>3. call'[c] = k /\ \A d \in Calls \ {c} : call'[d] = call[d]
        BY <2>2, <2>4, Others, CallFacts
      <4>4. tab'[t] = x
        BY <1>5, <2>7
      <4>5. \A d \in Calls : call'[d].tab = t => d = c
        BY <4>1, <4>3
      <4> QED
        BY <2>2, <2>6, <3>1, <4>1, <4>3, <4>4, <4>5 DEF TabOK, Of
    <3>2. CASE call[c].op = "login"
      <4>1. ~x.booting /\ ~Of(k, "boot", t) /\ \A d \in Calls : ~Of(call[d], "boot", t)
        BY <1>1, <2>2, <2>6, <3>2, Restoring DEF Of
      <4>2. Of(call[c], "login", t)
        BY <1>1, <3>2 DEF Of
      <4>3. t \notin again' =>
              /\ t \notin again /\ x.user = None
              /\ \A d \in Calls \ {c} : ~Of(call[d], "login", t)
        BY <1>3, <1>5, <2>6, <4>2 DEF TabOK
      <4> QED
        BY <1>3, <2>2, <2>4, <2>6, <2>7, <4>1, <4>3, ThisTab
    <3> QED
      BY <1>2, <3>1, <3>2, CallFields
  <2>10. SignedOutOK'
    BY <1>3, <1>6, <1>7 DEF SignedOutOK
  <2> QED
    BY <1>1, <1>3, <1>4, <2>2, <2>3, <2>4, <2>6, <2>7, <2>8, <2>9, <2>10, ClientStep
<1>8. CASE call[c].id = None
  <2>1. PICK k \in Call : k = NoCall
    BY Blanks
  <2>2. CallOK(k) /\ Knows(k) /\ ~Carries(k) /\ k.sent = None /\ k.id = None /\ k.tab = None
    BY <2>1, Blanks DEF Knows, Carries, NoCall
  <2>3. call' = [call EXCEPT ![c] = k]
    BY <1>8, <2>1 DEF ReceivePair, Ends
  <2>4. PICK x : x = IF call[c].op = "boot" THEN Blank ELSE Ready(t, c)
    OBVIOUS
  <2>5. tab' = [tab EXCEPT ![t] = x]
    BY <1>1, <1>5, <1>8, <2>4 DEF ReceivePair, Ready
  <2>6. /\ TabOK(t)' /\ x \in Tab
        /\ x.booting => x.token = tab[t].token /\ tab[t].booting
    <3>1. UNCHANGED <<owner, again>> /\ call' = [call EXCEPT ![c] = NoCall]
      BY <1>3, <2>1, <2>3
    <3>2. call[c].op = "boot" => x = Blank /\ x \in Tab
      BY <2>4, Blanks
    <3>3. call[c].op = "login" => /\ x \in Tab
                                  /\ x.booting = tab[t].booting /\ x.user = tab[t].user
                                  /\ x.token = tab[t].token
      BY <2>4, ReadyTab
    <3>4. call[c].tab = t /\ call[c].op \in {"boot", "login"}
      BY <1>1, <1>2, CallFields
    <3>5. x \in Tab
      BY <3>2, <3>3, <3>4
    <3>6. call[c].op = "boot" => x = Blank
      BY <3>2
    <3>7. call[c].op = "login" => /\ x.booting = tab[t].booting /\ x.user = tab[t].user
                                  /\ x.token = tab[t].token
      BY <3>3
    <3>8. call[c].tab = t /\ call[c].op # "logout"
      BY <3>4
    <3>9. TabOK(t)'
      BY <2>5, <3>1, <3>5, <3>6, <3>7, <3>8, FailedTab
    <3>10. x.booting => x.token = tab[t].token /\ tab[t].booting
      <4>1. ~Blank.booting
        BY DEF Blank
      <4> QED
        BY <3>4, <3>6, <3>7, <4>1
    <3> QED
      BY <3>5, <3>9, <3>10
  <2>7. FreshOK' /\ CookieOK' /\ cookie' \in {cookie, None, call[c].id}
    BY <1>2, <1>3, <2>2, <2>3, Ended
  <2>8. cookie' = cookie
    BY <1>2, <1>3, <1>8 DEF SetCookie
  <2>9. SignedOutOK'
    <3>1. Barren(k)
      BY <2>1 DEF Barren, NoCall
    <3>2. signedOut # None => cookie' = None /\ (x.booting => x.token = None)
      BY <1>5, <1>6, <2>6, <2>8 DEF SignedOutOK
    <3> QED
      BY <1>3, <2>3, <2>5, <2>6, <3>1, <3>2, StillSignedOut
  <2> QED
    BY <1>1, <1>3, <1>4, <2>2, <2>3, <2>5, <2>6, <2>7, <2>9, ClientStep
<1> QED
  BY <1>7, <1>8

\* The answer of /users/me.
LEMMA ReceiveMeInv ==
  ASSUME IInv, NEW c \in Calls, ReceiveMe(c)
  PROVE  IInv'
<1>1. PICK t \in Tabs : t = call[c].tab
  BY CallFacts, CallFields DEF ReceiveMe
<1>2. PICK i \in Ids : i = call[c].id
  BY CallFacts, CallFields DEF ReceiveMe, CallOK
<1>3. /\ call[c] \in Call /\ call[c].pc = "me" /\ call[c].op \in {"boot", "login"}
      /\ i # None /\ owner[i] # None /\ owner[i] \in Ids
  BY <1>2, CallFacts, CallFields, Blanks DEF ReceiveMe, CallOK, Knows
<1>4. UNCHANGED <<server, live, owner, cookie, lost, again, signedOut>>
  BY DEF ReceiveMe, server, jar
<1>5. /\ lost' \in BOOLEAN /\ signedOut' \in Ids \cup {None} /\ again' \subseteq Tabs
      /\ \A u \in Tabs : u # t => (u \in again <=> u \in again')
  BY <1>4 DEF IInv, TypeOK
<1>6. TabOK(t) /\ tab[t] \in Tab /\ tab \in [Tabs -> Tab] /\ SignedOutOK
  BY DEF IInv, TypeOK, TabsOK
<1>7. PICK k \in Call : k = NoCall
  BY Blanks
<1>8. /\ CallOK(k) /\ Knows(k) /\ ~Carries(k) /\ k.sent = None /\ k.id = None /\ k.tab = None
      /\ call' = [call EXCEPT ![c] = k]
  BY <1>7, Blanks DEF Knows, Carries, NoCall, ReceiveMe, Ends
<1>9. FreshOK'
  BY <1>4, <1>8, FreshKept
<1>10. CookieOK'
  <2>1. ~Replaces(call[c], cookie)
    BY <1>3 DEF Replaces, Carries
  <2> QED
    BY <1>4, <1>8, <2>1, CookieKept
<1>11. SignedOutOK'
  <2>1. signedOut = None
    BY <1>2, <1>3, <1>6 DEF SignedOutOK, Barren
  <2> QED
    BY <1>4, <2>1 DEF SignedOutOK
<1>12. ASSUME NEW x \in Tab, tab' = [tab EXCEPT ![t] = x], TabOK(t)' PROVE IInv'
  BY <1>1, <1>4, <1>5, <1>8, <1>9, <1>10, <1>11, <1>12, ClientStep
<1>13. CASE tab' = [tab EXCEPT ![t].user = owner[i], ![t].booting = FALSE,
                              ![t].page = "home", ![t].form = None,
                              ![t].token = IF call[c].op = "login" THEN i ELSE @]
  <2>1. tab[t].token = i \/ call[c].op = "login"
    BY <1>1, <1>2, <1>3, <1>6 DEF TabOK, Of
  <2>2. PICK y \in Tab : y = tab[t]
    BY <1>6
  <2>3. PICK x : x = [y EXCEPT !.user = owner[i], !.booting = FALSE, !.page = "home",
                               !.form = None, !.token = i]
    OBVIOUS
  <2>4. tab' = [tab EXCEPT ![t] = x]
    <3>1. (IF call[c].op = "login" THEN i ELSE tab[t].token) = i
      BY <2>1
    <3> QED
      BY <1>6, <1>13, <2>2, <2>3, <3>1
  <2>5. x \in Tab /\ x.user = owner[i] /\ ~x.booting /\ x.token = i
    BY <1>3, <2>3 DEF Tab
  <2>6. /\ \A d \in Calls \ {c} : ~Of(call[d], "boot", t)
        /\ t \notin again => \A d \in Calls \ {c} : ~Of(call[d], "login", t)
    <3>1. CASE call[c].op = "boot"
      BY <1>1, <3>1, Restoring DEF Of
    <3>2. CASE call[c].op = "login"
      BY <1>1, <1>6, <3>2, Restoring DEF Of, TabOK
    <3> QED
      BY <1>3, <3>1, <3>2
  <2>7. ~Of(k, "boot", t) /\ ~Of(k, "login", t) /\ UNCHANGED <<owner, again>>
    BY <1>4, <1>8, Blanks DEF Of
  <2>8. TabOK(t)'
    BY <1>3, <1>8, <2>4, <2>5, <2>6, <2>7, ThisTab
  <2> QED
    BY <1>12, <2>4, <2>5, <2>8
<1>14. CASE tab' = [tab EXCEPT ![t] = IF call[c].op = "boot" THEN Blank ELSE Ready(t, c)]
  <2>1. PICK x : x = IF call[c].op = "boot" THEN Blank ELSE Ready(t, c)
    OBVIOUS
  <2>2. call[c].op = "boot" => x = Blank
    BY <2>1
  <2>3. call[c].op = "login" => /\ x.booting = tab[t].booting /\ x.user = tab[t].user
                                /\ x.token = tab[t].token
    BY <2>1, ReadyTab
  <2>4. x \in Tab
    BY <2>1, Blanks, ReadyTab
  <2>5. /\ UNCHANGED <<owner, again>> /\ call' = [call EXCEPT ![c] = NoCall]
        /\ call[c].tab = t /\ call[c].op # "logout"
    BY <1>1, <1>3, <1>4, <1>7, <1>8
  <2>6. tab' = [tab EXCEPT ![t] = x]
    BY <1>14, <2>1
  <2>7. TabOK(t)'
    BY <2>2, <2>3, <2>4, <2>5, <2>6, FailedTab
  <2> QED
    BY <1>12, <2>4, <2>6, <2>7
<1> QED
  BY <1>1, <1>2, <1>6, <1>13, <1>14 DEF ReceiveMe, Ready

\* The answer of logout.
LEMMA ReceiveLogoutInv ==
  ASSUME IInv, NEW c \in Calls, ReceiveLogout(c)
  PROVE  IInv'
<1>1. PICK t \in Tabs : t = call[c].tab
  BY CallFacts, CallFields DEF ReceiveLogout
<1>2. /\ call[c] \in Call /\ call[c].pc = "answered" /\ call[c].op = "logout"
      /\ call[c].id = None
  BY CallFacts DEF ReceiveLogout, CallOK
<1>3. UNCHANGED <<server, live, owner, lost, again>> /\ cookie' = SetCookie(c)
  BY DEF ReceiveLogout, server
<1>4. TabOK(t) /\ tab[t] \in Tab /\ tab \in [Tabs -> Tab] /\ SignedOutOK
  BY DEF IInv, TypeOK, TabsOK
<1>5. PICK k \in Call : k = NoCall
  BY Blanks
<1>6. /\ CallOK(k) /\ Knows(k) /\ ~Carries(k) /\ k.sent = None /\ k.id = None /\ k.tab = None
      /\ Barren(k) /\ call' = [call EXCEPT ![c] = k]
  BY <1>5, Blanks DEF Knows, Carries, Barren, NoCall, ReceiveLogout, Ends
<1>7. FreshOK' /\ CookieOK' /\ cookie' \in {cookie, None, call[c].id}
  BY <1>2, <1>3, <1>6, Ended
<1>8. PICK y \in Tab : y = tab[t]
  BY <1>4
<1>9. PICK x : x = [y EXCEPT !.token = None, !.user = None, !.page = "login"]
  OBVIOUS
<1>10. tab' = [tab EXCEPT ![t] = x]
  BY <1>1, <1>4, <1>8, <1>9 DEF ReceiveLogout
<1>11. x \in Tab /\ x.token = None /\ x.user = None /\ x.booting = y.booting
  BY <1>9 DEF Tab
<1>12. ~x.booting /\ \A d \in Calls : ~Of(call[d], "boot", t)
  BY <1>1, <1>2, <1>8, <1>11, Restoring DEF Of
<1>13. TabOK(t)'
  <2>1. ~Of(k, "boot", t) /\ ~Of(k, "login", t) /\ UNCHANGED <<owner, again>>
    BY <1>3, <1>6, Blanks DEF Of
  <2> QED
    BY <1>6, <1>10, <1>11, <1>12, <2>1, ThisTab
<1>14. /\ lost' \in BOOLEAN /\ signedOut' \in Ids \cup {None} /\ again' \subseteq Tabs
       /\ \A u \in Tabs : u # t => (u \in again <=> u \in again')
  BY <1>3 DEF IInv, TypeOK, ReceiveLogout
<1>15. SignedOutOK'
  <2>1. CASE call[c].ok /\ cookie # None /\ ~CookieToCome(c)
    <3>1. cookie' = None
      BY <1>2, <1>3, <2>1 DEF SetCookie
    <3>2. \A d \in Calls : Barren(call'[d])
      BY <1>6, <2>1, Others, CallFacts DEF CookieToCome, InFlight, Barren
    <3>3. \A u \in Tabs : ~tab[u].booting
      <4> SUFFICES ASSUME NEW u \in Tabs, tab[u].booting PROVE FALSE
        OBVIOUS
      <4>1. PICK d \in Calls : Of(call[d], "boot", u)
        BY DEF IInv, TabsOK, TabOK
      <4>2. InFlight(d) /\ d # c
        BY <1>2, <4>1, Waiting DEF Of
      <4> QED
        BY <2>1, <4>1, <4>2 DEF CookieToCome, Of
    <3>4. \A u \in Tabs : ~tab'[u].booting
      BY <1>4, <1>10, <1>12, <3>3
    <3> QED
      BY <3>1, <3>2, <3>4 DEF SignedOutOK, Barren
  <2>2. CASE ~(call[c].ok /\ cookie # None /\ ~CookieToCome(c))
    <3>1. UNCHANGED signedOut
      BY <2>2 DEF ReceiveLogout
    <3>2. signedOut # None => cookie' = None
      BY <1>2, <1>4, <1>7 DEF SignedOutOK
    <3> QED
      BY <1>6, <1>10, <1>11, <1>12, <3>1, <3>2, StillSignedOut
  <2> QED
    BY <2>1, <2>2
<1> QED
  BY <1>1, <1>3, <1>6, <1>7, <1>10, <1>11, <1>13, <1>14, <1>15, ClientStep

\* An answer that no page waits for.
LEMMA DropInv ==
  ASSUME IInv, NEW c \in Calls, Drop(c)
  PROVE  IInv'
<1>1. /\ call[c] \in Call /\ call[c].pc = "answered" /\ call[c].tab = None
      /\ CallOK(call[c]) /\ Knows(call[c])
  BY CallFacts DEF Drop
<1>2. UNCHANGED <<server, live, owner, tab, again, signedOut>>
  BY DEF Drop, server
<1>3. PICK k \in Call : k = NoCall
  BY Blanks
<1>4. /\ CallOK(k) /\ ~Carries(k) /\ k.sent = None /\ k.id = None /\ k.tab = None
      /\ Barren(k) /\ call' = [call EXCEPT ![c] = k]
  BY <1>3, Blanks DEF Carries, Barren, NoCall, Drop, Ends
<1>5. OwnerKept /\ Knows(k)'
  BY <1>2, <1>4, CallFacts DEF OwnerKept, Knows
<1>6. CallsOK'
  BY <1>4, <1>5, CallsStep
<1>7. TabsOK'
  <2>1. tab' = [tab EXCEPT ![None] = Blank]
    BY <1>2, Blanks DEF IInv, TypeOK
  <2> QED
    BY <1>1, <1>2, <1>4, <1>5, <2>1, Blanks, OtherTabs DEF TabsOK
<1>8. /\ FreshOK' /\ CookieOK' /\ cookie' \in {cookie, None, call[c].id}
      /\ cookie' # cookie => call[c].op = "logout" \/ call[c].id # None
      /\ lost' \in BOOLEAN
  <2>1. lost \in BOOLEAN
    BY DEF IInv, TypeOK
  <2>2. CASE cookie' = SetCookie(c) /\ UNCHANGED lost
    BY <1>1, <1>2, <1>4, <2>1, <2>2, Ended
  <2>3. CASE lost' = (lost \/ call[c].op = "boot") /\ UNCHANGED cookie
    <3>1. FreshOK'
      BY <1>2, <1>4, <2>3, FreshKept
    <3>2. CookieOK'
      <4>1. CASE cookie = None \/ call[c].op = "boot"
        BY <2>3, <4>1 DEF CookieOK
      <4>2. CASE cookie # None /\ call[c].op # "boot"
        <5>1. ~Replaces(call[c], cookie)
          BY <1>1, <4>2 DEF Replaces, CallOK
        <5> QED
          BY <1>2, <1>4, <2>1, <2>3, <5>1, CookieKept
      <4> QED
        BY <4>1, <4>2
    <3> QED
      BY <2>1, <2>3, <3>1, <3>2
  <2> QED
    BY <2>2, <2>3 DEF Drop
<1>9. SignedOutOK'
  <2>1. signedOut # None => cookie = None /\ Barren(call[c])
    BY DEF IInv, SignedOutOK
  <2>2. signedOut # None => cookie' = None
    BY <1>1, <1>8, <2>1 DEF Barren, CallOK
  <2> QED
    BY <1>2, <1>4, <2>2, SignedOutKept
<1>10. TypeOK'
  <2>1. cookie' \in Ids \cup {None} /\ (cookie' # None => owner[cookie'] # None)
    BY <1>1, <1>8, CallFields DEF IInv, TypeOK, Knows
  <2>2. call' \in [Calls -> Call]
    BY <1>4, Others DEF IInv, TypeOK
  <2> QED
    BY <1>2, <1>8, <2>1, <2>2 DEF IInv, TypeOK
<1> QED
  BY <1>6, <1>7, <1>8, <1>9, <1>10 DEF IInv

\* A reload: a new restore, and no page for the calls of the old one.
LEMMA LoadInv ==
  ASSUME IInv, NEW t \in Tabs, NEW c \in Calls, Load(t, c)
  PROVE  IInv'
<1>1. PICK k : k = [NoCall EXCEPT !.pc = "sent", !.tab = t, !.sent = CookieFor("boot")]
  OBVIOUS
<1>2. k = [pc |-> "sent", op |-> "boot", tab |-> t, sent |-> cookie, id |-> None, ok |-> FALSE]
  BY <1>1 DEF NoCall, CookieFor
<1>3. UNCHANGED <<live, owner, cookie, lost, signedOut>> /\ again' = again \ {t}
  BY DEF Load, server
<1>4. PICK x \in Tab : x = [Blank EXCEPT !.booting = TRUE]
  BY Blanks DEF Blank, Tab
<1>5. x.booting /\ x.user = None /\ x.token = None
  BY <1>4 DEF Blank
<1>6. tab' = [tab EXCEPT ![t] = x] /\ tab \in [Tabs -> Tab]
  BY <1>4 DEF Load, IInv, TypeOK
<1>7. tab'[t] = x /\ \A u \in Tabs : u # t => tab'[u] = tab[u]
  BY <1>6
<1>8. k \in Call /\ CallOK(k) /\ Knows(k)
  BY <1>2, CallFacts DEF Call, CallOK, Knows, IInv, TypeOK
<1>9. call[c] = NoCall /\ call[c].tab = None /\ ~Carries(call[c])
  <2>1. call[c] = NoCall
    BY CallFacts DEF Load, InFlight, CallOK
  <2>2. NoCall.tab = None /\ NoCall.id = None
    BY DEF NoCall
  <2> QED
    BY <2>1, <2>2 DEF Carries
<1>10. /\ call' = [d \in Calls |->
            IF d = c THEN k
            ELSE IF call[d].tab # t THEN call[d]
            ELSE IF call[d].pc = "me" THEN NoCall ELSE [call[d] EXCEPT !.tab = None]]
       /\ call'[c] = k
  BY <1>1 DEF Load
<1>11. ASSUME NEW d \in Calls, d # c
       PROVE  /\ call'[d] \in Call /\ CallOK(call'[d]) /\ Knows(call'[d])
              /\ call[d].tab # t => call'[d] = call[d]
              /\ call[d].tab = t => call'[d].tab = None
              /\ Carries(call'[d]) => Carries(call[d])
              /\ Carries(call[d]) => call'[d].id = call[d].id /\ call'[d].sent = call[d].sent
              /\ Carries(call[d]) => Carries(call'[d])
              /\ call'[d].id \in {None, call[d].id} /\ call'[d].sent \in {None, call[d].sent}
              /\ Barren(call[d]) => Barren(call'[d])
  <2>1. PICK q : q = call[d]
    OBVIOUS
  <2>2. q \in Call /\ CallOK(q) /\ Knows(q)
    BY <2>1, CallFacts
  <2>3. CASE q.tab # t
    BY <1>10, <1>11, <2>1, <2>2, <2>3
  <2>4. CASE q.tab = t /\ q.pc = "me"
    <3>1. call'[d] = NoCall
      BY <1>10, <1>11, <2>1, <2>4
    <3>2. NoCall.pc = "idle" /\ NoCall.id = None /\ NoCall.sent = None /\ NoCall.tab = None
      BY DEF NoCall
    <3> QED
      BY <2>1, <2>4, <3>1, <3>2, Blanks DEF Carries, Knows, Barren
  <2>5. CASE q.tab = t /\ q.pc # "me"
    <3>1. PICK z : z = [q EXCEPT !.tab = None]
      OBVIOUS
    <3>2. call'[d] = z
      BY <1>10, <1>11, <2>1, <2>5, <3>1
    <3>3. /\ z \in Call /\ z.pc = q.pc /\ z.op = q.op /\ z.tab = None /\ z.sent = q.sent
          /\ z.id = q.id
      BY <2>2, <3>1 DEF Call
    <3>4. q.pc # "idle"
      BY <2>1, <2>5, Waiting DEF InFlight
    <3>5. CallOK(z) /\ Knows(z)
      BY <2>2, <2>5, <3>3, <3>4 DEF CallOK, Knows
    <3> QED
      BY <2>1, <2>5, <3>2, <3>3, <3>5 DEF Carries, Barren
  <2> QED
    BY <2>3, <2>4, <2>5
<1>12. call' \in [Calls -> Call] /\ \A d \in Calls : CallOK(call'[d]) /\ Knows(call'[d])
  <2>1. \A d \in Calls : call'[d] \in Call
    BY <1>8, <1>10, <1>11
  <2> QED
    BY <1>8, <1>10, <1>11, <2>1
<1>13. CallsOK'
  BY <1>3, <1>12 DEF CallsOK, Knows
<1>14. TypeOK'
  <2>1. tab' \in [Tabs -> Tab] /\ again' \subseteq Tabs
    BY <1>3, <1>6 DEF IInv, TypeOK
  <2>2. call' \in [Calls -> Call]
    BY <1>12
  <2> QED
    BY <1>3, <2>1, <2>2 DEF IInv, TypeOK
<1>15. FreshOK'
  <2>1. FreshOK
    BY DEF IInv
  <2> SUFFICES ASSUME NEW d \in Calls, Carries(call'[d])
               PROVE  /\ call'[d].id \in live
                      /\ call'[d].id # cookie
                      /\ \A e \in Calls : call'[e].sent # call'[d].id
                                          /\ (e # d => call'[e].id # call'[d].id)
    BY <1>3 DEF FreshOK, Carries
  <2>2. d # c
    BY <1>2, <1>10 DEF Carries
  <2>3. PICK i : i = call'[d].id
    OBVIOUS
  <2>4. Carries(call[d]) /\ i = call[d].id /\ i # None
    BY <1>11, <2>2, <2>3 DEF Carries
  <2>5. /\ i \in live /\ i # cookie
        /\ \A e \in Calls : call[e].sent # i /\ (e # d => call[e].id # i)
    BY <2>1, <2>4 DEF FreshOK
  <2>6. ASSUME NEW e \in Calls PROVE call'[e].sent # i /\ (e # d => call'[e].id # i)
    <3>1. CASE e = c
      BY <1>2, <1>10, <2>4, <2>5, <3>1
    <3>2. CASE e # c
      BY <1>11, <2>4, <2>5, <3>2
    <3> QED
      BY <3>1, <3>2
  <2> QED
    BY <2>3, <2>5, <2>6
<1>16. CookieOK'
  <2> SUFFICES ASSUME cookie # None, cookie \notin live, ~lost
               PROVE  \E d \in Calls : Replaces(call'[d], cookie)
    BY <1>3 DEF CookieOK, Replaces, Carries
  <2>1. PICK d \in Calls : Carries(call[d]) /\ call[d].sent = cookie
    BY DEF IInv, CookieOK, Replaces
  <2> QED
    BY <1>9, <1>11, <2>1 DEF Replaces
<1>17. TabsOK'
  <2> SUFFICES ASSUME NEW u \in Tabs PROVE TabOK(u)'
    BY DEF TabsOK
  <2>1. CASE u = t
    <3>1. \A d \in Calls : d # c => call'[d].tab # t
      BY <1>11, Blanks
    <3>2. Of(call'[c], "boot", t) /\ call'[c].pc # "me"
      BY <1>2, <1>10 DEF Of
    <3> QED
      BY <1>5, <1>7, <2>1, <3>1, <3>2 DEF TabOK, Of
  <2>2. CASE u # t
    <3>1. \A d \in Calls : \/ call'[d] = call[d]
                           \/ call[d].tab # u /\ call'[d].tab # u
      <4> SUFFICES ASSUME NEW d \in Calls
                   PROVE  call'[d] = call[d] \/ (call[d].tab # u /\ call'[d].tab # u)
        OBVIOUS
      <4>1. CASE d = c
        BY <1>2, <1>9, <1>10, <2>2, <4>1, Blanks
      <4>2. CASE d # c
        BY <1>11, <2>2, <4>2, Blanks
      <4> QED
        BY <4>1, <4>2
    <3>2. TabOK(u) /\ tab'[u] = tab[u] /\ (u \in again <=> u \in again')
      BY <1>3, <1>7, <2>2 DEF IInv, TabsOK
    <3> QED
      BY <1>3, <3>1, <3>2 DEF TabOK, Of
  <2> QED
    BY <2>1, <2>2
<1>18. SignedOutOK'
  <2> SUFFICES ASSUME signedOut # None
               PROVE  /\ cookie = None
                      /\ \A d \in Calls : Barren(call'[d])
                      /\ \A u \in Tabs : tab'[u].booting => tab'[u].token = None
    BY <1>3 DEF SignedOutOK, Barren
  <2>1. SignedOutOK
    BY DEF IInv
  <2>2. cookie = None /\ Barren(k)
    BY <1>2, <2>1 DEF SignedOutOK, Barren
  <2>3. \A d \in Calls : Barren(call'[d])
    BY <1>10, <1>11, <2>1, <2>2 DEF SignedOutOK
  <2>4. \A u \in Tabs : tab'[u].booting => tab'[u].token = None
    BY <1>5, <1>7, <2>1 DEF SignedOutOK
  <2> QED
    BY <2>2, <2>3, <2>4
<1> QED
  BY <1>13, <1>14, <1>15, <1>16, <1>17, <1>18 DEF IInv

-----------------------------------------------------------------------------
\* The invariant holds in a browser without a cookie and is kept by every step.
THEOREM Invariance == Spec => []IInv
<1>1. Init => IInv
  <2> SUFFICES ASSUME Init PROVE IInv
    OBVIOUS
  <2>1. \A c \in Calls : call[c] = NoCall
    BY DEF Init
  <2>2. NoCall.pc = "idle" /\ NoCall.id = None /\ NoCall.sent = None /\ NoCall.tab = None
    BY DEF NoCall
  <2>3. \A t \in Tabs : ~tab[t].booting /\ tab[t].user = None
    BY DEF Init, Blank
  <2>4. TypeOK
    BY Blanks DEF Init, TypeOK
  <2>5. CallsOK /\ FreshOK
    BY <2>1, <2>2, Blanks DEF CallsOK, Knows, FreshOK, Carries
  <2>6. TabsOK
    BY <2>1, <2>2, <2>3, Blanks DEF TabsOK, TabOK, Of
  <2>7. CookieOK /\ SignedOutOK
    BY DEF Init, CookieOK, SignedOutOK
  <2> QED
    BY <2>4, <2>5, <2>6, <2>7 DEF IInv
<1>2. IInv /\ [Next]_vars => IInv'
  <2> SUFFICES ASSUME IInv, [Next]_vars PROVE IInv'
    OBVIOUS
  <2>1. CASE UNCHANGED vars
    BY <2>1 DEF vars, IInv, TypeOK, CallsOK, Knows, FreshOK, CookieOK, TabsOK, TabOK,
                SignedOutOK
  <2>2. CASE Next
    BY <2>2, LoadInv, LoginSubmitInv, SignOutInv, ServeLoginInv, ServeRefreshInv, RotateInv,
       ServeLogoutInv, ReceivePairInv, ReceiveMeInv, ReceiveLogoutInv, DropInv, PageInv DEF Next
  <2> QED
    BY <2>1, <2>2
<1> QED
  BY <1>1, <1>2, PTL DEF Spec

\* Every variable keeps its shape, and only issued pairs are known to the jar
\* and accepted by the server.
THEOREM TypeCorrect == Spec => []TypeOK
<1>1. IInv => TypeOK
  BY DEF IInv
<1> QED
  BY <1>1, Invariance, PTL

\* Whatever tabs race to refresh with one cookie, and in whatever order the
\* answers come, the browser does not log itself out.
THEOREM JarHoldsLiveToken == Spec => []CookieLive
<1>1. IInv => CookieLive
  BY DEF IInv, CookieOK, CookieLive, Replaces, Carries
<1> QED
  BY <1>1, Invariance, PTL

\* No late answer, of an earlier page, form or click, makes a tab show one user
\* and act for another.
THEOREM ShowsItsUser == Spec => []UserMatchesToken
<1>1. IInv => UserMatchesToken
  BY DEF IInv, TabsOK, TabOK, UserMatchesToken
<1> QED
  BY <1>1, Invariance, PTL

\* After a logout that overlapped no refresh or login, no reload of any tab
\* restores a session.
THEOREM LogoutHolds == Spec => []LogoutSticks
<1>1. IInv => LogoutSticks
  BY DEF IInv, SignedOutOK, LogoutSticks
<1> QED
  BY <1>1, Invariance, PTL

=============================================================================
