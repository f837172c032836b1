------------------------ MODULE PasswordResetProofs ------------------------
(***************************************************************************)
(* Proofs about PasswordReset, for any number of requests, users and       *)
(* tokens, any TTL, and any faults and crashes.                            *)
(*                                                                         *)
(* What a request holds in its local variables was read from Redis in an   *)
(* earlier step.  ReqOK says what is still true of it then, KeyInv how the *)
(* keys relate to the tokens mailed and spent, UsesCounted counts the      *)
(* requests that have read a token and may yet use it.                     *)
(***************************************************************************)
EXTENDS PasswordReset, FiniteSetTheorems, TLAPS

\* A request that is about to store or mail a new token, and one that has read
\* a mailed one.
Sending(r) == req[r].pc \in {"store", "mail"}

Consuming(r) == req[r].pc \in {"del", "update"}

ReqOK(r) ==
  /\ req[r].pc # "idle" =>
       /\ req[r].tok \in Tokens
       /\ req[r].user \in Users
       /\ owner[req[r].tok] = req[r].user
  /\ Sending(r) => req[r].tok \notin mailed
  /\ req[r].pc = "mail" => reset[req[r].tok].val = req[r].user
  /\ Consuming(r) => req[r].tok \in mailed
  /\ req[r].pc = "update" => req[r].tok \in spent

RequestInv == \A r \in Requests : ReqOK(r)

\* No two requests are sending the same token.
OwnToken ==
  \A r, q \in Requests : Sending(r) /\ Sending(q) /\ req[r].tok = req[q].tok => r = q

\* The keys, and the tokens mailed, deleted and used.
KeyInv ==
  \A t \in Tokens :
    /\ reset[t].val # None => reset[t].val = owner[t]
    /\ t \in mailed => owner[t] # None
    /\ t \in mailed /\ t \notin spent => reset[t].val = owner[t]
    /\ t \in spent => t \in mailed /\ reset[t] = NoKey
    /\ uses[t] > 0 => t \in spent

\* A password that was reset was reset with a token of its user.
ResetsOwnPassword == \A u \in Users : password[u] # None => owner[password[u]] = u

Consumers(t) == {r \in Requests : Consuming(r) /\ req[r].tok = t}

\* The uses that a token has had and may still have.
UsesCounted ==
  \A t \in Tokens : uses[t] + Cardinality(Consumers(t)) <= Cardinality(Requests)

IInv ==
  TypeOK /\ RequestInv /\ OwnToken /\ KeyInv /\ ResetsOwnPassword /\ UsesCounted

-----------------------------------------------------------------------------
(***************************************************************************)
(* Types and counting.                                                     *)
(***************************************************************************)
\* What a request is reset to and what a command writes have their types; an
\* executed SET leaves a key with its value.
LEMMA ValueTypes ==
  /\ Idle \in Request
  /\ NoKey \in [val: Users \cup {None}, exp: Nat]
  /\ \A u \in Users, c \in Nat : /\ SetKey(u, c, ResetTTL) \in [val: Users \cup {None}, exp: Nat]
                                 /\ SetKey(u, c, ResetTTL).val = u
BY ResetTTLAssumption DEF Idle, Request, NoKey, SetKey

\* The fields of a request.
LEMMA RequestFields ==
  ASSUME TypeOK, NEW r \in Requests
  PROVE  /\ req[r].pc \in Pcs
         /\ req[r].pc # "idle" => req[r].user \in Users /\ req[r].tok \in Tokens
         /\ req[r].pc = "idle" => req[r] = Idle
BY DEF TypeOK, Request, Idle, Pcs

\* There is a number of requests.
LEMMA RequestsCounted == Cardinality(Requests) \in Nat
BY RequestsAssumption, FS_CardinalityType

\* A token has no more consumers than there are requests.
LEMMA ConsumersBounded ==
  ASSUME NEW t \in Tokens
  PROVE  /\ IsFiniteSet(Consumers(t))
         /\ Cardinality(Consumers(t)) \in Nat
         /\ Cardinality(Consumers(t)) <= Cardinality(Requests)
<1>1. Consumers(t) \in SUBSET Requests
  BY DEF Consumers
<1> QED
  BY <1>1, RequestsAssumption, FS_Subset, FS_CardinalityType

\* The same after a step.
LEMMA ConsumersBoundedNext ==
  ASSUME NEW t \in Tokens
  PROVE  /\ Cardinality(Consumers(t)') \in Nat
         /\ Cardinality(Consumers(t)') <= Cardinality(Requests)
<1>1. Consumers(t)' \in SUBSET Requests
  BY DEF Consumers
<1> QED
  BY <1>1, RequestsAssumption, FS_Subset, FS_CardinalityType

\* Fewer consumers are no more of them.
LEMMA ConsumersFewer ==
  ASSUME NEW t \in Tokens, Consumers(t)' \subseteq Consumers(t)
  PROVE  Cardinality(Consumers(t)') <= Cardinality(Consumers(t))
BY ConsumersBounded, FS_Subset

\* The initial state satisfies the invariant.
LEMMA InitInv == Init => IInv
<1> SUFFICES ASSUME Init PROVE IInv
  OBVIOUS
<1>1. TypeOK
  BY ValueTypes DEF Init, TypeOK
<1>2. \A r \in Requests : req[r].pc = "idle"
  BY DEF Init, Idle
<1>3. RequestInv /\ OwnToken
  BY <1>2 DEF RequestInv, ReqOK, OwnToken, Sending, Consuming
<1>4. KeyInv /\ ResetsOwnPassword
  BY DEF Init, KeyInv, ResetsOwnPassword, NoKey
<1>5. UsesCounted
  BY ConsumersBounded, RequestsCounted DEF Init, UsesCounted
<1> QED
  BY <1>1, <1>3, <1>4, <1>5 DEF IInv

\* Every step keeps the shape of every variable.
LEMMA NextType == TypeOK /\ [Next]_vars => TypeOK'
<1> SUFFICES ASSUME TypeOK, [Next]_vars PROVE TypeOK'
  OBVIOUS
<1> USE DEF TypeOK
<1>a. \A r \in Requests : Answer(r) => req' \in [Requests -> Request]
  BY ValueTypes DEF Answer
<1>b. \A r \in Requests, l \in Pcs \ {"idle"} :
         req[r].pc # "idle" /\ Goto(r, l) => req' \in [Requests -> Request]
  BY DEF Goto, Request, Idle
<1>1. ASSUME NEW r \in Requests, NEW u \in Users, ForgotPassword(r, u) PROVE TypeOK'
  <2>1. PICK t \in Tokens : /\ owner' = [owner EXCEPT ![t] = u]
                            /\ req' = [req EXCEPT ![r] = [pc |-> "store", user |-> u, tok |-> t]]
    BY <1>1 DEF ForgotPassword
  <2>2. [pc |-> "store", user |-> u, tok |-> t] \in Request
    BY DEF Request, Pcs
  <2> QED
    BY <1>1, <2>1, <2>2 DEF ForgotPassword
<1>2. ASSUME NEW r \in Requests, StorePasswordResetToken(r) PROVE TypeOK'
  <2>1. req[r].user \in Users /\ req[r].tok \in Tokens
    BY <1>2, RequestFields DEF StorePasswordResetToken
  <2>2. req' \in [Requests -> Request]
    BY <1>2, <1>a, <1>b DEF StorePasswordResetToken, Pcs
  <2>3. SetKey(req[r].user, clock, ResetTTL) \in [val: Users \cup {None}, exp: Nat]
    BY <2>1, ValueTypes
  <2>4. reset' \in [Tokens -> [val: Users \cup {None}, exp: Nat]]
    BY <1>2, <2>1, <2>3 DEF StorePasswordResetToken
  <2> QED
    BY <1>2, <2>2, <2>4 DEF StorePasswordResetToken
<1>3. ASSUME NEW r \in Requests, SendPasswordReset(r) PROVE TypeOK'
  <2>1. req[r].tok \in Tokens
    BY <1>3, RequestFields DEF SendPasswordReset
  <2> QED
    BY <1>3, <1>a, <2>1 DEF SendPasswordReset
<1>4. ASSUME NEW r \in Requests, NEW t \in Tokens, ConsumeGet(r, t) PROVE TypeOK'
  BY <1>4 DEF ConsumeGet, LiveKey, Request, Pcs
<1>5. ASSUME NEW r \in Requests, ConsumeDel(r) PROVE TypeOK'
  <2>1. req[r].tok \in Tokens
    BY <1>5, RequestFields DEF ConsumeDel
  <2>2. req' \in [Requests -> Request]
    BY <1>5, <1>a, <1>b DEF ConsumeDel, Pcs
  <2>3. \/ /\ reset' = [reset EXCEPT ![req[r].tok] = NoKey]
           /\ spent' = spent \cup {req[r].tok}
        \/ UNCHANGED <<reset, spent>>
    BY <1>5 DEF ConsumeDel
  <2>4. reset' \in [Tokens -> [val: Users \cup {None}, exp: Nat]] /\ spent' \subseteq Tokens
    BY <2>1, <2>3, ValueTypes
  <2> QED
    BY <1>5, <2>2, <2>4 DEF ConsumeDel
<1>6. ASSUME NEW r \in Requests, ResetUpdate(r) PROVE TypeOK'
  <2>1. PICK u \in Users, t \in Tokens : u = req[r].user /\ t = req[r].tok
    BY <1>6, RequestFields DEF ResetUpdate
  <2>2. \/ password' = [password EXCEPT ![u] = t] /\ uses' = [uses EXCEPT ![t] = @ + 1]
        \/ UNCHANGED <<password, uses>>
    BY <1>6, <2>1 DEF ResetUpdate
  <2>3. password' \in [Users -> Tokens \cup {None}]
    BY <2>2
  <2>4. uses' \in [Tokens -> Nat]
    BY <2>2
  <2>5. req' \in [Requests -> Request]
    BY <1>6, <1>a DEF ResetUpdate
  <2> QED
    BY <1>6, <2>3, <2>4, <2>5 DEF ResetUpdate
<1>7. CASE Tick
  BY <1>7 DEF Tick
<1>8. CASE Crash
  BY <1>8, ValueTypes DEF Crash
<1>9. CASE UNCHANGED vars
  BY <1>9 DEF vars
<1> QED
  BY <1>1, <1>2, <1>3, <1>4, <1>5, <1>6, <1>7, <1>8, <1>9 DEF Next, ResetRefused

-----------------------------------------------------------------------------
(***************************************************************************)
(* The steps.                                                              *)
(***************************************************************************)
\* A step of r does not change what the other requests know, if it takes no
\* token back, touches no key that another is to mail, and mails none that
\* another is sending.
LEMMA OtherRequests ==
  ASSUME IInv, NEW r \in Requests,
         \A q \in Requests : q # r => req'[q] = req[q],
         \A t \in Tokens : owner[t] # None => owner'[t] = owner[t],
         mailed \subseteq mailed', spent \subseteq spent',
         \A q \in Requests : q # r /\ Sending(q) =>
            req[q].tok \notin mailed' /\ reset'[req[q].tok] = reset[req[q].tok]
  PROVE  \A q \in Requests : q # r => ReqOK(q)'
BY NoneAssumption DEF IInv, RequestInv, ReqOK, Sending, Consuming

\* ForgotPassword takes a token that nobody has.
LEMMA ForgotInv ==
  ASSUME IInv, TypeOK', NEW r \in Requests, NEW u \in Users, ForgotPassword(r, u)
  PROVE  IInv'
<1> USE DEF IInv
<1>1. PICK t \in Tokens :
        /\ owner[t] = None
        /\ owner' = [owner EXCEPT ![t] = u]
        /\ req' = [req EXCEPT ![r] = [pc |-> "store", user |-> u, tok |-> t]]
  BY DEF ForgotPassword
<1>2. UNCHANGED <<clock, mailed, reset, password, spent, uses>> /\ req[r].pc = "idle"
  BY DEF ForgotPassword
<1>3. \A k \in Tokens : owner[k] # None => owner'[k] = owner[k] /\ k # t
  BY <1>1 DEF TypeOK
<1>4. \A q \in Requests : q # r => req'[q] = req[q]
  BY <1>1 DEF TypeOK
<1>5. req'[r] = [pc |-> "store", user |-> u, tok |-> t] /\ owner'[t] = u
  BY <1>1 DEF TypeOK
<1>6. \A q \in Requests : q # r => ReqOK(q)'
  BY <1>2, <1>3, <1>4, OtherRequests DEF RequestInv, ReqOK
<1>7. ReqOK(r)'
  BY <1>1, <1>2, <1>5 DEF ReqOK, Sending, Consuming, KeyInv
<1>8. \A q \in Requests : req[q].pc # "idle" => req[q].tok # t
  BY <1>1, NoneAssumption DEF RequestInv, ReqOK
<1>9. OwnToken'
  BY <1>4, <1>5, <1>8 DEF OwnToken, Sending
<1>10. KeyInv'
  BY <1>1, <1>2, <1>3 DEF KeyInv
<1>11. ResetsOwnPassword'
  BY <1>2, <1>3, NoneAssumption DEF ResetsOwnPassword, TypeOK
<1>12. \A k \in Tokens : Consumers(k)' = Consumers(k)
  BY <1>2, <1>4, <1>5 DEF Consumers, Consuming
<1>13. UsesCounted'
  BY <1>2, <1>12 DEF UsesCounted
<1> QED
  BY <1>6, <1>7, <1>9, <1>10, <1>11, <1>13 DEF RequestInv

\* A token is stored for its user before it is mailed, and is nowhere yet.
LEMMA StoreInv ==
  ASSUME IInv, TypeOK', NEW r \in Requests, StorePasswordResetToken(r)
  PROVE  IInv'
<1> USE DEF IInv
<1>1. PICK t \in Tokens : t = req[r].tok
  BY RequestFields DEF StorePasswordResetToken
<1>2. PICK o \in RedisOutcomes :
        /\ reset' = IF Executed(o) THEN [reset EXCEPT ![t] = SetKey(req[r].user, clock, ResetTTL)]
                    ELSE reset
        /\ IF o = "ok" THEN Goto(r, "mail") ELSE Answer(r)
  BY <1>1 DEF StorePasswordResetToken
<1>3. UNCHANGED <<clock, owner, mailed, password, spent, uses>> /\ req[r].pc = "store"
  BY DEF StorePasswordResetToken
<1>4. /\ req[r].user \in Users /\ owner[t] = req[r].user
      /\ t \notin mailed /\ t \notin spent
  BY <1>1, <1>3 DEF RequestInv, ReqOK, Sending, KeyInv
<1>5. \A k \in Tokens : k # t => reset'[k] = reset[k]
  BY <1>2 DEF TypeOK
<1>6. reset'[t].val = req[r].user \/ (o # "ok" /\ reset'[t] = reset[t])
  BY <1>2, <1>4, ValueTypes DEF Executed, TypeOK
<1>7. \A q \in Requests : q # r => req'[q] = req[q]
  BY <1>2 DEF Goto, Answer, TypeOK
<1>8. \/ o = "ok" /\ req'[r] = [req[r] EXCEPT !.pc = "mail"]
      \/ req'[r] = Idle
  BY <1>2 DEF Goto, Answer, TypeOK
<1>9. \A q \in Requests : q # r => ReqOK(q)'
  <2>1. \A q \in Requests : q # r /\ Sending(q) => req[q].tok # t /\ req[q].tok \in Tokens
    BY <1>1, <1>3 DEF OwnToken, Sending, RequestInv, ReqOK
  <2> QED
    BY <1>3, <1>5, <1>7, <2>1, OtherRequests DEF RequestInv, ReqOK
<1>10. ReqOK(r)'
  <2>1. CASE o = "ok" /\ req'[r] = [req[r] EXCEPT !.pc = "mail"]
    <3>1. req'[r].pc = "mail" /\ req'[r].tok = t /\ req'[r].user = req[r].user
      BY <2>1, <1>1, <1>3 DEF TypeOK, Request, Idle
    <3> QED
      BY <2>1, <3>1, <1>3, <1>4, <1>6 DEF ReqOK, Sending, Consuming
  <2>2. CASE req'[r] = Idle
    BY <2>2 DEF ReqOK, Sending, Consuming, Idle
  <2> QED
    BY <2>1, <2>2, <1>8
<1>11. \A q \in Requests : /\ Sending(q)' => Sending(q) /\ req'[q].tok = req[q].tok
                           /\ Consuming(q)' <=> Consuming(q)
                           /\ Consuming(q) => req'[q].tok = req[q].tok
  BY <1>3, <1>7, <1>8 DEF Sending, Consuming, Idle, TypeOK, Request
<1>12. OwnToken'
  BY <1>11 DEF OwnToken
<1>13. KeyInv'
  BY <1>3, <1>4, <1>5, <1>6 DEF KeyInv
<1>14. ResetsOwnPassword'
  BY <1>3 DEF ResetsOwnPassword
<1>15. \A k \in Tokens : Consumers(k)' = Consumers(k)
  BY <1>11 DEF Consumers
<1>16. UsesCounted'
  BY <1>3, <1>15 DEF UsesCounted
<1> QED
  BY <1>9, <1>10, <1>12, <1>13, <1>14, <1>16 DEF RequestInv

\* The mail goes to the only request's token, which is stored for its user.
LEMMA SendInv ==
  ASSUME IInv, TypeOK', NEW r \in Requests, SendPasswordReset(r)
  PROVE  IInv'
<1> USE DEF IInv
<1>1. PICK t \in Tokens : t = req[r].tok
  BY RequestFields DEF SendPasswordReset
<1>2. /\ req[r].pc = "mail"
      /\ mailed' \in {mailed, mailed \cup {t}}
      /\ UNCHANGED <<clock, owner, reset, password, spent, uses>>
  BY <1>1 DEF SendPasswordReset
<1>3. /\ req'[r] = Idle
      /\ \A q \in Requests : q # r => req'[q] = req[q]
  BY DEF SendPasswordReset, Answer, TypeOK
<1>4. reset[t].val = owner[t] /\ owner[t] # None /\ t \notin mailed
  BY <1>1, <1>2, NoneAssumption DEF RequestInv, ReqOK, Sending
<1>5. \A q \in Requests : q # r => ReqOK(q)'
  <2>1. \A q \in Requests : q # r /\ Sending(q) => req[q].tok # t /\ req[q].tok \notin mailed
    BY <1>1, <1>2 DEF OwnToken, Sending, RequestInv, ReqOK
  <2> QED
    BY <1>2, <1>3, <2>1, OtherRequests
<1>6. ReqOK(r)'
  BY <1>3 DEF ReqOK, Sending, Consuming, Idle
<1>7. OwnToken'
  BY <1>3 DEF OwnToken, Sending, Idle
<1>8. KeyInv'
  BY <1>2, <1>4 DEF KeyInv
<1>9. ResetsOwnPassword'
  BY <1>2 DEF ResetsOwnPassword
<1>10. \A k \in Tokens : Consumers(k)' = Consumers(k)
  BY <1>2, <1>3 DEF Consumers, Consuming, Idle
<1>11. UsesCounted'
  BY <1>2, <1>10 DEF UsesCounted
<1> QED
  BY <1>5, <1>6, <1>7, <1>8, <1>9, <1>11 DEF RequestInv

\* A request that reads a live key joins the consumers of a token that no one
\* has deleted yet, and so no one has used.
LEMMA GetInv ==
  ASSUME IInv, TypeOK', NEW r \in Requests, NEW t \in Tokens, ConsumeGet(r, t)
  PROVE  IInv'
<1> USE DEF IInv
<1>1. /\ req[r].pc = "idle" /\ t \in mailed /\ reset[t].val # None
      /\ req' = [req EXCEPT ![r] = [pc |-> "del", user |-> reset[t].val, tok |-> t]]
      /\ UNCHANGED <<clock, owner, mailed, reset, password, spent, uses>>
  BY DEF ConsumeGet, LiveKey
<1>2. /\ req'[r] = [pc |-> "del", user |-> reset[t].val, tok |-> t]
      /\ \A q \in Requests : q # r => req'[q] = req[q]
  BY <1>1 DEF TypeOK
<1>3. owner[t] = reset[t].val /\ reset[t].val \in Users /\ t \notin spent
  BY <1>1 DEF KeyInv, TypeOK, NoKey
<1>4. \A q \in Requests : q # r => ReqOK(q)'
  BY <1>1, <1>2, OtherRequests DEF RequestInv, ReqOK
<1>5. ReqOK(r)'
  BY <1>1, <1>2, <1>3 DEF ReqOK, Sending, Consuming
<1>6. OwnToken'
  BY <1>2 DEF OwnToken, Sending
<1>7. KeyInv' /\ ResetsOwnPassword'
  BY <1>1 DEF KeyInv, ResetsOwnPassword
<1>8. \A k \in Tokens : k # t => Consumers(k)' = Consumers(k)
  BY <1>1, <1>2 DEF Consumers, Consuming
<1>9. uses[t] = 0
  BY <1>3 DEF KeyInv, TypeOK
<1>10. UsesCounted'
  <2> SUFFICES ASSUME NEW k \in Tokens
               PROVE  uses'[k] + Cardinality(Consumers(k)') <= Cardinality(Requests)
    BY DEF UsesCounted
  <2>1. CASE k = t
    BY <2>1, <1>1, <1>9, ConsumersBoundedNext
  <2>2. CASE k # t
    BY <2>2, <1>1, <1>8 DEF UsesCounted
  <2> QED
    BY <2>1, <2>2
<1> QED
  BY <1>4, <1>5, <1>6, <1>7, <1>10 DEF RequestInv

\* DEL spends the token; the request goes on only if it was executed.
LEMMA DelInv ==
  ASSUME IInv, TypeOK', NEW r \in Requests, ConsumeDel(r)
  PROVE  IInv'
<1> USE DEF IInv
<1>1. PICK t \in Tokens : t = req[r].tok
  BY RequestFields DEF ConsumeDel
<1>2. PICK o \in RedisOutcomes :
        /\ IF Executed(o) THEN reset' = [reset EXCEPT ![t] = NoKey] /\ spent' = spent \cup {t}
           ELSE UNCHANGED <<reset, spent>>
        /\ IF o = "ok" THEN Goto(r, "update") ELSE Answer(r)
  BY <1>1 DEF ConsumeDel
<1>3. UNCHANGED <<clock, owner, mailed, password, uses>> /\ req[r].pc = "del"
  BY DEF ConsumeDel
<1>4. t \in mailed /\ req[r].user \in Users /\ owner[t] = req[r].user
  BY <1>1, <1>3 DEF RequestInv, ReqOK, Consuming
<1>5. /\ \A k \in Tokens : k # t => reset'[k] = reset[k] /\ (k \in spent' <=> k \in spent)
      /\ \/ reset'[t] = NoKey /\ t \in spent'
         \/ o # "ok" /\ reset'[t] = reset[t] /\ spent' = spent
  BY <1>2 DEF Executed, TypeOK
<1>6. \A q \in Requests : q # r => req'[q] = req[q]
  BY <1>2 DEF Goto, Answer, TypeOK
<1>7. \/ o = "ok" /\ req'[r] = [req[r] EXCEPT !.pc = "update"]
      \/ req'[r] = Idle
  BY <1>2 DEF Goto, Answer, TypeOK
<1>8. \A q \in Requests : q # r => ReqOK(q)'
  <2>1. \A q \in Requests : Sending(q) => req[q].tok # t /\ req[q].tok \in Tokens
                                          /\ req[q].tok \notin mailed
    BY <1>4 DEF Sending, RequestInv, ReqOK
  <2>2. spent \subseteq spent'
    BY <1>2
  <2> QED
    BY <1>3, <1>5, <1>6, <2>1, <2>2, OtherRequests
<1>9. ReqOK(r)'
  <2>1. CASE o = "ok" /\ req'[r] = [req[r] EXCEPT !.pc = "update"]
    <3>1. req'[r].pc = "update" /\ req'[r].tok = t /\ req'[r].user = req[r].user
      BY <2>1, <1>1, <1>3 DEF TypeOK, Request, Idle
    <3> QED
      BY <2>1, <3>1, <1>3, <1>4, <1>5 DEF ReqOK, Sending, Consuming
  <2>2. CASE req'[r] = Idle
    BY <2>2 DEF ReqOK, Sending, Consuming, Idle
  <2> QED
    BY <2>1, <2>2, <1>7
<1>10. \A q \in Requests : /\ Sending(q)' => Sending(q) /\ req'[q].tok = req[q].tok
                           /\ Consuming(q)' => Consuming(q) /\ req'[q].tok = req[q].tok
  BY <1>3, <1>6, <1>7 DEF Sending, Consuming, Idle, TypeOK, Request
<1>11. OwnToken'
  BY <1>10 DEF OwnToken
<1>12. KeyInv'
  BY <1>3, <1>4, <1>5 DEF KeyInv, NoKey
<1>13. ResetsOwnPassword'
  BY <1>3 DEF ResetsOwnPassword
<1>14. \A k \in Tokens : Consumers(k)' \subseteq Consumers(k)
  BY <1>10 DEF Consumers
<1>15. UsesCounted'
  BY <1>3, <1>14, ConsumersFewer, ConsumersBounded, ConsumersBoundedNext, RequestsCounted
     DEF UsesCounted, TypeOK
<1> QED
  BY <1>8, <1>9, <1>11, <1>12, <1>13, <1>15 DEF RequestInv

\* A use is one consumer less.
LEMMA UpdateInv ==
  ASSUME IInv, TypeOK', NEW r \in Requests, ResetUpdate(r)
  PROVE  IInv'
<1> USE DEF IInv
<1>1. PICK t \in Tokens : t = req[r].tok
  BY RequestFields DEF ResetUpdate
<1>2. /\ req[r].pc = "update"
      /\ UNCHANGED <<clock, owner, mailed, reset, spent>>
      /\ \/ password' = [password EXCEPT ![req[r].user] = t] /\ uses' = [uses EXCEPT ![t] = @ + 1]
         \/ UNCHANGED <<password, uses>>
  BY <1>1 DEF ResetUpdate
<1>3. /\ req'[r] = Idle
      /\ \A q \in Requests : q # r => req'[q] = req[q]
  BY DEF ResetUpdate, Answer, TypeOK
<1>4. t \in spent /\ req[r].user \in Users /\ owner[t] = req[r].user
  BY <1>1, <1>2 DEF RequestInv, ReqOK
<1>5. \A q \in Requests : q # r => ReqOK(q)'
  BY <1>2, <1>3, OtherRequests DEF RequestInv, ReqOK
<1>6. ReqOK(r)'
  BY <1>3 DEF ReqOK, Sending, Consuming, Idle
<1>7. OwnToken'
  BY <1>3 DEF OwnToken, Sending, Idle
<1>8. KeyInv'
  BY <1>2, <1>4 DEF KeyInv, TypeOK
<1>9. ResetsOwnPassword'
  BY <1>2, <1>4 DEF ResetsOwnPassword, TypeOK
<1>10. \A k \in Tokens : k # t => Consumers(k)' = Consumers(k) /\ uses'[k] = uses[k]
  BY <1>1, <1>2, <1>3 DEF Consumers, Consuming, Idle, TypeOK
<1>11. Consumers(t)' = Consumers(t) \ {r} /\ r \in Consumers(t)
  BY <1>1, <1>2, <1>3 DEF Consumers, Consuming, Idle
<1>12. Cardinality(Consumers(t)') = Cardinality(Consumers(t)) - 1
  BY <1>11, ConsumersBounded, FS_RemoveElement
<1>13. uses'[t] \in {uses[t], uses[t] + 1}
  BY <1>2 DEF TypeOK
<1>14. UsesCounted'
  <2> SUFFICES ASSUME NEW k \in Tokens
               PROVE  uses'[k] + Cardinality(Consumers(k)') <= Cardinality(Requests)
    BY DEF UsesCounted
  <2>1. CASE k = t
    BY <2>1, <1>12, <1>13, ConsumersBounded, RequestsCounted DEF UsesCounted, TypeOK
  <2>2. CASE k # t
    BY <2>2, <1>10 DEF UsesCounted
  <2> QED
    BY <2>1, <2>2
<1> QED
  BY <1>5, <1>6, <1>7, <1>8, <1>9, <1>14 DEF RequestInv

\* A crash empties the requests, which only lets go of tokens.
LEMMA CrashInv ==
  ASSUME IInv, TypeOK', Crash
  PROVE  IInv'
<1> USE DEF IInv
<1>1. /\ \A r \in Requests : req'[r] = Idle
      /\ UNCHANGED <<clock, owner, mailed, reset, password, spent, uses>>
  BY DEF Crash
<1>2. RequestInv' /\ OwnToken'
  BY <1>1 DEF RequestInv, ReqOK, OwnToken, Sending, Consuming, Idle
<1>3. KeyInv' /\ ResetsOwnPassword'
  BY <1>1 DEF KeyInv, ResetsOwnPassword
<1>4. \A k \in Tokens : Consumers(k)' \subseteq Consumers(k)
  BY <1>1 DEF Consumers, Consuming, Idle
<1>5. UsesCounted'
  BY <1>1, <1>4, ConsumersFewer, ConsumersBounded, ConsumersBoundedNext, RequestsCounted
     DEF UsesCounted, TypeOK
<1> QED
  BY <1>2, <1>3, <1>5

\* Every step preserves the invariant.
LEMMA NextInv == IInv /\ [Next]_vars => IInv'
<1> SUFFICES ASSUME IInv, [Next]_vars PROVE IInv'
  OBVIOUS
<1>1. TypeOK'
  BY NextType DEF IInv
<1>2. CASE Tick
  BY <1>1, <1>2 DEF Tick, IInv, RequestInv, ReqOK, OwnToken, Sending, Consuming, KeyInv,
                    ResetsOwnPassword, UsesCounted, Consumers
<1>3. CASE UNCHANGED vars
  BY <1>1, <1>3 DEF vars, IInv, RequestInv, ReqOK, OwnToken, Sending, Consuming, KeyInv,
                    ResetsOwnPassword, UsesCounted, Consumers
<1> QED
  BY <1>1, <1>2, <1>3, ForgotInv, StoreInv, SendInv, GetInv, DelInv, UpdateInv, CrashInv
     DEF Next, ResetRefused

-----------------------------------------------------------------------------
\* The inductive invariant holds in every reachable state.
THEOREM Invariance == Spec => []IInv
BY InitInv, NextInv, PTL DEF Spec

\* Every variable keeps its shape.
THEOREM TypeCorrect == Spec => []TypeOK
<1>1. IInv => TypeOK
  BY DEF IInv
<1> QED
  BY <1>1, Invariance, PTL

\* ConsumePasswordResetToken has deleted the token for good before
\* UpdatePassword runs.
THEOREM ConsumedFirst == Spec => []ConsumedBeforeUpdate
<1>1. IInv => ConsumedBeforeUpdate
  BY DEF IInv, ConsumedBeforeUpdate, KeyInv, RequestInv, ReqOK
<1> QED
  BY <1>1, Invariance, PTL

\* A token that ForgotPassword mailed is stored for its user until a
\* ResetPassword deletes it.
THEOREM MailedUsable == Spec => []MailedTokenUsable
<1>1. IInv => MailedTokenUsable
  BY DEF IInv, MailedTokenUsable, KeyInv, TypeOK
<1> QED
  BY <1>1, Invariance, PTL

\* The GET; DEL of ResetPassword lets no more requests use a token than there
\* are requests at once, over any number of crashes and retries.
THEOREM UsesLimited == Spec => []UsesBounded
<1>1. IInv => UsesBounded
  BY ConsumersBounded, RequestsCounted DEF IInv, UsesBounded, UsesCounted, TypeOK
<1> QED
  BY <1>1, Invariance, PTL

\* A reset changes the password of the user whom its token was generated for,
\* and of no other.
THEOREM OwnPassword == Spec => []ResetsOwnPassword
<1>1. IInv => ResetsOwnPassword
  BY DEF IInv
<1> QED
  BY <1>1, Invariance, PTL

-----------------------------------------------------------------------------
(***************************************************************************)
(* A reset token lives as a refresh token does: PasswordReset implements   *)
(* TokenLife, with no token generated in exchange for another.  Of two     *)
(* requests that read a token and delete it, the later one stutters.       *)
(***************************************************************************)
LifeOf(t) ==
  CASE t \in spent -> "dead"
    [] t \notin spent /\ reset[t].val # None -> "live"
    [] t \notin spent /\ reset[t].val = None /\ owner[t] # None -> "held"
    [] OTHER -> "new"

TL == INSTANCE TokenLife WITH
        Ids <- Tokens,
        life <- [t \in Tokens |-> LifeOf(t)],
        parent <- [t \in Tokens |-> None]

\* The life of a token, read off the variables.
LEMMA LifeFacts ==
  ASSUME NEW t \in Tokens
  PROVE  /\ LifeOf(t) = "dead" <=> t \in spent
         /\ LifeOf(t) = "live" <=> t \notin spent /\ reset[t].val # None
         /\ LifeOf(t) = "held" <=> t \notin spent /\ reset[t].val = None /\ owner[t] # None
         /\ LifeOf(t) = "new" <=> t \notin spent /\ reset[t].val = None /\ owner[t] = None
BY DEF LifeOf

\* And after a step.
LEMMA NextLifeFacts ==
  ASSUME NEW t \in Tokens
  PROVE  /\ LifeOf(t)' = "dead" <=> t \in spent'
         /\ LifeOf(t)' = "live" <=> t \notin spent' /\ reset'[t].val # None
         /\ LifeOf(t)' = "held" <=> t \notin spent' /\ reset'[t].val = None /\ owner'[t] # None
         /\ LifeOf(t)' = "new" <=> t \notin spent' /\ reset'[t].val = None /\ owner'[t] = None
BY DEF LifeOf

\* A token that no command touches keeps its life.
LEMMA Untouched ==
  ASSUME NEW t \in Tokens, t \in spent' <=> t \in spent, reset'[t] = reset[t],
         owner'[t] = owner[t]
  PROVE  LifeOf(t)' = LifeOf(t)
BY DEF LifeOf

\* A step that changes no token's life stutters in TokenLife.
LEMMA Stutters ==
  ASSUME UNCHANGED owner, \A t \in Tokens : LifeOf(t)' = LifeOf(t)
  PROVE  UNCHANGED TL!tokenVars
BY DEF TL!tokenVars

\* So does one that leaves Redis and the tokens alone.
LEMMA StuttersUnchanged ==
  ASSUME UNCHANGED <<owner, reset, spent>>
  PROVE  UNCHANGED TL!tokenVars
BY Untouched, Stutters

\* No token is generated in the initial state.
LEMMA InitRefines == Init => TL!Init
BY DEF Init, TL!Init, LifeOf, NoKey

\* ForgotPassword generates a token.
LEMMA ForgotRefines ==
  ASSUME IInv, NEW r \in Requests, NEW u \in Users, ForgotPassword(r, u)
  PROVE  TL!Next
<1> USE DEF IInv
<1>1. PICK t \in Tokens : owner[t] = None /\ owner' = [owner EXCEPT ![t] = u]
  BY DEF ForgotPassword
<1>2. UNCHANGED <<reset, spent>>
  BY DEF ForgotPassword
<1>3. t \notin spent /\ reset[t].val = None
  BY <1>1 DEF KeyInv
<1>4. owner'[t] = u /\ \A k \in Tokens : k # t => owner'[k] = owner[k]
  BY <1>1 DEF TypeOK
<1>5. LifeOf(t) = "new" /\ LifeOf(t)' = "held"
  BY <1>1, <1>2, <1>3, <1>4, LifeFacts, NextLifeFacts, NoneAssumption
<1>6. \A k \in Tokens : k # t => LifeOf(k)' = LifeOf(k)
  BY <1>2, <1>4, Untouched
<1>7. TL!Generate(t, u, None)
  BY <1>1, <1>5, <1>6 DEF TL!Generate
<1> QED
  BY <1>7 DEF TL!Next

\* StorePasswordResetToken stores it, or nothing if the command fails.
LEMMA StoreRefines ==
  ASSUME IInv, NEW r \in Requests, StorePasswordResetToken(r)
  PROVE  [TL!Next]_(TL!tokenVars)
<1> USE DEF IInv
<1>1. req[r].pc = "store" /\ UNCHANGED <<owner, spent>>
  BY DEF StorePasswordResetToken
<1>2. PICK t \in Tokens : t = req[r].tok
  BY <1>1 DEF RequestInv, ReqOK
<1>3. PICK u \in Users : u = req[r].user
  BY <1>1 DEF RequestInv, ReqOK
<1>4. owner[t] = u /\ t \notin mailed /\ t \notin spent
  BY <1>1, <1>2, <1>3 DEF RequestInv, ReqOK, Sending, KeyInv
<1>5. CASE reset' = reset
  BY <1>1, <1>5, StuttersUnchanged
<1>6. CASE reset' = [reset EXCEPT ![t] = SetKey(u, clock, ResetTTL)]
  <2>1. reset'[t].val = u /\ \A k \in Tokens : k # t => reset'[k] = reset[k]
    BY <1>6, ValueTypes DEF TypeOK
  <2>2. LifeOf(t)' = "live" /\ LifeOf(t) \in {"held", "live"}
    BY <1>1, <1>4, <2>1, LifeFacts, NextLifeFacts, NoneAssumption
  <2>3. \A k \in Tokens : k # t => LifeOf(k)' = LifeOf(k)
    BY <1>1, <2>1, Untouched
  <2>4. CASE LifeOf(t) = "held"
    <3>1. TL!Store(t)
      BY <1>1, <2>2, <2>3, <2>4 DEF TL!Store
    <3> QED
      BY <3>1 DEF TL!Next
  <2>5. CASE LifeOf(t) = "live"
    BY <1>1, <2>2, <2>3, <2>5, Stutters
  <2> QED
    BY <2>2, <2>4, <2>5
<1> QED
  BY <1>2, <1>3, <1>5, <1>6 DEF StorePasswordResetToken

\* The DEL of ConsumePasswordResetToken deletes it, unless another has.
LEMMA DelRefines ==
  ASSUME IInv, NEW r \in Requests, ConsumeDel(r)
  PROVE  [TL!Next]_(TL!tokenVars)
<1> USE DEF IInv
<1>1. req[r].pc = "del" /\ UNCHANGED owner
  BY DEF ConsumeDel
<1>2. PICK t \in Tokens : t = req[r].tok
  BY <1>1 DEF RequestInv, ReqOK
<1>3. t \in mailed /\ owner[t] # None
  BY <1>1, <1>2 DEF RequestInv, ReqOK, Consuming, KeyInv
<1>4. CASE UNCHANGED <<reset, spent>>
  BY <1>1, <1>4, StuttersUnchanged
<1>5. CASE reset' = [reset EXCEPT ![t] = NoKey] /\ spent' = spent \cup {t}
  <2>1. \A k \in Tokens : k # t => reset'[k] = reset[k] /\ (k \in spent' <=> k \in spent)
    BY <1>5 DEF TypeOK
  <2>2. \A k \in Tokens : k # t => LifeOf(k)' = LifeOf(k)
    BY <1>1, <2>1, Untouched
  <2>3. LifeOf(t)' = "dead" /\ LifeOf(t) \in {"live", "dead"}
    BY <1>3, <1>5, LifeFacts, NextLifeFacts DEF KeyInv
  <2>4. CASE LifeOf(t) = "live"
    <3>1. TL!Delete(t)
      BY <1>1, <2>2, <2>3, <2>4 DEF TL!Delete
    <3> QED
      BY <3>1 DEF TL!Next
  <2>5. CASE LifeOf(t) = "dead"
    BY <1>1, <2>2, <2>3, <2>5, Stutters
  <2> QED
    BY <2>3, <2>4, <2>5
<1> QED
  BY <1>2, <1>4, <1>5 DEF ConsumeDel

\* Every step of PasswordReset is a step of TokenLife or a stutter.
LEMMA NextRefines ==
  ASSUME IInv, [Next]_vars
  PROVE  [TL!Next]_(TL!tokenVars)
<1>1. CASE UNCHANGED <<owner, reset, spent>>
  BY <1>1, StuttersUnchanged
<1>2. ASSUME NEW r \in Requests, NEW u \in Users, ForgotPassword(r, u)
      PROVE  [TL!Next]_(TL!tokenVars)
  BY <1>2, ForgotRefines
<1>3. ASSUME NEW r \in Requests, StorePasswordResetToken(r)
      PROVE  [TL!Next]_(TL!tokenVars)
  BY <1>3, StoreRefines
<1>4. ASSUME NEW r \in Requests, ConsumeDel(r) PROVE [TL!Next]_(TL!tokenVars)
  BY <1>4, DelRefines
<1> QED
  BY <1>1, <1>2, <1>3, <1>4
     DEF Next, vars, SendPasswordReset, ResetRefused, ConsumeGet, ResetUpdate, Tick, Crash

\* PasswordReset implements TokenLife: whatever requests of ForgotPassword and
\* ResetPassword interleave, fail or die, each reset token becomes valid at
\* most once, never returns after its deletion, and never changes its user.
THEOREM ResetRefinement == Spec => TL!Spec
BY InitRefines, NextRefines, Invariance, PTL DEF Spec, TL!Spec

=============================================================================
