------------------------------ MODULE CliProofs -----------------------------
(***************************************************************************)
(* Proofs about Cli, for any number of commands, servers and tokens, with  *)
(* failing writes and processes that die anywhere.                         *)
(*                                                                         *)
(* Nothing locks the file, so what makes it safe is what the commands hold *)
(* in memory: CmdOK.  The one way a token could come back into the file    *)
(* after its logout is a login still about to write it; NewToken says that *)
(* as long as there is such a login, nobody else knows the token.          *)
(***************************************************************************)
EXTENDS Cli, TLAPS

\* A command that is about to write its configuration.
Saving(p) == cmd[p].pc \in {"truncate", "write"}

\* What a command in flight knows of its token and its configuration.
LoginOK(p) ==
  cmd[p].op = "login" =>
    /\ Saving(p)
    /\ cmd[p].cfg.token \in Tokens
    /\ server[cmd[p].cfg.token] # "unused"
    /\ issuer[cmd[p].cfg.token] = cmd[p].cfg.url

LogoutOK(p) ==
  cmd[p].op = "logout" =>
    /\ cmd[p].token \in Tokens
    /\ Saving(p) => cmd[p].cfg.token = None
    /\ cmd[p].pc # "revoke" => cmd[p].token \in warned \/ server[cmd[p].token] # "valid"

CmdOK(p) ==
  /\ LoginOK(p)
  /\ LogoutOK(p)
  /\ cmd[p].op = "users" => ~Saving(p) /\ cmd[p].pc \notin {"revoke", "clear"}
  /\ cmd[p].pc \in {"revoke", "call"} =>
       /\ cmd[p].token \in Tokens
       /\ issuer[cmd[p].token] = cmd[p].cfg.url
  /\ cmd[p].cfg.token # None => server[cmd[p].cfg.token] # "unused"
  /\ cmd[p].token # None => server[cmd[p].token] # "unused"

CommandInv == \A p \in Commands : CmdOK(p)

\* A token that a login is about to save is not known to anyone else.
NewToken ==
  \A p \in Commands :
    cmd[p].op = "login" =>
      /\ file.cfg.token # cmd[p].cfg.token
      /\ cmd[p].cfg.token \notin out
      /\ \A q \in Commands : q # p => /\ cmd[q].cfg.token # cmd[p].cfg.token
                                      /\ cmd[q].token # cmd[p].cfg.token

\* The file holds a token with the URL of its issuer, and no token that was
\* logged out.
FileInv ==
  /\ file.kind # "config" => file.cfg = Fresh
  /\ file.cfg.token # None =>
       /\ server[file.cfg.token] # "unused"
       /\ issuer[file.cfg.token] = file.cfg.url
       /\ file.cfg.token \notin out

\* A token that was logged out was issued, and revoked if there was no warning.
OutInv == \A t \in out : server[t] # "unused" /\ (t \in warned \/ server[t] # "valid")

\* Unless Saves have overlapped, at most one command is between truncating the
\* file and writing it, and the file is empty then.
SaveInv ==
  ~overlap =>
    /\ \A p, q \in Commands : cmd[p].pc = "write" /\ cmd[q].pc = "write" => p = q
    /\ \A p \in Commands : cmd[p].pc = "write" => file = Empty

\* The shapes of the variables, which the rest of TypeOK follows from.
Types ==
  /\ file \in Content
  /\ server \in [Tokens -> {"unused", "valid", "revoked", "expired"}]
  /\ cmd \in [Commands -> Command]
  /\ out \subseteq Tokens
  /\ warned \subseteq Tokens
  /\ overlap \in BOOLEAN
  /\ issuer \in [Tokens -> Urls \cup {None}]

IInv == Types /\ CommandInv /\ NewToken /\ FileInv /\ OutInv /\ SaveInv /\ ConfigLoads

-----------------------------------------------------------------------------
(***************************************************************************)
(* Types.                                                                  *)
(***************************************************************************)
\* The values that commands and the file are reset to have their types.
LEMMA ValueTypes ==
  /\ Fresh \in Config
  /\ Idle \in Command
  /\ Empty \in Content
  /\ Mixed \in Content
  /\ Empty # Mixed
BY DEF Fresh, Config, Idle, Command, Pcs, Empty, Mixed, Content

\* The fields of the file and of a command.
LEMMA FieldTypes ==
  ASSUME Types
  PROVE  /\ file.cfg \in Config
         /\ file.cfg.token \in Tokens \cup {None}
         /\ \A p \in Commands : /\ cmd[p].pc \in Pcs
                                /\ cmd[p].cfg \in Config
                                /\ cmd[p].cfg.token \in Tokens \cup {None}
                                /\ cmd[p].token \in Tokens \cup {None}
BY DEF Types, Content, Command, Config

\* The initial state satisfies the invariant.
LEMMA InitInv == Init => IInv
<1> SUFFICES ASSUME Init PROVE IInv
  OBVIOUS
<1>1. Types
  BY ValueTypes DEF Init, Types
<1>2. \A p \in Commands : cmd[p] = Idle
  BY DEF Init
<1>3. CommandInv /\ NewToken /\ SaveInv
  BY <1>2 DEF CommandInv, CmdOK, LoginOK, LogoutOK, Saving, NewToken, SaveInv, Idle, Fresh
<1>4. FileInv /\ OutInv /\ ConfigLoads
  BY ValueTypes DEF Init, FileInv, OutInv, ConfigLoads, LoadFails, Empty, Fresh
<1> QED
  BY <1>1, <1>3, <1>4 DEF IInv

-----------------------------------------------------------------------------
(***************************************************************************)
(* The steps.                                                              *)
(***************************************************************************)
\* A step that issues or revokes tokens, and prints warnings, leaves what the
\* other commands and the file say of their tokens true.
LEMMA OtherCommands ==
  ASSUME IInv, NEW p \in Commands,
         \A q \in Commands : q # p => cmd'[q] = cmd[q],
         \A t \in Tokens : server[t] # "unused" =>
            /\ server'[t] # "unused"
            /\ server'[t] = "valid" => server[t] = "valid"
            /\ issuer'[t] = issuer[t],
         warned \subseteq warned'
  PROVE  \A q \in Commands : q # p => CmdOK(q)'
<1> SUFFICES ASSUME NEW q \in Commands, q # p PROVE CmdOK(q)'
  OBVIOUS
<1>1. cmd'[q] = cmd[q] /\ CmdOK(q)
  BY DEF IInv, CommandInv
<1>2. cmd[q].cfg.token \in Tokens \cup {None} /\ cmd[q].token \in Tokens \cup {None}
  BY FieldTypes DEF IInv
<1>3. LoginOK(q)'
  BY <1>1 DEF CmdOK, LoginOK, Saving
<1>4. LogoutOK(q)'
  <2> SUFFICES ASSUME cmd[q].op = "logout" PROVE LogoutOK(q)'
    BY <1>1 DEF LogoutOK
  <2>1. cmd[q].token \in Tokens /\ server[cmd[q].token] # "unused"
    BY <1>1, NoneAssumption DEF CmdOK, LogoutOK
  <2> QED
    BY <1>1, <2>1 DEF CmdOK, LogoutOK, Saving
<1>5. \A t \in Tokens : server[t] # "unused" => server'[t] # "unused" /\ issuer'[t] = issuer[t]
  OBVIOUS
<1>6. /\ cmd'[q].op = "users" => ~Saving(q)' /\ cmd'[q].pc \notin {"revoke", "clear"}
      /\ cmd'[q].pc \in {"revoke", "call"} =>
           /\ cmd'[q].token \in Tokens
           /\ issuer'[cmd'[q].token] = cmd'[q].cfg.url
  BY <1>1, <1>5, NoneAssumption DEF CmdOK, Saving
<1>7. /\ cmd'[q].cfg.token # None => server'[cmd'[q].cfg.token] # "unused"
      /\ cmd'[q].token # None => server'[cmd'[q].token] # "unused"
  BY <1>1, <1>2, <1>5 DEF CmdOK
<1> QED
  BY <1>3, <1>4, <1>6, <1>7 DEF CmdOK

\* A command that exits, or dies, forgets.
LEMMA ExitInv ==
  ASSUME IInv, NEW p \in Commands, Exits(p),
         UNCHANGED <<file, server, issuer, out, warned, overlap>>
  PROVE  IInv'
<1> USE DEF IInv
<1>1. cmd'[p] = Idle /\ \A q \in Commands : q # p => cmd'[q] = cmd[q]
  BY DEF Exits, Types
<1>2. Types'
  BY ValueTypes DEF Types, Exits
<1>3. CmdOK(p)'
  BY <1>1 DEF CmdOK, LoginOK, LogoutOK, Saving, Idle, Fresh
<1>4. CommandInv'
  BY <1>1, <1>3, OtherCommands DEF CommandInv
<1>5. NewToken'
  <2> SUFFICES ASSUME NEW q \in Commands, cmd'[q].op = "login"
               PROVE  /\ file.cfg.token # cmd'[q].cfg.token
                      /\ cmd'[q].cfg.token \notin out
                      /\ \A s \in Commands : s # q => /\ cmd'[s].cfg.token # cmd'[q].cfg.token
                                                      /\ cmd'[s].token # cmd'[q].cfg.token
    BY DEF NewToken
  <2>1. q # p /\ cmd'[q] = cmd[q]
    BY <1>1 DEF Idle
  <2>2. cmd[q].cfg.token # None
    BY <2>1, NoneAssumption DEF CommandInv, CmdOK, LoginOK
  <2> QED
    BY <1>1, <2>1, <2>2 DEF NewToken, Idle, Fresh
<1>6. FileInv' /\ OutInv' /\ ConfigLoads'
  BY DEF FileInv, OutInv, ConfigLoads, LoadFails
<1>7. SaveInv'
  BY <1>1 DEF SaveInv, Idle
<1> QED
  BY <1>2, <1>4, <1>5, <1>6, <1>7

\* Login issues a token that nobody knows yet.
LEMMA LoginInv ==
  ASSUME IInv, NEW p \in Commands, NEW url \in Urls, NEW t \in Tokens, Login(p, url, t)
  PROVE  IInv'
<1> USE DEF IInv
<1> DEFINE new == [pc |-> "truncate", op |-> "login", token |-> None,
                   cfg |-> [url |-> url, token |-> t]]
<1>1. /\ cmd[p].pc = "idle" /\ server[t] = "unused"
      /\ UNCHANGED <<file, out, warned, overlap>>
  BY DEF Login
<1>2. \/ UNCHANGED <<server, issuer, cmd>>
      \/ /\ server' = [server EXCEPT ![t] = "valid"]
         /\ issuer' = [issuer EXCEPT ![t] = url]
         /\ cmd' = cmd \/ cmd' = [cmd EXCEPT ![p] = new]
  BY DEF Login, Outcomes
<1>3. CASE UNCHANGED <<server, issuer, cmd>>
  BY <1>1, <1>3 DEF Types, CommandInv, CmdOK, LoginOK, LogoutOK, Saving, NewToken, FileInv,
                    OutInv, SaveInv, ConfigLoads, LoadFails
<1>4. CASE /\ server' = [server EXCEPT ![t] = "valid"]
           /\ issuer' = [issuer EXCEPT ![t] = url]
           /\ cmd' = cmd \/ cmd' = [cmd EXCEPT ![p] = new]
  <2>1. Types'
    <3>1. new \in Command
      BY DEF Command, Config, Pcs
    <3> QED
      BY <1>1, <1>4, <3>1 DEF Types
  <2>2. \A k \in Tokens : server[k] # "unused" => k # t /\ server'[k] = server[k]
                                                  /\ issuer'[k] = issuer[k]
    BY <1>1, <1>4 DEF Types
  <2>3. server'[t] = "valid" /\ issuer'[t] = url
    BY <1>4 DEF Types
  <2>4. \A q \in Commands : q # p => cmd'[q] = cmd[q]
    BY <1>4 DEF Types
  <2>5. cmd'[p] = cmd[p] \/ cmd'[p] = new
    BY <1>4 DEF Types
  <2>6. \A q \in Commands : q # p => CmdOK(q)'
    BY <1>1, <2>2, <2>4, OtherCommands
  <2>7. cmd[p].cfg.token \in Tokens \cup {None} /\ cmd[p].token \in Tokens \cup {None}
    BY FieldTypes
  <2>8. CmdOK(p)'
    <3>1. CASE cmd'[p] = cmd[p]
      <4>1. CmdOK(p)
        BY DEF CommandInv
      <4> QED
        BY <4>1, <3>1, <1>1, <2>2, <2>7, FieldTypes, NoneAssumption
           DEF CmdOK, LoginOK, LogoutOK, Saving
    <3>2. CASE cmd'[p] = new
      BY <3>2, <2>3 DEF CmdOK, LoginOK, LogoutOK, Saving
    <3> QED
      BY <3>1, <3>2, <2>5
  <2>9. CommandInv'
    BY <2>6, <2>8 DEF CommandInv
  <2>10. /\ file.cfg.token # t /\ t \notin out
         /\ \A q \in Commands : cmd[q].token # t /\ cmd[q].cfg.token # t
    BY <1>1, NoneAssumption DEF FileInv, OutInv, CommandInv, CmdOK
  <2>11. NewToken'
    <3> SUFFICES ASSUME NEW q \in Commands, cmd'[q].op = "login"
                 PROVE  /\ file.cfg.token # cmd'[q].cfg.token
                        /\ cmd'[q].cfg.token \notin out
                        /\ \A s \in Commands : s # q => /\ cmd'[s].cfg.token # cmd'[q].cfg.token
                                                        /\ cmd'[s].token # cmd'[q].cfg.token
      BY <1>1 DEF NewToken
    <3>1. CASE cmd'[q] = cmd[q]
      <4>1. cmd[q].cfg.token \in Tokens
        BY <3>1 DEF CommandInv, CmdOK, LoginOK
      <4> QED
        BY <3>1, <4>1, <2>4, <2>5, <2>10, NoneAssumption DEF NewToken
    <3>2. CASE q = p /\ cmd'[p] = new
      BY <3>2, <2>4, <2>10
    <3> QED
      BY <3>1, <3>2, <2>4, <2>5
  <2>12. FileInv'
    BY <1>1, <2>2, FieldTypes DEF FileInv
  <2>13. OutInv'
    BY <1>1, <2>2 DEF OutInv, Types
  <2>14. SaveInv' /\ ConfigLoads'
    BY <1>1, <2>4, <2>5 DEF SaveInv, ConfigLoads, LoadFails
  <2> QED
    BY <2>1, <2>9, <2>11, <2>12, <2>13, <2>14
<1> QED
  BY <1>2, <1>3, <1>4

\* Commands that load the file take a token that was issued, with the URL of
\* its issuer.
LEMMA LoadInv ==
  ASSUME IInv, NEW p \in Commands, NEW l \in {"revoke", "call"}, NEW op \in {"logout", "users"},
         l = "revoke" <=> op = "logout",
         cmd[p].pc = "idle", checkAuth # None,
         cmd' = [cmd EXCEPT ![p] = [pc |-> l, op |-> op, token |-> checkAuth, cfg |-> Load]],
         UNCHANGED <<file, server, issuer, out, warned, overlap>>
  PROVE  IInv'
<1> USE DEF IInv
<1> DEFINE new == [pc |-> l, op |-> op, token |-> checkAuth, cfg |-> Load]
<1>1. checkAuth = file.cfg.token /\ file.cfg.token \in Tokens /\ file.cfg \in Config
  BY FieldTypes DEF checkAuth, Load
<1>2. cmd'[p] = new /\ \A q \in Commands : q # p => cmd'[q] = cmd[q]
  BY DEF Types
<1>3. Types'
  <2>1. new \in Command
    BY <1>1 DEF Command, Pcs, Load
  <2> QED
    BY <2>1 DEF Types
<1>4. CmdOK(p)'
  BY <1>1, <1>2, NoneAssumption DEF CmdOK, LoginOK, LogoutOK, Saving, FileInv, Load
<1>5. CommandInv'
  BY <1>2, <1>4, OtherCommands DEF CommandInv
<1>6. NewToken'
  <2> SUFFICES ASSUME NEW q \in Commands, cmd'[q].op = "login"
               PROVE  /\ file.cfg.token # cmd'[q].cfg.token
                      /\ cmd'[q].cfg.token \notin out
                      /\ \A s \in Commands : s # q => /\ cmd'[s].cfg.token # cmd'[q].cfg.token
                                                      /\ cmd'[s].token # cmd'[q].cfg.token
    BY DEF NewToken
  <2>1. q # p /\ cmd'[q] = cmd[q]
    BY <1>2
  <2> QED
    BY <1>1, <1>2, <2>1 DEF NewToken, Load
<1>7. FileInv' /\ OutInv' /\ ConfigLoads'
  BY DEF FileInv, OutInv, ConfigLoads, LoadFails
<1>8. SaveInv'
  BY <1>2 DEF SaveInv
<1> QED
  BY <1>3, <1>5, <1>6, <1>7, <1>8

\* The logout request revokes its token, or the command prints a warning.
LEMMA RevokeInv ==
  ASSUME IInv, NEW p \in Commands, LogoutRevoke(p)
  PROVE  IInv'
<1> USE DEF IInv
<1>1. /\ cmd[p].pc = "revoke" /\ cmd' = [cmd EXCEPT ![p].pc = "clear"]
      /\ UNCHANGED <<file, issuer, out, overlap>>
  BY DEF LogoutRevoke
<1>2. PICK t \in Tokens : t = cmd[p].token
  BY <1>1 DEF CommandInv, CmdOK
<1>3. cmd[p].op = "logout" /\ server[t] # "unused"
  <2>1. cmd[p].op \in {"login", "logout", "users"}
    BY DEF Types, Command
  <2> QED
    BY <1>1, <1>2, <2>1, NoneAssumption DEF CommandInv, CmdOK, LoginOK, Saving
<1>4. PICK o \in Outcomes :
        /\ o = "ok" => server[t] = "valid"
        /\ server' = IF o # "refused" /\ server[t] = "valid"
                     THEN [server EXCEPT ![t] = "revoked"] ELSE server
        /\ warned' = IF o = "ok" THEN warned ELSE warned \cup {t}
  BY <1>2 DEF LogoutRevoke
<1>5. /\ \A k \in Tokens : /\ server'[k] = server[k] \/ (k = t /\ server'[k] = "revoked")
                           /\ server[k] # "unused" => server'[k] # "unused"
                           /\ server'[k] = "valid" => server[k] = "valid"
      /\ t \in warned' \/ server'[t] # "valid"
      /\ warned \subseteq warned'
  BY <1>4 DEF Types, Outcomes
<1>6. /\ cmd'[p] = [cmd[p] EXCEPT !.pc = "clear"]
      /\ \A q \in Commands : q # p => cmd'[q] = cmd[q]
  BY <1>1 DEF Types
<1>7. /\ cmd'[p].pc = "clear" /\ cmd'[p].op = cmd[p].op
      /\ cmd'[p].cfg = cmd[p].cfg /\ cmd'[p].token = cmd[p].token
  BY <1>6 DEF Types, Command
<1>8. Types'
  <2>1. cmd' \in [Commands -> Command]
    BY <1>1 DEF Types, Command, Pcs
  <2>2. server' \in [Tokens -> {"unused", "valid", "revoked", "expired"}] /\ warned' \subseteq Tokens
    BY <1>4 DEF Types
  <2> QED
    BY <1>1, <2>1, <2>2 DEF Types
<1>9. CmdOK(p)'
  <2>1. cmd[p].cfg.token \in Tokens \cup {None}
    BY FieldTypes
  <2>2. CmdOK(p)
    BY DEF CommandInv
  <2> QED
    BY <1>2, <1>3, <1>5, <1>7, <2>1, <2>2 DEF CmdOK, LoginOK, LogoutOK, Saving
<1>10. CommandInv'
  BY <1>1, <1>5, <1>6, <1>9, OtherCommands DEF CommandInv
<1>11. NewToken'
  <2>1. \A q \in Commands : /\ cmd'[q].op = cmd[q].op /\ cmd'[q].cfg = cmd[q].cfg
                            /\ cmd'[q].token = cmd[q].token
    BY <1>6, <1>7
  <2> QED
    BY <1>1, <2>1 DEF NewToken
<1>12. FileInv'
  BY <1>1, <1>5, FieldTypes DEF FileInv
<1>13. OutInv'
  BY <1>1, <1>5 DEF OutInv, Types
<1>14. SaveInv' /\ ConfigLoads'
  BY <1>1, <1>6, <1>7 DEF SaveInv, ConfigLoads, LoadFails
<1> QED
  BY <1>8, <1>10, <1>11, <1>12, <1>13, <1>14

\* ClearToken goes on to save the file's configuration without its token.
LEMMA ClearInv ==
  ASSUME IInv, NEW p \in Commands, ClearToken(p)
  PROVE  IInv'
<1> USE DEF IInv
<1>1. cmd[p].pc = "clear" /\ UNCHANGED <<file, server, issuer, out, warned, overlap>>
  BY DEF ClearToken
<1>2. \/ Exits(p)
      \/ cmd' = [cmd EXCEPT ![p].pc = "truncate", ![p].cfg = [Load EXCEPT !.token = None]]
  BY DEF ClearToken
<1>3. CASE Exits(p)
  BY <1>1, <1>3, ExitInv
<1>4. CASE cmd' = [cmd EXCEPT ![p].pc = "truncate", ![p].cfg = [Load EXCEPT !.token = None]]
  <2> DEFINE cleared == [Load EXCEPT !.token = None]
  <2>1. \A q \in Commands : q # p => cmd'[q] = cmd[q]
    BY <1>4 DEF Types
  <2>2. cleared \in Config /\ cleared.token = None
    BY FieldTypes DEF Load, Config
  <2> HIDE DEF cleared
  <2>a. cmd'[p] = [cmd[p] EXCEPT !.pc = "truncate", !.cfg = cleared]
    BY <1>4 DEF Types, cleared
  <2>3. /\ cmd'[p].pc = "truncate" /\ cmd'[p].op = cmd[p].op /\ cmd'[p].token = cmd[p].token
        /\ cmd'[p].cfg \in Config /\ cmd'[p].cfg.token = None
    BY <2>a, <2>2 DEF Types, Command
  <2>4. Types'
    <3>1. cmd'[p] \in Command
      BY <2>a, <2>2 DEF Types, Command, Pcs
    <3>2. cmd' \in [Commands -> Command]
      BY <1>4, <2>1, <3>1 DEF Types
    <3> QED
      BY <1>1, <3>2 DEF Types
  <2>5. cmd[p].op = "logout"
    <3>1. cmd[p].op \in {"login", "logout", "users"}
      BY DEF Types, Command
    <3> QED
      BY <1>1, <3>1 DEF CommandInv, CmdOK, LoginOK, Saving
  <2>6. CmdOK(p)'
    <3>1. CmdOK(p)
      BY DEF CommandInv
    <3> QED
      BY <1>1, <2>3, <2>5, <3>1 DEF CmdOK, LoginOK, LogoutOK, Saving
  <2>7. CommandInv'
    BY <1>1, <2>1, <2>6, OtherCommands DEF CommandInv
  <2>8. NewToken'
    <3> SUFFICES ASSUME NEW q \in Commands, cmd'[q].op = "login"
                 PROVE  /\ file.cfg.token # cmd'[q].cfg.token
                        /\ cmd'[q].cfg.token \notin out
                        /\ \A s \in Commands : s # q => /\ cmd'[s].cfg.token # cmd'[q].cfg.token
                                                        /\ cmd'[s].token # cmd'[q].cfg.token
      BY <1>1 DEF NewToken
    <3>1. q # p /\ cmd'[q] = cmd[q]
      BY <2>1, <2>3, <2>5
    <3>2. cmd[q].cfg.token # None
      BY <3>1, NoneAssumption DEF CommandInv, CmdOK, LoginOK
    <3> QED
      BY <2>1, <2>3, <3>1, <3>2 DEF NewToken
  <2>9. FileInv' /\ OutInv' /\ ConfigLoads'
    BY <1>1 DEF FileInv, OutInv, ConfigLoads, LoadFails
  <2>10. SaveInv'
    BY <1>1, <2>1, <2>3 DEF SaveInv
  <2> QED
    BY <2>4, <2>7, <2>8, <2>9, <2>10
<1> QED
  BY <1>2, <1>3, <1>4

\* Truncating the file while another command is between its truncation and its
\* write is an overlap.
LEMMA TruncateInv ==
  ASSUME IInv, NEW p \in Commands, SaveTruncate(p)
  PROVE  IInv'
<1> USE DEF IInv
<1>1. /\ cmd[p].pc = "truncate" /\ file' = Empty /\ cmd' = [cmd EXCEPT ![p].pc = "write"]
      /\ overlap' = (overlap \/ \E q \in Commands : cmd[q].pc = "write")
      /\ UNCHANGED <<server, issuer, out, warned>>
  BY DEF SaveTruncate
<1>2. /\ cmd'[p] = [cmd[p] EXCEPT !.pc = "write"]
      /\ \A q \in Commands : q # p => cmd'[q] = cmd[q]
  BY <1>1 DEF Types
<1>3. /\ cmd'[p].pc = "write" /\ cmd'[p].op = cmd[p].op
      /\ cmd'[p].cfg = cmd[p].cfg /\ cmd'[p].token = cmd[p].token
  BY <1>2 DEF Types, Command
<1>4. Types'
  <2>1. cmd' \in [Commands -> Command]
    BY <1>1 DEF Types, Command, Pcs
  <2>2. overlap' \in BOOLEAN
    BY <1>1 DEF Types
  <2> QED
    BY <1>1, <2>1, <2>2, ValueTypes DEF Types
<1>5. CmdOK(p)'
  <2>1. CmdOK(p)
    BY DEF CommandInv
  <2> QED
    BY <1>1, <1>3, <2>1 DEF CmdOK, LoginOK, LogoutOK, Saving
<1>6. CommandInv'
  BY <1>1, <1>2, <1>5, OtherCommands DEF CommandInv
<1>7. NewToken'
  <2>1. \A q \in Commands : /\ cmd'[q].op = cmd[q].op /\ cmd'[q].cfg = cmd[q].cfg
                            /\ cmd'[q].token = cmd[q].token
    BY <1>2, <1>3
  <2>2. \A q \in Commands : cmd[q].op = "login" => cmd[q].cfg.token # None
    BY NoneAssumption DEF CommandInv, CmdOK, LoginOK
  <2> QED
    BY <1>1, <2>1, <2>2 DEF NewToken, Empty, Fresh
<1>8. FileInv' /\ OutInv' /\ ConfigLoads'
  BY <1>1, ValueTypes DEF FileInv, OutInv, ConfigLoads, LoadFails, Empty, Fresh
<1>9. SaveInv'
  BY <1>1, <1>2, <1>3 DEF SaveInv
<1> QED
  BY <1>4, <1>6, <1>7, <1>8, <1>9

\* The write puts a login's new token into the file, or takes the token out
\* that a logout is about.
LEMMA WriteInv ==
  ASSUME IInv, NEW p \in Commands, SaveWrite(p)
  PROVE  IInv'
<1> USE DEF IInv
<1>1. /\ cmd[p].pc = "write" /\ file' \in Written(cmd[p].cfg)
      /\ out' = IF cmd[p].op = "logout" THEN out \cup {cmd[p].token} ELSE out
      /\ UNCHANGED <<server, issuer, warned, overlap>>
  BY DEF SaveWrite
<1>2. cmd'[p] = Idle /\ \A q \in Commands : q # p => cmd'[q] = cmd[q]
  BY DEF SaveWrite, Exits, Types
<1>3. CmdOK(p) /\ cmd[p].cfg \in Config /\ cmd[p].op \in {"login", "logout"}
  <2>1. cmd[p].op \in {"login", "logout", "users"}
    BY DEF Types, Command
  <2> QED
    BY <1>1, <2>1, FieldTypes DEF CommandInv, CmdOK, Saving
<1>4. \/ file' = [kind |-> "config", cfg |-> cmd[p].cfg]
      \/ file' = Mixed /\ file # Empty
  BY <1>1 DEF Written
<1>5. file'.cfg = cmd[p].cfg \/ file'.cfg = Fresh
  BY <1>4 DEF Mixed
<1>6. Types'
  <2>1. file' \in Content
    BY <1>3, <1>4, ValueTypes DEF Content
  <2>2. cmd' \in [Commands -> Command]
    BY ValueTypes DEF SaveWrite, Exits, Types
  <2>3. out' \subseteq Tokens
    BY <1>1, <1>3 DEF Types, CmdOK, LogoutOK
  <2> QED
    BY <1>1, <2>1, <2>2, <2>3 DEF Types
<1>7. CmdOK(p)'
  BY <1>2 DEF CmdOK, LoginOK, LogoutOK, Saving, Idle, Fresh
<1>8. CommandInv'
  BY <1>1, <1>2, <1>7, OtherCommands DEF CommandInv
<1>9. NewToken'
  <2> SUFFICES ASSUME NEW q \in Commands, cmd'[q].op = "login"
               PROVE  /\ file'.cfg.token # cmd'[q].cfg.token
                      /\ cmd'[q].cfg.token \notin out'
                      /\ \A s \in Commands : s # q => /\ cmd'[s].cfg.token # cmd'[q].cfg.token
                                                      /\ cmd'[s].token # cmd'[q].cfg.token
    BY DEF NewToken
  <2>1. q # p /\ cmd'[q] = cmd[q]
    BY <1>2 DEF Idle
  <2>2. cmd[q].cfg.token # None
    BY <2>1, NoneAssumption DEF CommandInv, CmdOK, LoginOK
  <2>3. cmd[p].cfg.token # cmd[q].cfg.token /\ cmd[p].token # cmd[q].cfg.token
    BY <2>1 DEF NewToken
  <2>4. file'.cfg.token # cmd[q].cfg.token
    BY <1>5, <2>2, <2>3 DEF Fresh
  <2>5. cmd[q].cfg.token \notin out'
    BY <1>1, <2>1, <2>3 DEF NewToken
  <2>6. \A s \in Commands : s # q => /\ cmd'[s].cfg.token # cmd[q].cfg.token
                                     /\ cmd'[s].token # cmd[q].cfg.token
    BY <1>2, <2>1, <2>2 DEF NewToken, Idle, Fresh
  <2> QED
    BY <2>1, <2>4, <2>5, <2>6
<1>10. FileInv'
  <2>1. file'.kind # "config" => file'.cfg = Fresh
    BY <1>4 DEF Mixed
  <2>2. ASSUME file'.cfg.token # None
        PROVE  /\ server[file'.cfg.token] # "unused"
               /\ issuer[file'.cfg.token] = file'.cfg.url
               /\ file'.cfg.token \notin out'
    <3>1. file'.cfg = cmd[p].cfg
      BY <1>5, <2>2 DEF Fresh
    <3>2. cmd[p].op = "login"
      BY <1>1, <1>3, <2>2, <3>1 DEF CmdOK, LogoutOK, Saving
    <3> QED
      BY <1>1, <1>3, <3>1, <3>2 DEF CmdOK, LoginOK, NewToken
  <2> QED
    BY <1>1, <2>1, <2>2 DEF FileInv
<1>11. OutInv'
  BY <1>1, <1>3, NoneAssumption DEF OutInv, CmdOK, LogoutOK
<1>12. SaveInv'
  BY <1>1, <1>2 DEF SaveInv, Idle
<1>13. ConfigLoads'
  BY <1>1, <1>4 DEF ConfigLoads, LoadFails, SaveInv, Mixed
<1> QED
  BY <1>6, <1>8, <1>9, <1>10, <1>11, <1>12, <1>13

\* A token expires.
LEMMA ExpireInv ==
  ASSUME IInv, NEW t \in Tokens, Expire(t)
  PROVE  IInv'
<1> USE DEF IInv
<1>1. /\ server[t] # "unused"
      /\ server' = [server EXCEPT ![t] = "expired"]
      /\ UNCHANGED <<file, issuer, cmd, out, warned, overlap>>
  BY DEF Expire
<1>2. \A k \in Tokens : /\ server'[k] = "unused" <=> server[k] = "unused"
                        /\ server'[k] = "valid" => server[k] = "valid"
  BY <1>1 DEF Types
<1>3. Types'
  BY <1>1 DEF Types
<1>4. CommandInv'
  <2> SUFFICES ASSUME NEW p \in Commands PROVE CmdOK(p)'
    BY DEF CommandInv
  <2>1. CmdOK(p) /\ cmd[p].cfg.token \in Tokens \cup {None} /\ cmd[p].token \in Tokens \cup {None}
    BY FieldTypes DEF CommandInv
  <2> QED
    BY <1>1, <1>2, <2>1 DEF CmdOK, LoginOK, LogoutOK, Saving
<1>5. NewToken' /\ SaveInv' /\ ConfigLoads'
  BY <1>1 DEF NewToken, SaveInv, ConfigLoads, LoadFails
<1>6. FileInv' /\ OutInv'
  BY <1>1, <1>2, FieldTypes DEF FileInv, OutInv, Types
<1> QED
  BY <1>3, <1>4, <1>5, <1>6

\* Every step preserves the invariant.
LEMMA NextInv == IInv /\ [Next]_vars => IInv'
<1> SUFFICES ASSUME IInv, [Next]_vars PROVE IInv'
  OBVIOUS
<1>1. ASSUME NEW p \in Commands, Logout(p) \/ Users(p) PROVE IInv'
  BY <1>1, LoadInv DEF Logout, Users
<1>2. ASSUME NEW p \in Commands, UsersCall(p) \/ Dies(p) PROVE IInv'
  BY <1>2, ExitInv DEF UsersCall, Dies
<1>3. CASE UNCHANGED vars
  BY <1>3 DEF vars, IInv, Types, CommandInv, CmdOK, LoginOK, LogoutOK, Saving, NewToken, FileInv,
              OutInv, SaveInv, ConfigLoads, LoadFails
<1> QED
  BY <1>1, <1>2, <1>3, LoginInv, RevokeInv, ClearInv, TruncateInv, WriteInv, ExpireInv DEF Next

-----------------------------------------------------------------------------
\* The inductive invariant holds in every reachable state.
THEOREM Invariance == Spec => []IInv
BY InitInv, NextInv, PTL DEF Spec

\* Every variable keeps its shape, and no file or process knows a token that
\* was not issued.
THEOREM TypeCorrect == Spec => []TypeOK
<1>1. IInv => TypeOK
  BY FieldTypes DEF IInv, TypeOK, Types, Known, Load, FileInv, CommandInv, CmdOK
<1> QED
  BY <1>1, Invariance, PTL

\* requireAuth and auth logout send a token with the URL of its issuer,
\* whatever other commands do to the file.
THEOREM TokensGoHome == Spec => []TokenSentToIssuer
<1>1. IInv => TokenSentToIssuer
  BY DEF IInv, TokenSentToIssuer, CommandInv, CmdOK
<1> QED
  BY <1>1, Invariance, PTL

\* After "Logged out." the token is not in the file, nor, without a warning,
\* valid at the server, and never will be.
THEOREM LogoutHolds == Spec => []LoggedOut
<1>1. IInv => LoggedOut
  <2> SUFFICES ASSUME IInv PROVE LoggedOut
    OBVIOUS
  <2>1. \A t \in out : Load.token # t
    BY NoneAssumption DEF IInv, Types, FileInv, Load
  <2> QED
    BY <2>1 DEF IInv, LoggedOut, OutInv
<1> QED
  BY <1>1, Invariance, PTL

\* Only overlapping Saves spoil the file.
THEOREM FileLoads == Spec => []ConfigLoads
<1>1. IInv => ConfigLoads
  BY DEF IInv
<1> QED
  BY <1>1, Invariance, PTL

=============================================================================
