-------------------------------- MODULE Cli --------------------------------
(***************************************************************************)
(* The command line client: kleido auth login, auth logout and the users   *)
(* commands (internal/cli), the API client they use (internal/client), and *)
(* the configuration file in which they keep the access token between runs *)
(* (pkg/configstore).                                                      *)
(*                                                                         *)
(* Several commands may run at once; nothing locks the file.  Save is      *)
(* os.WriteFile: it truncates the file, then writes from its start, so the *)
(* file can be seen empty, a crash can leave it empty, and of two Saves    *)
(* that overlap the shorter one leaves the end of the longer one behind.   *)
(* What is written is a single write(2), done in full or not at all.       *)
(* The server is reduced to what it does to access tokens.                 *)
(***************************************************************************)
EXTENDS Integers, FiniteSets

CONSTANTS
    None,      \* the absent value
    Commands,  \* processes
    Urls,      \* API base URLs
    Tokens     \* access tokens

ASSUME NoneAssumption == None \notin Urls \cup Tokens

(***************************************************************************)
(* A configuration, and the content of the file: absent or truncated, a    *)
(* configuration, or the mix of two.                                       *)
(***************************************************************************)
Config == [url: Urls \cup {None}, token: Tokens \cup {None}]

Fresh == [url |-> None, token |-> None]

Content == [kind: {"empty", "config", "mixed"}, cfg: Config]

Empty == [kind |-> "empty", cfg |-> Fresh]

Mixed == [kind |-> "mixed", cfg |-> Fresh]

VARIABLES
    file,    \* content of config.yaml
    server,  \* Tokens -> "unused", "valid", "revoked" or "expired"
    issuer,  \* Tokens -> the URL of the server that issued it
    cmd,     \* Commands -> local state of the process
    out,     \* history: tokens whose logout printed "Logged out."
    warned,  \* history: those for which it printed a warning as well
    overlap  \* history: two Saves have overlapped

vars == <<file, server, issuer, cmd, out, warned, overlap>>

Pcs == {"idle", "truncate", "write", "revoke", "clear", "call"}

\* op: what is running; cfg: loaded, or to be saved; token: the one to revoke.
Command == [pc: Pcs, op: {"login", "logout", "users"}, cfg: Config, token: Tokens \cup {None}]

Idle == [pc |-> "idle", op |-> "users", cfg |-> Fresh, token |-> None]

Init ==
    /\ file = Empty
    /\ server = [t \in Tokens |-> "unused"]
    /\ issuer = [t \in Tokens |-> None]
    /\ cmd = [p \in Commands |-> Idle]
    /\ out = {}
    /\ warned = {}
    /\ overlap = FALSE

Exits(p) == cmd' = [cmd EXCEPT ![p] = Idle]

-----------------------------------------------------------------------------
(***************************************************************************)
(* pkg/configstore.  Load of an absent or empty file is an empty           *)
(* configuration, that of a mix an error.                                  *)
(***************************************************************************)
LoadFails == file = Mixed

Load == file.cfg

\* Mutant: the file is opened without O_TRUNC.
TruncateOmitted(p) ==
    /\ cmd[p].pc = "truncate"
    /\ cmd' = [cmd EXCEPT ![p].pc = "write"]
    /\ UNCHANGED <<file, server, issuer, out, warned, overlap>>

SaveTruncate(p) ==
    /\ cmd[p].pc = "truncate"
    /\ file' = Empty
    /\ cmd' = [cmd EXCEPT ![p].pc = "write"]
    /\ overlap' = (overlap \/ \E q \in Commands : cmd[q].pc = "write")
    /\ UNCHANGED <<server, issuer, out, warned>>

\* Over what an overlapping Save has written since the truncation: the end of
\* the longer of the two stays.
Written(c) == {[kind |-> "config", cfg |-> c]} \cup (IF file = Empty THEN {} ELSE {Mixed})

SaveWrite(p) ==
    /\ cmd[p].pc = "write"
    /\ file' \in Written(cmd[p].cfg)
    /\ out' = IF cmd[p].op = "logout" THEN out \cup {cmd[p].token} ELSE out
    /\ Exits(p)
    /\ UNCHANGED <<server, issuer, warned, overlap>>

\* The write fails and the command with it, or the process dies.
Dies(p) ==
    /\ cmd[p].pc # "idle"
    /\ Exits(p)
    /\ UNCHANGED <<file, server, issuer, out, warned, overlap>>

-----------------------------------------------------------------------------
(***************************************************************************)
(* checkAuth: the stored token, if there is one that has not expired.      *)
(***************************************************************************)
checkAuth == IF Load.token # None /\ server[Load.token] # "expired" THEN Load.token ELSE None

(***************************************************************************)
(* The outcomes of Client.do: success, an error without effect (refused,   *)
(* or not sent), and an error although the server executed the request (a  *)
(* timeout, or an answer that cannot be read).                             *)
(***************************************************************************)
Outcomes == {"ok", "refused", "lost"}

\* Mutant: the URL that the file holds is kept.
LoginKeepsURL(p, url, t) ==
    /\ cmd[p].pc = "idle"
    /\ server[t] = "unused"
    /\ server' = [server EXCEPT ![t] = "valid"]
    /\ issuer' = [issuer EXCEPT ![t] = url]
    /\ cmd' = [cmd EXCEPT ![p] = [pc |-> "truncate", op |-> "login", token |-> None,
                 cfg |-> [url |-> IF Load.url = None THEN url ELSE Load.url, token |-> t]]]
    /\ UNCHANGED <<file, out, warned, overlap>>

\* Mutant: the answer is not looked at.
LoginUnchecked(p, url, t) ==
    /\ cmd[p].pc = "idle"
    /\ server[t] = "unused"
    /\ \E o \in Outcomes :
        /\ server' = IF o = "refused" THEN server ELSE [server EXCEPT ![t] = "valid"]
        /\ issuer' = IF o = "refused" THEN issuer ELSE [issuer EXCEPT ![t] = url]
    /\ cmd' = [cmd EXCEPT ![p] = [pc |-> "truncate", op |-> "login", token |-> None,
                                  cfg |-> [url |-> url, token |-> t]]]
    /\ UNCHANGED <<file, out, warned, overlap>>

\* auth login: a new token, which is saved with the URL in place of whatever
\* the file held.
Login(p, url, t) ==
    /\ cmd[p].pc = "idle"
    /\ server[t] = "unused"
    /\ \E o \in Outcomes :
        /\ server' = IF o = "refused" THEN server ELSE [server EXCEPT ![t] = "valid"]
        /\ issuer' = IF o = "refused" THEN issuer ELSE [issuer EXCEPT ![t] = url]
        /\ cmd' = IF o # "ok" THEN cmd
                  ELSE [cmd EXCEPT ![p] = [pc |-> "truncate", op |-> "login", token |-> None,
                                           cfg |-> [url |-> url, token |-> t]]]
    /\ UNCHANGED <<file, out, warned, overlap>>

\* auth logout, when checkAuth finds a token; otherwise it prints "Not logged
\* in." and leaves the file alone.
Logout(p) ==
    /\ cmd[p].pc = "idle"
    /\ checkAuth # None
    /\ cmd' = [cmd EXCEPT ![p] = [pc |-> "revoke", op |-> "logout", token |-> checkAuth,
                                  cfg |-> Load]]
    /\ UNCHANGED <<file, server, issuer, out, warned, overlap>>

\* The server refuses a token that it has revoked or that has expired.
LogoutRevoke(p) ==
    LET t == cmd[p].token
    IN  /\ cmd[p].pc = "revoke"
        /\ \E o \in Outcomes :
            /\ o = "ok" => server[t] = "valid"
            /\ server' = IF o # "refused" /\ server[t] = "valid"
                         THEN [server EXCEPT ![t] = "revoked"] ELSE server
            /\ warned' = IF o = "ok" THEN warned ELSE warned \cup {t}
        /\ cmd' = [cmd EXCEPT ![p].pc = "clear"]
        /\ UNCHANGED <<file, issuer, out, overlap>>

\* Mutant: ClearToken zeroes the expiry only.
ClearTokenKeeps(p) ==
    /\ cmd[p].pc = "clear"
    /\ cmd' = [cmd EXCEPT ![p].pc = "truncate", ![p].cfg = Load]
    /\ UNCHANGED <<file, server, issuer, out, warned, overlap>>

\* ClearToken loads the file anew.
ClearToken(p) ==
    /\ cmd[p].pc = "clear"
    /\ IF LoadFails THEN Exits(p)
       ELSE cmd' = [cmd EXCEPT ![p].pc = "truncate", ![p].cfg = [Load EXCEPT !.token = None]]
    /\ UNCHANGED <<file, server, issuer, out, warned, overlap>>

\* users me, get, list, update and delete: requireAuth, then one request.
Users(p) ==
    /\ cmd[p].pc = "idle"
    /\ checkAuth # None
    /\ cmd' = [cmd EXCEPT ![p] = [pc |-> "call", op |-> "users", token |-> checkAuth,
                                  cfg |-> Load]]
    /\ UNCHANGED <<file, server, issuer, out, warned, overlap>>

UsersCall(p) ==
    /\ cmd[p].pc = "call"
    /\ Exits(p)
    /\ UNCHANGED <<file, server, issuer, out, warned, overlap>>

\* A token expires, for the server and for checkAuth.
Expire(t) ==
    /\ server[t] \in {"valid", "revoked"}
    /\ server' = [server EXCEPT ![t] = "expired"]
    /\ UNCHANGED <<file, issuer, cmd, out, warned, overlap>>

Next ==
    \/ \E p \in Commands :
        \/ \E url \in Urls, t \in Tokens : Login(p, url, t)
        \/ Logout(p)
        \/ LogoutRevoke(p)
        \/ ClearToken(p)
        \/ Users(p)
        \/ UsersCall(p)
        \/ SaveTruncate(p)
        \/ SaveWrite(p)
        \/ Dies(p)
    \/ \E t \in Tokens : Expire(t)

Spec == Init /\ [][Next]_vars

-----------------------------------------------------------------------------
\* The tokens in the file and in the processes.
Known == ({Load.token} \cup {cmd[p].cfg.token : p \in Commands}) \ {None}

\* Every variable keeps its shape, and no file or process knows a token that was
\* not issued.
TypeOK ==
    /\ file \in Content
    /\ server \in [Tokens -> {"unused", "valid", "revoked", "expired"}]
    /\ cmd \in [Commands -> Command]
    /\ out \subseteq Tokens
    /\ warned \subseteq Tokens
    /\ overlap \in BOOLEAN
    /\ issuer \in [Tokens -> Urls \cup {None}]
    /\ Known \subseteq {t \in Tokens : server[t] # "unused"}

\* A token goes to the server that issued it and to no other, although the URL
\* and the token are read from a file that other commands rewrite meanwhile.
TokenSentToIssuer ==
    \A p \in Commands :
        cmd[p].pc \in {"revoke", "call"} => issuer[cmd[p].token] = cmd[p].cfg.url

\* "Logged out." means it, whatever other commands run: the token is not in the
\* file and no command writes it there again, and without a warning the server
\* does not honour it either.
LoggedOut ==
    /\ \A t \in out : Load.token # t
    /\ \A t \in out \ warned : server[t] # "valid"

\* A crash or a failing write at any point leaves a file that the next command
\* can load; only Saves of two commands that overlap can spoil it.
ConfigLoads == LoadFails => overlap

=============================================================================
