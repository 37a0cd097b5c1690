----------------------------- MODULE SSHConnect -----------------------------
(***************************************************************************)
(* internal/remote/ssh_factory.go: how one caller gets its SSH and SFTP    *)
(* clients and gives them back.                                            *)
(*                                                                         *)
(* Dial leaves ssh.Dial to a goroutine and waits for its result, which     *)
(* comes through a channel with room for one, or for the end of the        *)
(* caller's context.  The goroutine knows nothing of the context.          *)
(***************************************************************************)
CONSTANT Conns  \* the calls of Connect, each made once

VARIABLES
  call,       \* where the caller is: "new", "dialing", "dialed", "ready",
              \* "closing", or "over" when it is done with the connection
  cancelled,  \* whether the caller's context has ended
  dialer,     \* the goroutine: "none", "dialing", "sending", "ended"
  channel,    \* what waits in the channel: "nothing", "client", "error"
  client,     \* the SSH client: "none", "open", "closed"
  sftp        \* the SFTP client on top of it

sshVars == <<call, cancelled, dialer, channel, client, sftp>>

SSHTypeOK ==
  /\ call \in [Conns -> {"new", "dialing", "dialed", "ready", "closing", "over"}]
  /\ cancelled \in [Conns -> BOOLEAN]
  /\ dialer \in [Conns -> {"none", "dialing", "sending", "ended"}]
  /\ channel \in [Conns -> {"nothing", "client", "error"}]
  /\ client \in [Conns -> {"none", "open", "closed"}]
  /\ sftp \in [Conns -> {"none", "open", "closed"}]

SSHInit ==
  /\ call = [c \in Conns |-> "new"]
  /\ cancelled = [c \in Conns |-> FALSE]
  /\ dialer = [c \in Conns |-> "none"]
  /\ channel = [c \in Conns |-> "nothing"]
  /\ client = [c \in Conns |-> "none"]
  /\ sftp = [c \in Conns |-> "none"]

\* Connect: without a usable credential nothing is dialled.
Connect(c, usable) ==
  /\ call[c] = "new"
  /\ call' = [call EXCEPT ![c] = IF usable THEN "dialing" ELSE "over"]
  /\ dialer' = [dialer EXCEPT ![c] = IF usable THEN "dialing" ELSE "none"]
  /\ UNCHANGED <<cancelled, channel, client, sftp>>

\* ssh.Dial returns: the handshake succeeded or did not.
HostAnswers(c, accepted) ==
  /\ dialer[c] = "dialing"
  /\ dialer' = [dialer EXCEPT ![c] = "sending"]
  /\ client' = [client EXCEPT ![c] = IF accepted THEN "open" ELSE "none"]
  /\ UNCHANGED <<call, cancelled, channel, sftp>>

\* Mutant: the channel has no buffer, a send waits for the receiver.
RoomUnbuffered(c) == call[c] = "dialing"

Room(c) == channel[c] = "nothing"

Deliver(c) ==
  /\ dialer[c] = "sending" /\ Room(c)
  /\ channel' = [channel EXCEPT ![c] = IF client[c] = "open" THEN "client" ELSE "error"]
  /\ dialer' = [dialer EXCEPT ![c] = "ended"]
  /\ UNCHANGED <<call, cancelled, client, sftp>>

\* The select of Dial takes the result.
Obtain(c) ==
  /\ call[c] = "dialing" /\ channel[c] # "nothing"
  /\ call' = [call EXCEPT ![c] = IF channel[c] = "client" THEN "dialed" ELSE "over"]
  /\ channel' = [channel EXCEPT ![c] = "nothing"]
  /\ UNCHANGED <<cancelled, dialer, client, sftp>>

\* The select of Dial takes the end of the context, a result waiting or not.
Abandon(c) ==
  /\ call[c] = "dialing" /\ cancelled[c]
  /\ call' = [call EXCEPT ![c] = "over"]
  /\ UNCHANGED <<cancelled, dialer, channel, client, sftp>>

\* sftp.NewClient.
OpenSFTP(c) ==
  /\ call[c] = "dialed"
  /\ call' = [call EXCEPT ![c] = "ready"]
  /\ sftp' = [sftp EXCEPT ![c] = "open"]
  /\ UNCHANGED <<cancelled, dialer, channel, client>>

\* Mutant: the SSH client is not closed.
SFTPFailsLeaving(c) ==
  /\ call[c] = "dialed"
  /\ call' = [call EXCEPT ![c] = "over"]
  /\ UNCHANGED <<cancelled, dialer, channel, client, sftp>>

SFTPFails(c) ==
  /\ call[c] = "dialed"
  /\ call' = [call EXCEPT ![c] = "over"]
  /\ client' = [client EXCEPT ![c] = "closed"]
  /\ UNCHANGED <<cancelled, dialer, channel, sftp>>

\* multiCloser: the SFTP client is closed first; whatever comes of it, the SSH
\* client is closed next.
CloseSFTP(c) ==
  /\ call[c] = "ready"
  /\ call' = [call EXCEPT ![c] = "closing"]
  /\ sftp' = [sftp EXCEPT ![c] = "closed"]
  /\ UNCHANGED <<cancelled, dialer, channel, client>>

CloseClient(c) ==
  /\ call[c] = "closing"
  /\ call' = [call EXCEPT ![c] = "over"]
  /\ client' = [client EXCEPT ![c] = "closed"]
  /\ UNCHANGED <<cancelled, dialer, channel, sftp>>

\* The context of a call ends: its client is gone, or the program stops.  After
\* Dial nobody looks at it (executor.Run does not).
Cancel(c) ==
  /\ call[c] = "dialing" /\ ~cancelled[c]
  /\ cancelled' = [cancelled EXCEPT ![c] = TRUE]
  /\ UNCHANGED <<call, dialer, channel, client, sftp>>

\* What the connection does by itself; Connect, HostAnswers and CloseSFTP are
\* the caller's and the host's.
SSHStep(c) ==
  \/ Deliver(c) \/ Obtain(c) \/ Abandon(c)
  \/ OpenSFTP(c) \/ SFTPFails(c) \/ CloseClient(c)

-----------------------------------------------------------------------------
(* Properties.                                                             *)

\* A connection that stands although its caller is done with it is one that
\* Dial gave up (ssh_factory.go:89): it is in the channel or on the way there.
\* Every other way out of Connect and of its closer closes the client.
OnlyUnreadLeft ==
  \A c \in Conns :
    call[c] = "over" /\ client[c] = "open" =>
      /\ cancelled[c] /\ sftp[c] = "none"
      /\ dialer[c] = "sending" \/ channel[c] = "client"

\* The goroutine of Dial ends once ssh.Dial has returned, even though nobody
\* may be left to take its result.
DialerEnds == \A c \in Conns : dialer[c] = "sending" ~> dialer[c] = "ended"
=============================================================================
