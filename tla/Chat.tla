-------------------------------- MODULE Chat --------------------------------
(***************************************************************************)
(* The chat: channels and their members, and the messages of channel 0.    *)
(* Handlers of both kinds interleave; those on messages read the rows that *)
(* those on channels insert and remove.                                    *)
(***************************************************************************)
EXTENDS Naturals, FiniteSets, People

CONSTANTS Founder, Lists, Nobody, MaxRequests

VARIABLES
    kind, member, creq,                       \* ChatChannels
    message, reaction, cursor, shown, mreq,   \* ChatMessages
    out                                       \* history: users that left with nothing under way

Channels == INSTANCE ChatChannels
RoleInChannel == [u \in Users |-> member[0][u].type]
Messages == INSTANCE ChatMessages WITH role <- RoleInChannel

ASSUME ChatAssumption == Channels!ChannelAssumption /\ Messages!MessageAssumption

channelvars == <<kind, member, creq>>
messagevars == <<message, reaction, cursor, shown, mreq>>
chatvars == <<channelvars, messagevars, out>>

Busy == {mreq[r].by : r \in {q \in Messages!Requests : Messages!Active(q)}}
Gone == {u \in Users : ~Channels!Belongs(0, u)}

ChatInit ==
    /\ Channels!Init
    /\ Messages!Init
    /\ out = {}

(* Bound: MaxRequests in all.                                              *)
Room == Cardinality(Channels!Started) + Cardinality(Messages!Started) < MaxRequests

ChannelStep ==
    /\ \E r \in Channels!Requests :
          (Room /\ Channels!Start(r)) \/ Channels!Continue(r) \/ Channels!Fail(r)
    /\ UNCHANGED messagevars
    /\ out' = Gone' \cap (out \cup (Users \ Busy))

MessageStep ==
    /\ \E r \in Messages!Requests :
          (Room /\ Messages!Start(r)) \/ Messages!Continue(r) \/ Messages!Fail(r)
    /\ UNCHANGED <<channelvars, out>>

ChatNext == ChannelStep \/ MessageStep

ChatSpec == ChatInit /\ [][ChatNext]_chatvars

-----------------------------------------------------------------------------
(* The properties of the two parts, here of their composition: at most one *)
(* direct channel for two users, a channel of both as the answer, deleted  *)
(* messages that stay so, and sockets that are told what is stored.        *)
OneDirectEach == Channels!OneDirectEach
DirectIsOfBoth == Channels!DirectIsOfBoth
SocketsAgree == Messages!SocketsAgree
DeletedIsFinal == [][Messages!KeepsDeleted]_chatvars

(* A user who has been removed while he had nothing under way writes,      *)
(* reads, reacts and deletes nothing any more, until he is added again.    *)
RemovedAreSilent == [][
    \A u \in out : Messages!AddsNothing(u)]_chatvars
=============================================================================
