--------------------------- MODULE HandlerPort ---------------------------
(***************************************************************************)
(* The life of the lh-handler process and the message ports it waits at:   *)
(* the startup packet, the packet loop of lhh_main, the private reply port *)
(* of lhh_dopkt, ACTION_DIE and the way out.                               *)
(*                                                                         *)
(* Clients reach the process through its pr_MsgPort, which they find in    *)
(* dol_Task of the device or the volume node, or in fl_Task of a lock they *)
(* hold.  Finding the port and sending to it are two steps.  The handler   *)
(* asks other handlers in two ways: lhh_dopkt has its answer sent to a     *)
(* port of its own; a call of dos.library has it sent to pr_MsgPort, and   *)
(* takes the next message there for the answer.                            *)
(***************************************************************************)
EXTENDS Integers, Sequences, FiniteSets

CONSTANTS
    Clients,     \* the processes that use LHA:
    Mounter,     \* the process that mounts it and sends the startup packet
    Kinds,       \* the packets clients send: "die"; "other" is answered at once;
                 \* "locate" grants a lock; "free" returns it; "update" is
                 \* a delete, create or commit, which calls dos.library
    Routes,      \* where a host path leads: to the "host", or back to the
                 \* handler's "own" port through an assign to LHA:
    MaxCalls     \* bound: calls to other handlers in one packet

ASSUME MounterAssumption == Mounter \notin Clients
ASSUME KindsAssumption == Kinds \subseteq {"other", "locate", "free", "update", "die"}
ASSUME RoutesAssumption == Routes \subseteq {"host", "own"}
ASSUME CallsAssumption == MaxCalls \in Nat

Users == Clients \cup {Mounter}

(* Messages at pr_MsgPort: a client's packet, the answer to a dos.library  *)
(* call, a packet lhh_dopkt sent here.                                     *)
FromUser(u) == [from |-> "user", user |-> u]
DosReply == [from |-> "dos", user |-> Mounter]
OwnPacket == [from |-> "self", user |-> Mounter]
Message == {FromUser(u) : u \in Users} \cup {DosReply, OwnPacket}

VARIABLES
    client,      \* per user: "idle", "aiming" (it has found the port) or
                 \* "sent" (it waits for the answer)
    kind,        \* the packet it sends
    held,        \* who has a lock or handle out: gd_UsageCnt counts them
    port,        \* the messages at pr_MsgPort, in order
    private,     \* the answer lhh_dopkt waits for is at the private port
    asking,      \* a request at another handler, by where its answer goes
    at,          \* where the process is, see Places
    serving,     \* the user whose packet is being served
    calls,       \* calls made for it
    device,      \* dol_Task of the device node is set
    volume       \* the volume node is in the DosList

clientVars == <<client, kind>>
hostVars == <<private, asking>>
nodes == <<device, volume>>
vars == <<clientVars, held, port, hostVars, at, serving, calls, nodes>>

Places == {"boot", "icons", "icons wait", "failed", "mounted", "loop", "serve",
           "host wait", "dos wait", "alert", "die", "dying", "leaving",
           "closing", "gone"}

Init ==
    /\ client = [u \in Users |-> IF u = Mounter THEN "sent" ELSE "idle"]
    /\ kind \in [Users -> {"startup"}]
    /\ held = {}
    /\ port = <<FromUser(Mounter)>>
    /\ private = FALSE
    /\ asking = "none"
    /\ at = "boot"
    /\ serving = Mounter
    /\ calls = 0
    /\ device = FALSE
    /\ volume = FALSE

-----------------------------------------------------------------------------
(* Clients.                                                                *)

(* A holder of a lock sends to its fl_Task, others look the port up.       *)
Aim(c) ==
    /\ client[c] = "idle"
    /\ \E k \in Kinds :
        /\ c \in held => k # "locate"
        /\ c \notin held => k # "free" /\ (device \/ volume)
        /\ kind' = [kind EXCEPT ![c] = k]
    /\ client' = [client EXCEPT ![c] = "aiming"]
    /\ UNCHANGED <<held, port, hostVars, at, serving, calls, nodes>>

Send(c) ==
    /\ client[c] = "aiming"
    /\ client' = [client EXCEPT ![c] = "sent"]
    /\ port' = Append(port, FromUser(c))
    /\ UNCHANGED <<kind, held, hostVars, at, serving, calls, nodes>>

-----------------------------------------------------------------------------
(* Other handlers.  They answer what they are asked, in their own time.    *)

HostAnswers ==
    /\ asking = "private"
    /\ asking' = "none"
    /\ private' = TRUE
    /\ UNCHANGED <<clientVars, held, port, at, serving, calls, nodes>>

DosAnswers ==
    /\ asking = "port"
    /\ asking' = "none"
    /\ port' = Append(port, DosReply)
    /\ UNCHANGED <<clientVars, held, private, at, serving, calls, nodes>>

-----------------------------------------------------------------------------
(* The handler.                                                            *)

Goes(from, to) == at = from /\ at' = to

(* Wrong on purpose: the packet's case ends without a ReplyDosPacket.      *)
NoReplyDosPacket(u) == client' = client

ReplyDosPacket(u) == client' = [client EXCEPT ![u] = "idle"]

WaitDosPacket ==
    /\ at \in {"boot", "loop"}
    /\ port # <<>>
    /\ serving' = Head(port).user
    /\ port' = Tail(port)
    /\ calls' = 0
    /\ at' = IF at = "boot" THEN "icons"
             ELSE IF kind[Head(port).user] = "die" THEN "die" ELSE "serve"
    /\ UNCHANGED <<clientVars, held, hostVars, nodes>>

(* openres fails: the startup packet is refused.                           *)
RefuseStartup ==
    /\ Goes("icons", "failed")
    /\ calls = 0
    /\ ReplyDosPacket(serving)
    /\ UNCHANGED <<kind, held, port, hostVars, serving, calls, nodes>>

(* Wrong on purpose: the startup packet is answered, and the port is known,*)
(* before the icons are read.                                              *)
AnswerStartupFirst ==
    /\ at = "icons"
    /\ ~device
    /\ at' = at
    /\ ReplyDosPacket(serving)
    /\ device' = TRUE
    /\ UNCHANGED <<kind, held, port, hostVars, serving, calls, volume>>

(* dol_Task is set and the startup packet answered once lhh_icon_init is   *)
(* through with dos.library.                                               *)
AnswerStartup ==
    /\ Goes("icons", "mounted")
    /\ ReplyDosPacket(serving)
    /\ device' = TRUE
    /\ UNCHANGED <<kind, held, port, hostVars, serving, calls, volume>>

(* Without memory for it the node is not made.                             *)
lhh_volume_init ==
    /\ Goes("mounted", "loop")
    /\ volume' \in BOOLEAN
    /\ UNCHANGED <<clientVars, held, port, hostVars, serving, calls, device>>

(* lhh_dopkt sends its packet; its answer is awaited at the private port.  *)
(* A name that runs through an assign to LHA: is sent to the handler.      *)
AskHost ==
    /\ Goes("serve", "host wait")
    /\ kind[serving] \in {"locate", "free", "update"}
    /\ calls < MaxCalls
    /\ calls' = calls + 1
    /\ \/ "host" \in Routes /\ asking' = "private" /\ UNCHANGED port
       \/ /\ "own" \in Routes
          /\ kind[serving] # "free"
          /\ port' = Append(port, OwnPacket)
          /\ UNCHANGED asking
    /\ UNCHANGED <<clientVars, held, private, serving, nodes>>

TakePrivate ==
    /\ Goes("host wait", "serve")
    /\ private
    /\ private' = FALSE
    /\ UNCHANGED <<clientVars, held, port, asking, serving, calls, nodes>>

(* A call of dos.library: reading the icons at start, later DeleteFile,    *)
(* CreateDir and, through LhOpenArchive, the files of the archive writer.  *)
AskDos ==
    /\ \/ Goes("icons", "icons wait")
       \/ Goes("serve", "dos wait") /\ kind[serving] = "update"
    /\ calls < MaxCalls
    /\ calls' = calls + 1
    /\ asking' = "port"
    /\ UNCHANGED <<clientVars, held, port, private, serving, nodes>>

(* dos.library takes the next message for its answer, and stops with an    *)
(* alert (AN_AsyncPkt) when it is something else.                          *)
WaitPkt ==
    /\ at \in {"icons wait", "dos wait"}
    /\ port # <<>>
    /\ port' = Tail(port)
    /\ at' = IF Head(port) # DosReply THEN "alert"
             ELSE IF at = "icons wait" THEN "icons" ELSE "serve"
    /\ UNCHANGED <<clientVars, held, hostVars, serving, calls, nodes>>

(* The packet is answered; a locate may have failed.                       *)
Answer ==
    /\ Goes("serve", "loop")
    /\ ReplyDosPacket(serving)
    /\ held' \in CASE kind[serving] = "locate" -> {held, held \cup {serving}}
                   [] kind[serving] = "free" -> {held \ {serving}}
                   [] OTHER -> {held}
    /\ UNCHANGED <<kind, port, hostVars, serving, calls, nodes>>

(* Wrong on purpose: only the port is looked at.                           *)
DieInUse ==
    /\ Goes("die", "dying")
    /\ port = <<>>
    /\ UNCHANGED <<clientVars, held, port, hostVars, serving, calls, nodes>>

(* ACTION_DIE: refused while anything is out or a packet is waiting.       *)
Die ==
    /\ Goes("die", "dying")
    /\ held = {}
    /\ port = <<>>
    /\ UNCHANGED <<clientVars, held, port, hostVars, serving, calls, nodes>>

RefuseDie ==
    /\ Goes("die", "loop")
    /\ held # {} \/ port # <<>>
    /\ ReplyDosPacket(serving)
    /\ UNCHANGED <<kind, held, port, hostVars, serving, calls, nodes>>

GrantDie ==
    /\ Goes("dying", "leaving")
    /\ ReplyDosPacket(serving)
    /\ UNCHANGED <<kind, held, port, hostVars, serving, calls, nodes>>

(* The loop has been left: dol_Task is cleared, then closeres removes the  *)
(* volume node and the process ends.                                       *)
ClearTask ==
    /\ Goes("leaving", "closing")
    /\ device' = FALSE
    /\ UNCHANGED <<clientVars, held, port, hostVars, serving, calls, volume>>

closeres ==
    /\ at \in {"failed", "closing"}
    /\ at' = "gone"
    /\ volume' = FALSE
    /\ UNCHANGED <<clientVars, held, port, hostVars, serving, calls, device>>

lhh_main ==
    \/ WaitDosPacket \/ RefuseStartup \/ AnswerStartup \/ lhh_volume_init
    \/ AskHost \/ TakePrivate \/ AskDos \/ WaitPkt \/ Answer
    \/ Die \/ RefuseDie \/ GrantDie \/ ClearTask \/ closeres

Next ==
    \/ \E c \in Clients : Aim(c) \/ Send(c)
    \/ HostAnswers \/ DosAnswers
    \/ lhh_main

(* The handler is a process that runs whenever it can, and so are the      *)
(* handlers it asks.  Nothing is assumed of clients.                       *)
Fairness ==
    /\ WF_vars(lhh_main)
    /\ WF_vars(HostAnswers)
    /\ WF_vars(DosAnswers)

Spec == Init /\ [][Next]_vars /\ Fairness

-----------------------------------------------------------------------------
(* Properties.                                                             *)

TypeOK ==
    /\ client \in [Users -> {"idle", "aiming", "sent"}]
    /\ kind \in [Users -> Kinds \cup {"startup"}]
    /\ held \subseteq Clients
    /\ port \in Seq(Message)
    /\ private \in BOOLEAN
    /\ asking \in {"none", "private", "port"}
    /\ at \in Places
    /\ serving \in Users
    /\ calls \in 0 .. MaxCalls
    /\ device \in BOOLEAN
    /\ volume \in BOOLEAN

(* lh_icon.c: dos.library calls "would steal client packets after the      *)
(* device is live".  Those made before take none: lhh_icon_init runs before *)
(* any client can find the port.  Later ones (a delete, create or commit)  *)
(* do take them in this code, and the process is at "alert".               *)
IconsReadSafely == at = "alert" => serving # Mounter

(* A packet that has not been answered waits at the port or is served, in  *)
(* one place only, and nothing else of a client is there: lhh_main answers *)
(* each packet once and drops none, as long as none has been stolen.       *)
Busy == {"icons", "icons wait", "serve", "host wait", "dos wait", "alert",
         "die", "dying"}
Queued(u) == \E i \in DOMAIN port : port[i] = FromUser(u)
Served(u) == at \in Busy /\ serving = u

EveryPacketOnce ==
    /\ \A u \in Users :
        /\ Queued(u) => client[u] = "sent" /\ ~Served(u)
        /\ Served(u) => client[u] = "sent"
        /\ client[u] = "sent" /\ at # "alert" => Queued(u) \/ Served(u)
    /\ \A i, j \in DOMAIN port :
        port[i] = port[j] /\ port[i].from = "user" => i = j

(* The private port serves one request at a time: whenever the process is  *)
(* not in lhh_dopkt, no answer to it is there or still to come.            *)
PrivatePortQuiet == at # "host wait" => ~private /\ asking # "private"

(* The handler keeps the safety half of PacketService: a packet is answered*)
(* once and only while the handler is up, and it goes down only when       *)
(* nobody holds a lock or handle.                                          *)
Waiting == {u \in Users : client[u] = "sent"}
Up == at \notin {"closing", "gone"}
Service == INSTANCE PacketService WITH asked <- Waiting, holding <- held, up <- Up
ServesOnce == Service!Safety

(* It answers every packet too, unless a packet is stolen or it waits for  *)
(* itself, which the guards against LHA: paths are there to prevent.       *)
Stuck == at = "alert" \/ \E i \in DOMAIN port : port[i] = OwnPacket
ServesAll == []~Stuck => Service!Answering
=============================================================================
