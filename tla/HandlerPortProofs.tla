------------------------ MODULE HandlerPortProofs ------------------------
(***************************************************************************)
(* Proofs about HandlerPort: the port's messages seen as a set without     *)
(* repetitions, an inductive invariant over it, the safety properties the  *)
(* runs check and the refinement of PacketService's safety half.           *)
(***************************************************************************)
EXTENDS HandlerPort, TLAPS

Contents(s) == {s[i] : i \in DOMAIN s}
Distinct(s) == \A i, j \in DOMAIN s : s[i] = s[j] => i = j

(* The three senders of messages are told apart.                           *)
LEMMA Messages ==
    /\ \A u \in Users : FromUser(u) \in Message
    /\ \A u, v \in Users : FromUser(u) = FromUser(v) => u = v
    /\ \A u \in Users : FromUser(u) # DosReply /\ FromUser(u) # OwnPacket
    /\ DosReply # OwnPacket /\ DosReply \in Message /\ OwnPacket \in Message
    /\ \A m \in Message \ {DosReply, OwnPacket} :
            m.user \in Users /\ m = FromUser(m.user)
    /\ \A m \in Message : m.from = "user" <=> m \notin {DosReply, OwnPacket}
    /\ \A u \in Users : FromUser(u).user = u
  BY DEF Message, FromUser, DosReply, OwnPacket

(* A message that is not at the port is put at its end.                    *)
LEMMA PutAtEnd ==
    ASSUME NEW S, NEW s \in Seq(S), NEW e \in S, Distinct(s), e \notin Contents(s)
    PROVE  /\ Append(s, e) \in Seq(S)
           /\ Distinct(Append(s, e))
           /\ Contents(Append(s, e)) = Contents(s) \cup {e}
<1> DEFINE t == Append(s, e)
<1>1. /\ t \in Seq(S)
      /\ DOMAIN s = 1 .. Len(s)
      /\ DOMAIN t = 1 .. (Len(s) + 1)
      /\ \A i \in DOMAIN s : t[i] = s[i]
      /\ t[Len(s) + 1] = e
      /\ Len(s) \in Nat
  OBVIOUS
<1> HIDE DEF t
<1>2. Distinct(t)
  BY <1>1 DEF Distinct, Contents
<1>3. Contents(t) = Contents(s) \cup {e}
  <2>1. ASSUME NEW m \in Contents(t) PROVE m \in Contents(s) \cup {e}
    <3>1. PICK i \in DOMAIN t : m = t[i]
      BY DEF Contents
    <3> QED BY <1>1, <3>1 DEF Contents
  <2>2. e \in Contents(t)
    BY <1>1 DEF Contents
  <2>3. ASSUME NEW m \in Contents(s) PROVE m \in Contents(t)
    <3>1. PICK i \in DOMAIN s : m = s[i]
      BY DEF Contents
    <3> QED BY <1>1, <3>1 DEF Contents
  <2> QED BY <2>1, <2>2, <2>3
<1> QED BY <1>1, <1>2, <1>3 DEF t

(* The first message is taken away.                                        *)
LEMMA TakeFirst ==
    ASSUME NEW S, NEW s \in Seq(S), s # <<>>, Distinct(s)
    PROVE  /\ Tail(s) \in Seq(S)
           /\ Head(s) \in Contents(s)
           /\ Head(s) \in S
           /\ Distinct(Tail(s))
           /\ Contents(Tail(s)) = Contents(s) \ {Head(s)}
<1> DEFINE t == Tail(s)
<1> DEFINE h == Head(s)
<1>1. /\ t \in Seq(S)
      /\ Len(s) \in Nat \ {0}
      /\ DOMAIN s = 1 .. Len(s)
      /\ DOMAIN t = 1 .. (Len(s) - 1)
      /\ \A i \in DOMAIN t : t[i] = s[i + 1]
      /\ h = s[1]
      /\ h \in S
  OBVIOUS
<1> HIDE DEF t, h
<1>2. Distinct(t)
  BY <1>1 DEF Distinct
<1>3. Contents(t) = Contents(s) \ {h}
  <2>1. ASSUME NEW m \in Contents(t) PROVE m \in Contents(s) \ {h}
    <3>1. PICK i \in DOMAIN t : m = t[i]
      BY DEF Contents
    <3>2. m = s[i + 1] /\ i + 1 \in DOMAIN s /\ i + 1 # 1 /\ 1 \in DOMAIN s
      BY <1>1, <3>1
    <3> QED BY <1>1, <3>2 DEF Contents, Distinct
  <2>2. ASSUME NEW m \in Contents(s) \ {h} PROVE m \in Contents(t)
    <3>1. PICK i \in DOMAIN s : m = s[i]
      BY DEF Contents
    <3>2. i - 1 \in DOMAIN t /\ m = t[i - 1]
      BY <1>1, <3>1
    <3> QED BY <3>2 DEF Contents
  <2> QED BY <2>1, <2>2
<1>4. h \in Contents(s)
  BY <1>1 DEF Contents
<1> QED BY <1>1, <1>2, <1>3, <1>4 DEF t, h

-----------------------------------------------------------------------------
(* The inductive invariant.                                                *)

AtPort == Contents(port)
Starting == {"boot", "icons", "icons wait"}

(* Each user's packet is in one place.                                     *)
Packets ==
    /\ Distinct(port)
    /\ \A u \in Users :
        /\ FromUser(u) \in AtPort => client[u] = "sent" /\ ~Served(u)
        /\ Served(u) => client[u] = "sent"
        /\ client[u] = "sent" /\ at # "alert" => FromUser(u) \in AtPort \/ Served(u)

(* Until the startup packet is answered nobody can find the port.          *)
Startup ==
    /\ at = "boot" => AtPort = {FromUser(Mounter)}
    /\ at \in {"icons", "icons wait"} => AtPort \subseteq {DosReply}
    /\ at \in Starting =>
        /\ serving = Mounter
        /\ ~device /\ ~volume
        /\ held = {}
        /\ \A c \in Clients : client[c] = "idle"
    /\ at \notin Starting => client[Mounter] = "idle"
    /\ at \in {"serve", "host wait", "dos wait", "alert", "die", "dying"} =>
            serving \in Clients

(* An answer is under way only to the call that waits for it.              *)
Answers ==
    /\ at \notin {"icons wait", "dos wait", "alert"} =>
            asking # "port" /\ DosReply \notin AtPort
    /\ asking = "port" => DosReply \notin AtPort
    /\ PrivatePortQuiet
    /\ private => asking = "none"
    /\ OwnPacket \in AtPort => at = "host wait" /\ ~private /\ asking = "none"

(* The way out is taken only when nothing is held.                         *)
Released == at \in {"failed", "dying", "leaving", "closing", "gone"} => held = {}

IInv == TypeOK /\ Packets /\ Startup /\ Answers /\ Released

(* A process that starts has the startup packet at its port.               *)
LEMMA InitIInv == Init => IInv
<1> SUFFICES ASSUME Init PROVE IInv
  OBVIOUS
<1> USE DEF Init
<1>1. /\ port \in Seq(Message)
      /\ DOMAIN port = {1}
      /\ port[1] = FromUser(Mounter)
  BY Messages DEF Users
<1>2. AtPort = {FromUser(Mounter)} /\ Distinct(port)
  BY <1>1 DEF AtPort, Contents, Distinct
<1>3. TypeOK
  <2>1. client \in [Users -> {"idle", "aiming", "sent"}]
    OBVIOUS
  <2>2. kind \in [Users -> Kinds \cup {"startup"}]
    OBVIOUS
  <2>3. serving \in Users /\ calls \in 0 .. MaxCalls /\ at \in Places
    BY CallsAssumption DEF Users, Places
  <2> QED BY <1>1, <2>1, <2>2, <2>3 DEF TypeOK
<1>4. Packets
  BY <1>2, Messages DEF Packets, Served, Busy, Users
<1>5. Startup
  BY <1>2, MounterAssumption DEF Startup, Starting, Users
<1>6. Answers
  BY <1>2, Messages DEF Answers, PrivatePortQuiet, Users
<1>7. Released
  BY DEF Released
<1> QED BY <1>3, <1>4, <1>5, <1>6, <1>7 DEF IInv

-----------------------------------------------------------------------------
(* Every step keeps the invariant.                                         *)

(* A client that has found the port waits for nothing yet.                 *)
LEMMA AimKeeps ==
    ASSUME IInv, NEW c \in Clients, Aim(c)
    PROVE  IInv'
<1> USE DEF Aim
<1>2. port' \in Seq(Message) /\ AtPort' = AtPort /\ Distinct(port')
  BY DEF IInv, TypeOK, Packets, AtPort
<1>3. TypeOK'
  BY <1>2 DEF IInv, TypeOK, clientVars, hostVars, nodes, Goes, Users, Places
<1>4. Packets'
  BY <1>2, Messages DEF IInv, TypeOK, Packets, Served, Busy, clientVars, hostVars, nodes, Goes, Users
<1>5. Startup'
  BY <1>2, Messages, MounterAssumption DEF IInv, TypeOK, Packets, Startup, Starting, Served, Busy, clientVars, hostVars, nodes, Goes, Users
<1>6. Answers'
  BY <1>2, Messages DEF IInv, TypeOK, Answers, PrivatePortQuiet, Startup, Starting, clientVars, hostVars, nodes, Goes, Users
<1>7. Released'
  BY DEF IInv, Released, Startup, Starting, clientVars, hostVars, nodes, Goes
<1> QED BY <1>3, <1>4, <1>5, <1>6, <1>7 DEF IInv

(* A packet that is sent was not at the port.                              *)
LEMMA SendKeeps ==
    ASSUME IInv, NEW c \in Clients, Send(c)
    PROVE  IInv'
<1> USE DEF Send
<1>1. FromUser(c) \notin AtPort
  BY Messages DEF IInv, Packets, Answers, PrivatePortQuiet, Goes, Users
<1>2. port' \in Seq(Message) /\ AtPort' = AtPort \cup {FromUser(c)} /\ Distinct(port')
  BY <1>1, PutAtEnd, Messages DEF IInv, TypeOK, Packets, AtPort, Users
<1>3. TypeOK'
  BY <1>2 DEF IInv, TypeOK, clientVars, hostVars, nodes, Goes, Users, Places
<1>4. Packets'
  BY <1>2, Messages DEF IInv, TypeOK, Packets, Served, Busy, clientVars, hostVars, nodes, Goes, Users
<1>5. Startup'
  BY <1>2, Messages, MounterAssumption DEF IInv, TypeOK, Packets, Startup, Starting, Served, Busy, clientVars, hostVars, nodes, Goes, Users
<1>6. Answers'
  BY <1>2, Messages DEF IInv, TypeOK, Answers, PrivatePortQuiet, Startup, Starting, clientVars, hostVars, nodes, Goes, Users
<1>7. Released'
  BY DEF IInv, Released, Startup, Starting, clientVars, hostVars, nodes, Goes
<1> QED BY <1>3, <1>4, <1>5, <1>6, <1>7 DEF IInv

(* The answer of another handler arrives at the private port.              *)
LEMMA HostAnswersKeeps ==
    ASSUME IInv, HostAnswers
    PROVE  IInv'
<1> USE DEF HostAnswers
<1>2. port' \in Seq(Message) /\ AtPort' = AtPort /\ Distinct(port')
  BY DEF IInv, TypeOK, Packets, AtPort
<1>3. TypeOK'
  BY <1>2 DEF IInv, TypeOK, clientVars, hostVars, nodes, Goes, Users, Places
<1>4. Packets'
  BY <1>2, Messages DEF IInv, TypeOK, Packets, Served, Busy, clientVars, hostVars, nodes, Goes, Users
<1>5. Startup'
  BY <1>2, Messages, MounterAssumption DEF IInv, TypeOK, Packets, Startup, Starting, Served, Busy, clientVars, hostVars, nodes, Goes, Users
<1>6. Answers'
  BY <1>2, Messages DEF IInv, TypeOK, Answers, PrivatePortQuiet, Startup, Starting, clientVars, hostVars, nodes, Goes, Users
<1>7. Released'
  BY DEF IInv, Released, Startup, Starting, clientVars, hostVars, nodes, Goes
<1> QED BY <1>3, <1>4, <1>5, <1>6, <1>7 DEF IInv

(* The answer to dos.library arrives at the port.                          *)
LEMMA DosAnswersKeeps ==
    ASSUME IInv, DosAnswers
    PROVE  IInv'
<1> USE DEF DosAnswers
<1>1. DosReply \notin AtPort
  BY Messages DEF IInv, Packets, Answers, PrivatePortQuiet, Goes, Users
<1>2. port' \in Seq(Message) /\ AtPort' = AtPort \cup {DosReply} /\ Distinct(port')
  BY <1>1, PutAtEnd, Messages DEF IInv, TypeOK, Packets, AtPort, Users
<1>3. TypeOK'
  BY <1>2 DEF IInv, TypeOK, clientVars, hostVars, nodes, Goes, Users, Places
<1>4. Packets'
  BY <1>2, Messages DEF IInv, TypeOK, Packets, Served, Busy, clientVars, hostVars, nodes, Goes, Users
<1>5. Startup'
  BY <1>2, Messages, MounterAssumption DEF IInv, TypeOK, Packets, Answers, Startup, Starting, Served, Busy, clientVars, hostVars, nodes, Goes, Users
<1>6. Answers'
  BY <1>2, Messages DEF IInv, TypeOK, Answers, PrivatePortQuiet, Startup, Starting, clientVars, hostVars, nodes, Goes, Users
<1>7. Released'
  BY DEF IInv, Released, Startup, Starting, clientVars, hostVars, nodes, Goes
<1> QED BY <1>3, <1>4, <1>5, <1>6, <1>7 DEF IInv

(* The first packet is taken to be served.                                 *)
LEMMA WaitDosPacketKeeps ==
    ASSUME IInv, WaitDosPacket
    PROVE  IInv'
<1> USE DEF WaitDosPacket
<1>2. /\ Head(port) \in AtPort /\ Head(port) \in Message
      /\ port' \in Seq(Message) /\ Distinct(port')
      /\ AtPort' = AtPort \ {Head(port)}
  BY TakeFirst DEF IInv, TypeOK, Packets, AtPort
<1> DEFINE u == Head(port).user
<1>3a. Head(port) \notin {DosReply, OwnPacket}
  BY <1>2 DEF IInv, Answers
<1>3b. u \in Users /\ Head(port) = FromUser(u)
  BY <1>2, <1>3a, Messages
<1>3c. /\ at = "boot" => u = Mounter /\ AtPort' = {}
       /\ at = "loop" => u \in Clients
       /\ client[u] = "sent" /\ ~Served(u)
  <2>1. client[u] = "sent" /\ ~Served(u)
    BY <1>2, <1>3b DEF IInv, Packets
  <2>2. at = "boot" => u = Mounter /\ AtPort' = {}
    <3>1. HAVE at = "boot"
    <3>2. AtPort = {FromUser(Mounter)}
      BY <3>1 DEF IInv, Startup
    <3> QED BY <1>2, <1>3b, <3>2, Messages DEF Users
  <2>3. at = "loop" => u \in Clients
    BY <1>3b, <2>1 DEF IInv, Startup, Starting, Users
  <2> QED BY <2>1, <2>2, <2>3
<1> HIDE DEF u
<1>3. TypeOK'
  <2>1. calls' \in 0 .. MaxCalls
    BY CallsAssumption
  <2>2. serving' \in Users
    BY <1>3b DEF u
  <2>3. at' \in Places
    BY DEF Places
  <2> QED BY <1>2, <2>1, <2>2, <2>3 DEF IInv, TypeOK, clientVars, hostVars, nodes
<1>4. Packets'
  <2>1. at' \in {"icons", "serve", "die"} /\ serving' = u /\ client' = client
    BY DEF u, clientVars
  <2>2. AtPort' = AtPort \ {FromUser(u)} /\ ~(at \in Busy)
    BY <1>2, <1>3b DEF Busy
  <2>3. ASSUME NEW v \in Users
        PROVE  /\ FromUser(v) \in AtPort' => client'[v] = "sent" /\ ~Served(v)'
               /\ Served(v)' => client'[v] = "sent"
               /\ client'[v] = "sent" /\ at' # "alert" =>
                        FromUser(v) \in AtPort' \/ Served(v)'
    <3>1. Served(v)' <=> v = u
      BY <2>1 DEF Served, Busy
    <3>2. FromUser(v) \in AtPort' <=> FromUser(v) \in AtPort /\ v # u
      BY <1>3b, <2>2, Messages
    <3>3. /\ FromUser(v) \in AtPort => client[v] = "sent"
          /\ client[v] = "sent" => FromUser(v) \in AtPort
      BY <2>2 DEF IInv, Packets, Served, Busy
    <3> QED BY <1>3c, <2>1, <3>1, <3>2, <3>3
  <2> QED BY <1>2, <2>3 DEF Packets
<1>5. Startup'
  BY <1>2, <1>3c, MounterAssumption DEF u, IInv, TypeOK, Packets, Startup, Starting, Served, Busy, clientVars, hostVars, nodes, Goes, Users
<1>6. Answers'
  BY <1>2, Messages DEF IInv, TypeOK, Answers, PrivatePortQuiet, Startup, Starting, clientVars, hostVars, nodes, Goes, Users
<1>7. Released'
  BY DEF IInv, Released, Startup, Starting, clientVars, hostVars, nodes, Goes
<1> QED BY <1>3, <1>4, <1>5, <1>6, <1>7 DEF IInv

(* The mount fails.                                                        *)
LEMMA RefuseStartupKeeps ==
    ASSUME IInv, RefuseStartup
    PROVE  IInv'
<1> USE DEF RefuseStartup, ReplyDosPacket
<1>2. port' \in Seq(Message) /\ AtPort' = AtPort /\ Distinct(port')
  BY DEF IInv, TypeOK, Packets, AtPort
<1>3. TypeOK'
  BY <1>2 DEF IInv, TypeOK, clientVars, hostVars, nodes, Goes, Users, Places
<1>4. Packets'
  BY <1>2, Messages DEF IInv, TypeOK, Packets, Served, Busy, clientVars, hostVars, nodes, Goes, Users
<1>5. Startup'
  BY <1>2, Messages, MounterAssumption DEF IInv, TypeOK, Packets, Startup, Starting, Served, Busy, clientVars, hostVars, nodes, Goes, Users
<1>6. Answers'
  BY <1>2, Messages DEF IInv, TypeOK, Answers, PrivatePortQuiet, Startup, Starting, clientVars, hostVars, nodes, Goes, Users
<1>7. Released'
  BY DEF IInv, Released, Startup, Starting, clientVars, hostVars, nodes, Goes
<1> QED BY <1>3, <1>4, <1>5, <1>6, <1>7 DEF IInv

(* The startup packet is answered.                                         *)
LEMMA AnswerStartupKeeps ==
    ASSUME IInv, AnswerStartup
    PROVE  IInv'
<1> USE DEF AnswerStartup, ReplyDosPacket
<1>2. port' \in Seq(Message) /\ AtPort' = AtPort /\ Distinct(port')
  BY DEF IInv, TypeOK, Packets, AtPort
<1>3. TypeOK'
  BY <1>2 DEF IInv, TypeOK, clientVars, hostVars, nodes, Goes, Users, Places
<1>4. Packets'
  BY <1>2, Messages DEF IInv, TypeOK, Packets, Served, Busy, clientVars, hostVars, nodes, Goes, Users
<1>5. Startup'
  BY <1>2, Messages, MounterAssumption DEF IInv, TypeOK, Packets, Startup, Starting, Served, Busy, clientVars, hostVars, nodes, Goes, Users
<1>6. Answers'
  BY <1>2, Messages DEF IInv, TypeOK, Answers, PrivatePortQuiet, Startup, Starting, clientVars, hostVars, nodes, Goes, Users
<1>7. Released'
  BY DEF IInv, Released, Startup, Starting, clientVars, hostVars, nodes, Goes
<1> QED BY <1>3, <1>4, <1>5, <1>6, <1>7 DEF IInv

(* The volume node is made.                                                *)
LEMMA VolumeInitKeeps ==
    ASSUME IInv, lhh_volume_init
    PROVE  IInv'
<1> USE DEF lhh_volume_init
<1>2. port' \in Seq(Message) /\ AtPort' = AtPort /\ Distinct(port')
  BY DEF IInv, TypeOK, Packets, AtPort
<1>3. TypeOK'
  BY <1>2 DEF IInv, TypeOK, clientVars, hostVars, nodes, Goes, Users, Places
<1>4. Packets'
  BY <1>2, Messages DEF IInv, TypeOK, Packets, Served, Busy, clientVars, hostVars, nodes, Goes, Users
<1>5. Startup'
  BY <1>2, Messages, MounterAssumption DEF IInv, TypeOK, Packets, Startup, Starting, Served, Busy, clientVars, hostVars, nodes, Goes, Users
<1>6. Answers'
  BY <1>2, Messages DEF IInv, TypeOK, Answers, PrivatePortQuiet, Startup, Starting, clientVars, hostVars, nodes, Goes, Users
<1>7. Released'
  BY DEF IInv, Released, Startup, Starting, clientVars, hostVars, nodes, Goes
<1> QED BY <1>3, <1>4, <1>5, <1>6, <1>7 DEF IInv

(* The answer at the private port is taken.                                *)
LEMMA TakePrivateKeeps ==
    ASSUME IInv, TakePrivate
    PROVE  IInv'
<1> USE DEF TakePrivate
<1>2. port' \in Seq(Message) /\ AtPort' = AtPort /\ Distinct(port')
  BY DEF IInv, TypeOK, Packets, AtPort
<1>3. TypeOK'
  BY <1>2 DEF IInv, TypeOK, clientVars, hostVars, nodes, Goes, Users, Places
<1>4. Packets'
  BY <1>2, Messages DEF IInv, TypeOK, Packets, Served, Busy, clientVars, hostVars, nodes, Goes, Users
<1>5. Startup'
  BY <1>2, Messages, MounterAssumption DEF IInv, TypeOK, Packets, Startup, Starting, Served, Busy, clientVars, hostVars, nodes, Goes, Users
<1>6. Answers'
  BY <1>2, Messages DEF IInv, TypeOK, Answers, PrivatePortQuiet, Startup, Starting, clientVars, hostVars, nodes, Goes, Users
<1>7. Released'
  BY DEF IInv, Released, Startup, Starting, clientVars, hostVars, nodes, Goes
<1> QED BY <1>3, <1>4, <1>5, <1>6, <1>7 DEF IInv

(* A packet that goes to the handler itself was not at its port.           *)
LEMMA AskHostKeeps ==
    ASSUME IInv, AskHost
    PROVE  IInv'
<1> USE DEF AskHost
<1>1. /\ at = "serve" /\ at' = "host wait" /\ serving' = serving
      /\ serving \in Clients
      /\ ~private /\ asking = "none" /\ private' = private
      /\ DosReply \notin AtPort /\ OwnPacket \notin AtPort
      /\ UNCHANGED <<client, kind, held, device, volume>>
  BY DEF IInv, TypeOK, Startup, Answers, PrivatePortQuiet, Goes, clientVars, nodes
<1>1a. calls \in 0 .. MaxCalls
  BY DEF IInv, TypeOK
<1>1b. calls < MaxCalls /\ calls' = calls + 1
  OBVIOUS
<1>2. \/ asking' = "private" /\ port' = port
      \/ asking' = asking /\ port' = Append(port, OwnPacket)
  OBVIOUS
<1> HIDE DEF AskHost
<1>3. /\ port' \in Seq(Message) /\ Distinct(port')
      /\ \/ asking' = "private" /\ AtPort' = AtPort
         \/ asking' = "none" /\ AtPort' = AtPort \cup {OwnPacket}
  <2>1. port \in Seq(Message) /\ Distinct(port)
    BY DEF IInv, TypeOK, Packets
  <2>2. CASE port' = port /\ asking' = "private"
    BY <2>1, <2>2 DEF AtPort
  <2>3. CASE asking' = asking /\ port' = Append(port, OwnPacket)
    BY <1>1, <2>1, <2>3, PutAtEnd, Messages DEF AtPort
  <2> QED BY <1>2, <2>2, <2>3
<1>4. TypeOK'
  <2>1. calls' \in 0 .. MaxCalls
    BY <1>1a, <1>1b, CallsAssumption
  <2> QED BY <1>1, <1>3, <2>1 DEF IInv, TypeOK, Places
<1>5. Packets'
  BY <1>1, <1>3, Messages DEF IInv, Packets, Served, Busy
<1>6. Startup'
  BY <1>1 DEF IInv, Startup, Starting
<1>7. Answers'
  BY <1>1, <1>3, Messages DEF Answers, PrivatePortQuiet
<1>8. Released'
  BY <1>1 DEF Released
<1> QED BY <1>4, <1>5, <1>6, <1>7, <1>8 DEF IInv

(* dos.library sends a packet.                                             *)
LEMMA AskDosKeeps ==
    ASSUME IInv, AskDos
    PROVE  IInv'
<1> USE DEF AskDos
<1>2. port' \in Seq(Message) /\ AtPort' = AtPort /\ Distinct(port')
  BY DEF IInv, TypeOK, Packets, AtPort
<1>3. TypeOK'
  <2>1. calls' \in 0 .. MaxCalls
    <3>1. calls \in 0 .. MaxCalls
      BY DEF IInv, TypeOK
    <3>2. calls < MaxCalls /\ calls' = calls + 1
      OBVIOUS
    <3> HIDE DEF AskDos
    <3> QED BY <3>1, <3>2, CallsAssumption
  <2> QED BY <1>2, <2>1 DEF IInv, TypeOK, clientVars, nodes, Goes, Places
<1>4. Packets'
  BY <1>2, Messages DEF IInv, TypeOK, Packets, Served, Busy, clientVars, hostVars, nodes, Goes, Users
<1>5. Startup'
  BY <1>2, Messages, MounterAssumption DEF IInv, TypeOK, Packets, Startup, Starting, Served, Busy, clientVars, hostVars, nodes, Goes, Users
<1>6. Answers'
  BY <1>2, Messages DEF IInv, TypeOK, Answers, PrivatePortQuiet, Startup, Starting, clientVars, hostVars, nodes, Goes, Users
<1>7. Released'
  BY DEF IInv, Released, Startup, Starting, clientVars, hostVars, nodes, Goes
<1> QED BY <1>3, <1>4, <1>5, <1>6, <1>7 DEF IInv

(* dos.library takes the first message.                                    *)
LEMMA WaitPktKeeps ==
    ASSUME IInv, WaitPkt
    PROVE  IInv'
<1> USE DEF WaitPkt
<1>2. /\ Head(port) \in AtPort /\ Head(port) \in Message
      /\ port' \in Seq(Message) /\ Distinct(port')
      /\ AtPort' = AtPort \ {Head(port)}
  BY TakeFirst DEF IInv, TypeOK, Packets, AtPort
<1>3. TypeOK'
  BY <1>2 DEF IInv, TypeOK, clientVars, hostVars, nodes, Goes, Users, Places
<1>4. Packets'
  BY <1>2, Messages DEF IInv, TypeOK, Packets, Served, Busy, clientVars, hostVars, nodes, Goes, Users
<1>5. Startup'
  BY <1>2, Messages, MounterAssumption DEF IInv, TypeOK, Packets, Startup, Starting, Served, Busy, clientVars, hostVars, nodes, Goes, Users
<1>6. Answers'
  BY <1>2, Messages DEF IInv, TypeOK, Answers, PrivatePortQuiet, Startup, Starting, clientVars, hostVars, nodes, Goes, Users
<1>7. Released'
  BY DEF IInv, Released, Startup, Starting, clientVars, hostVars, nodes, Goes
<1> QED BY <1>3, <1>4, <1>5, <1>6, <1>7 DEF IInv

(* A packet is answered.                                                   *)
LEMMA AnswerKeeps ==
    ASSUME IInv, Answer
    PROVE  IInv'
<1> USE DEF Answer, ReplyDosPacket
<1>2. port' \in Seq(Message) /\ AtPort' = AtPort /\ Distinct(port')
  BY DEF IInv, TypeOK, Packets, AtPort
<1>3. TypeOK'
  BY <1>2 DEF IInv, TypeOK, Startup, clientVars, hostVars, nodes, Goes, Users, Places
<1>4. Packets'
  BY <1>2, Messages DEF IInv, TypeOK, Packets, Served, Busy, clientVars, hostVars, nodes, Goes, Users
<1>5. Startup'
  BY <1>2, Messages, MounterAssumption DEF IInv, TypeOK, Packets, Startup, Starting, Served, Busy, clientVars, hostVars, nodes, Goes, Users
<1>6. Answers'
  BY <1>2, Messages DEF IInv, TypeOK, Answers, PrivatePortQuiet, Startup, Starting, clientVars, hostVars, nodes, Goes, Users
<1>7. Released'
  BY DEF IInv, Released, Startup, Starting, clientVars, hostVars, nodes, Goes
<1> QED BY <1>3, <1>4, <1>5, <1>6, <1>7 DEF IInv

(* ACTION_DIE finds nothing held.                                          *)
LEMMA DieKeeps ==
    ASSUME IInv, Die
    PROVE  IInv'
<1> USE DEF Die
<1>2. port' \in Seq(Message) /\ AtPort' = AtPort /\ Distinct(port')
  BY DEF IInv, TypeOK, Packets, AtPort
<1>3. TypeOK'
  BY <1>2 DEF IInv, TypeOK, clientVars, hostVars, nodes, Goes, Users, Places
<1>4. Packets'
  BY <1>2, Messages DEF IInv, TypeOK, Packets, Served, Busy, clientVars, hostVars, nodes, Goes, Users
<1>5. Startup'
  BY <1>2, Messages, MounterAssumption DEF IInv, TypeOK, Packets, Startup, Starting, Served, Busy, clientVars, hostVars, nodes, Goes, Users
<1>6. Answers'
  BY <1>2, Messages DEF IInv, TypeOK, Answers, PrivatePortQuiet, Startup, Starting, clientVars, hostVars, nodes, Goes, Users
<1>7. Released'
  BY DEF IInv, Released, Startup, Starting, clientVars, hostVars, nodes, Goes
<1> QED BY <1>3, <1>4, <1>5, <1>6, <1>7 DEF IInv

(* ACTION_DIE is refused.                                                  *)
LEMMA RefuseDieKeeps ==
    ASSUME IInv, RefuseDie
    PROVE  IInv'
<1> USE DEF RefuseDie, ReplyDosPacket
<1>2. port' \in Seq(Message) /\ AtPort' = AtPort /\ Distinct(port')
  BY DEF IInv, TypeOK, Packets, AtPort
<1>3. TypeOK'
  BY <1>2 DEF IInv, TypeOK, clientVars, hostVars, nodes, Goes, Users, Places
<1>4. Packets'
  BY <1>2, Messages DEF IInv, TypeOK, Packets, Served, Busy, clientVars, hostVars, nodes, Goes, Users
<1>5. Startup'
  BY <1>2, Messages, MounterAssumption DEF IInv, TypeOK, Packets, Startup, Starting, Served, Busy, clientVars, hostVars, nodes, Goes, Users
<1>6. Answers'
  BY <1>2, Messages DEF IInv, TypeOK, Answers, PrivatePortQuiet, Startup, Starting, clientVars, hostVars, nodes, Goes, Users
<1>7. Released'
  BY DEF IInv, Released, Startup, Starting, clientVars, hostVars, nodes, Goes
<1> QED BY <1>3, <1>4, <1>5, <1>6, <1>7 DEF IInv

(* ACTION_DIE is answered.                                                 *)
LEMMA GrantDieKeeps ==
    ASSUME IInv, GrantDie
    PROVE  IInv'
<1> USE DEF GrantDie, ReplyDosPacket
<1>2. port' \in Seq(Message) /\ AtPort' = AtPort /\ Distinct(port')
  BY DEF IInv, TypeOK, Packets, AtPort
<1>3. TypeOK'
  BY <1>2 DEF IInv, TypeOK, clientVars, hostVars, nodes, Goes, Users, Places
<1>4. Packets'
  BY <1>2, Messages DEF IInv, TypeOK, Packets, Served, Busy, clientVars, hostVars, nodes, Goes, Users
<1>5. Startup'
  BY <1>2, Messages, MounterAssumption DEF IInv, TypeOK, Packets, Startup, Starting, Served, Busy, clientVars, hostVars, nodes, Goes, Users
<1>6. Answers'
  BY <1>2, Messages DEF IInv, TypeOK, Answers, PrivatePortQuiet, Startup, Starting, clientVars, hostVars, nodes, Goes, Users
<1>7. Released'
  BY DEF IInv, Released, Startup, Starting, clientVars, hostVars, nodes, Goes
<1> QED BY <1>3, <1>4, <1>5, <1>6, <1>7 DEF IInv

(* The device node is cleared.                                             *)
LEMMA ClearTaskKeeps ==
    ASSUME IInv, ClearTask
    PROVE  IInv'
<1> USE DEF ClearTask
<1>2. port' \in Seq(Message) /\ AtPort' = AtPort /\ Distinct(port')
  BY DEF IInv, TypeOK, Packets, AtPort
<1>3. TypeOK'
  BY <1>2 DEF IInv, TypeOK, clientVars, hostVars, nodes, Goes, Users, Places
<1>4. Packets'
  BY <1>2, Messages DEF IInv, TypeOK, Packets, Served, Busy, clientVars, hostVars, nodes, Goes, Users
<1>5. Startup'
  BY <1>2, Messages, MounterAssumption DEF IInv, TypeOK, Packets, Startup, Starting, Served, Busy, clientVars, hostVars, nodes, Goes, Users
<1>6. Answers'
  BY <1>2, Messages DEF IInv, TypeOK, Answers, PrivatePortQuiet, Startup, Starting, clientVars, hostVars, nodes, Goes, Users
<1>7. Released'
  BY DEF IInv, Released, Startup, Starting, clientVars, hostVars, nodes, Goes
<1> QED BY <1>3, <1>4, <1>5, <1>6, <1>7 DEF IInv

(* The process ends.                                                       *)
LEMMA CloseresKeeps ==
    ASSUME IInv, closeres
    PROVE  IInv'
<1> USE DEF closeres
<1>2. port' \in Seq(Message) /\ AtPort' = AtPort /\ Distinct(port')
  BY DEF IInv, TypeOK, Packets, AtPort
<1>3. TypeOK'
  BY <1>2 DEF IInv, TypeOK, clientVars, hostVars, nodes, Goes, Users, Places
<1>4. Packets'
  BY <1>2, Messages DEF IInv, TypeOK, Packets, Served, Busy, clientVars, hostVars, nodes, Goes, Users
<1>5. Startup'
  BY <1>2, Messages, MounterAssumption DEF IInv, TypeOK, Packets, Startup, Starting, Served, Busy, clientVars, hostVars, nodes, Goes, Users
<1>6. Answers'
  BY <1>2, Messages DEF IInv, TypeOK, Answers, PrivatePortQuiet, Startup, Starting, clientVars, hostVars, nodes, Goes, Users
<1>7. Released'
  BY DEF IInv, Released, Startup, Starting, clientVars, hostVars, nodes, Goes
<1> QED BY <1>3, <1>4, <1>5, <1>6, <1>7 DEF IInv

(* Steps that change nothing keep it too.                                  *)
LEMMA StutterKeeps ==
    ASSUME IInv, UNCHANGED vars
    PROVE  IInv'
<1> USE DEF vars, clientVars, hostVars, nodes
<1>1. TypeOK' /\ Startup' /\ Answers' /\ Released'
  BY DEF IInv, TypeOK, Startup, Answers, PrivatePortQuiet, Released, AtPort, Contents
<1>2. Packets'
  BY DEF IInv, Packets, Served, AtPort, Contents, Distinct
<1> QED BY <1>1, <1>2 DEF IInv

LEMMA NextIInv == IInv /\ [Next]_vars => IInv'
<1> SUFFICES ASSUME IInv, [Next]_vars PROVE IInv'
  OBVIOUS
<1>1. ASSUME NEW c \in Clients, Aim(c) PROVE IInv'
  BY <1>1, AimKeeps
<1>2. ASSUME NEW c \in Clients, Send(c) PROVE IInv'
  BY <1>2, SendKeeps
<1>3. CASE HostAnswers \/ DosAnswers
  BY <1>3, HostAnswersKeeps, DosAnswersKeeps
<1>4. CASE lhh_main
  BY <1>4, WaitDosPacketKeeps, RefuseStartupKeeps, AnswerStartupKeeps,
     VolumeInitKeeps, AskHostKeeps, TakePrivateKeeps, AskDosKeeps,
     WaitPktKeeps, AnswerKeeps, DieKeeps, RefuseDieKeeps, GrantDieKeeps,
     ClearTaskKeeps, CloseresKeeps DEF lhh_main
<1>5. CASE UNCHANGED vars
  BY <1>5, StutterKeeps
<1> QED BY <1>1, <1>2, <1>3, <1>4, <1>5 DEF Next

-----------------------------------------------------------------------------
(* The theorems.                                                           *)

(* The invariant holds in every state the handler and its clients reach.   *)
THEOREM PortInvariance == Spec => []IInv
  BY InitIInv, NextIInv, PTL DEF Spec

(* Every variable keeps its type, the number of calls its bound.           *)
THEOREM PortTypes == Spec => []TypeOK
<1>1. IInv => TypeOK
  BY DEF IInv
<1> QED BY <1>1, PortInvariance, PTL

(* Reading the icons at startup never takes a client's packet: no client   *)
(* can have found the port, and the answer is the only message there.      *)
THEOREM IconsSafe == Spec => []IconsReadSafely
<1>1. IInv => IconsReadSafely
  BY MounterAssumption DEF IInv, Startup, IconsReadSafely
<1> QED BY <1>1, PortInvariance, PTL

(* The packet of a user is in exactly one place until it is answered.      *)
THEOREM PacketOnce == Spec => []EveryPacketOnce
<1>1. IInv => EveryPacketOnce
  <2> SUFFICES ASSUME IInv PROVE EveryPacketOnce
    OBVIOUS
  <2>1. \A u \in Users : Queued(u) <=> FromUser(u) \in AtPort
    BY DEF Queued, AtPort, Contents
  <2> QED BY <2>1 DEF IInv, Packets, Distinct, EveryPacketOnce
<1> QED BY <1>1, PortInvariance, PTL

(* Between requests no answer is at the private port or on its way there.  *)
THEOREM PrivateQuiet == Spec => []PrivatePortQuiet
<1>1. IInv => PrivatePortQuiet
  BY DEF IInv, Answers
<1> QED BY <1>1, PortInvariance, PTL

(* A step of the handler that answers a packet.                            *)
LEMMA Answering ==
    ASSUME IInv, Served(serving), Up, Up', ReplyDosPacket(serving),
           \/ held' = held
           \/ held' \in {held \cup {serving}, held \ {serving}}
    PROVE  Service!Next
<1>1. serving \in Users /\ client[serving] = "sent"
  BY DEF IInv, TypeOK, Packets
<1>2. Waiting' = Waiting \ {serving} /\ serving \in Waiting
  BY <1>1 DEF IInv, TypeOK, Waiting, ReplyDosPacket
<1>3. Service!Answer(serving)
  BY <1>2 DEF Service!Answer
<1> QED BY <1>1, <1>3 DEF Service!Next

(* The handler answers each packet once, while it is up, and goes down when*)
(* nothing of it is held: it implements the safety half of PacketService.  *)
THEOREM Implements == Spec => ServesOnce
<1>1. Init => Service!Init
  BY DEF Init, Service!Init, Waiting, Up, Users
<1>2. IInv /\ [Next]_vars => [Service!Next]_(Service!vars)
  <2> SUFFICES ASSUME IInv, [Next]_vars PROVE Service!Next \/ UNCHANGED Service!vars
    OBVIOUS
  <2> DEFINE Same == UNCHANGED <<client, held, Up>>
  <2>1. Same => UNCHANGED Service!vars
    BY DEF Service!vars, Waiting
  <2>2. ASSUME NEW c \in Clients, Aim(c) PROVE UNCHANGED Service!vars
    <3>1. Waiting' = Waiting
      BY <2>2 DEF Aim, IInv, TypeOK, Waiting, Users
    <3> QED BY <2>2, <3>1 DEF Aim, Service!vars, Up
  <2>3. ASSUME NEW c \in Clients, Send(c) PROVE Service!Next
    <3>1. c \notin Waiting /\ Waiting' = Waiting \cup {c} /\ c \in Users
      BY <2>3 DEF Send, IInv, TypeOK, Waiting, Users
    <3>2. Service!Ask(c)
      BY <2>3, <3>1 DEF Send, Service!Ask, Up
    <3> QED BY <3>1, <3>2 DEF Service!Next
  <2>4. CASE UNCHANGED vars
    BY <2>1, <2>4 DEF vars, clientVars, Up
  <2>5. CASE HostAnswers \/ DosAnswers
    BY <2>1, <2>5 DEF HostAnswers, DosAnswers, clientVars, Up
  <2>6. CASE WaitDosPacket \/ lhh_volume_init \/ AskHost \/ TakePrivate \/ AskDos
    BY <2>1, <2>6 DEF WaitDosPacket, lhh_volume_init, AskHost, TakePrivate, AskDos,
       Goes, clientVars, Up
  <2>7. CASE WaitPkt \/ Die
    BY <2>1, <2>7 DEF WaitPkt, Die, Goes, clientVars, Up
  <2>8. CASE RefuseStartup \/ AnswerStartup \/ Answer \/ RefuseDie \/ GrantDie
    <3>1. Served(serving) /\ Up /\ Up'
      BY <2>8 DEF RefuseStartup, AnswerStartup, Answer, RefuseDie, GrantDie,
         Goes, Served, Busy, Up
    <3>2. ReplyDosPacket(serving)
      BY <2>8 DEF RefuseStartup, AnswerStartup, Answer, RefuseDie, GrantDie
    <3>3. held' \in {held, held \cup {serving}, held \ {serving}}
      BY <2>8 DEF RefuseStartup, AnswerStartup, Answer, RefuseDie, GrantDie
    <3> QED BY <3>1, <3>2, <3>3, Answering
  <2>9. CASE ClearTask \/ closeres
    <3>1. held = {} /\ held' = held /\ client' = client /\ ~Up'
      BY <2>9 DEF ClearTask, closeres, Goes, IInv, Released, clientVars, Up
    <3>2. Waiting' = Waiting
      BY <3>1 DEF Waiting
    <3> QED BY <3>1, <3>2 DEF Service!Next, Service!Stop, Service!vars, Up
  <2> QED BY <2>2, <2>3, <2>4, <2>5, <2>6, <2>7, <2>8, <2>9 DEF Next, lhh_main
<1> QED BY <1>1, <1>2, PortInvariance, PTL DEF Spec, ServesOnce, Service!Safety
=============================================================================
