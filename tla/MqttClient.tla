----------------------------- MODULE MqttClient -----------------------------
(***************************************************************************)
(* The client's connection to the broker (mqtt.cpp): mosquitto's socket,   *)
(* the asio object that waits on it, and the flag that lets one write wait *)
(* be pending at a time.  The io thread runs the handlers one by one;      *)
(* another thread publishes in between (OpenTherm, measurements).          *)
(***************************************************************************)
EXTENDS Integers

CONSTANTS
  Countdown,  \* reconnect_delay_countdown_init: 60
  MaxPackets  \* queued at a time; bound of the run

ASSUME MqttClientAssumption == Countdown \in Nat /\ MaxPackets \in Nat \ {0}

VARIABLES
  mqSock,             \* mosquitto's socket: the CONNECT is still queued, or was sent
  broken,             \* ... and is no good any more, unnoticed
  mqObj,              \* mqtt_socket
  packets,            \* mosquitto's packets to send
  mqFlag,             \* mqtt_pending_write
  rPending,           \* the wait to read
  wPending, wAborted, \* the wait to write; one whose handler is to run with an error
  ioAt, pubAt,        \* where the io thread and the publishing thread are
  countdown,
  died,               \* LogDIE
  mqOverlap          \* history: the object was dropped under the publishing thread

mqVars == <<mqSock, broken, mqObj, packets, mqFlag, rPending, wPending, wAborted, ioAt, pubAt,
            countdown, died, mqOverlap>>
sched == <<mqFlag, wPending, wAborted>>

SchedAt == {"idle", "want", "flag", "wait"}
MqttClientTypeOK ==
  /\ mqSock \in {"none", "opening", "open"} /\ packets \in 0..MaxPackets
  /\ {broken, mqObj, mqFlag, rPending, wPending, wAborted, died, mqOverlap} \subseteq BOOLEAN
  /\ ioAt \in SchedAt \cup {"read", "write", "null"} /\ pubAt \in SchedAt
  /\ countdown \in 0..Countdown

(* The constructor's attempt may have failed.                               *)
MqttClientInit ==
  /\ mqSock = "none" /\ broken = FALSE /\ mqObj = FALSE /\ packets = 0 /\ mqFlag = FALSE
  /\ rPending = FALSE /\ wPending = FALSE /\ wAborted = FALSE
  /\ ioAt = "idle" /\ pubAt = "idle" /\ countdown = Countdown /\ died = FALSE
  /\ mqOverlap = FALSE

-----------------------------------------------------------------------------
(* publish puts a packet in mosquitto's queue, or fails without connection. *)
Queue == mqSock # "none" /\ packets < MaxPackets /\ packets' = packets + 1
UnchangedLink == UNCHANGED <<mqSock, broken, mqObj, rPending, countdown, mqOverlap>>

(* sched_write_mqtt_socket, by a thread that goes from one place to another:*)
(* want_write, the exchange of the flag, and the wait on the object.        *)
Sched(at, to) ==
  \/ /\ at = "want" /\ to = IF packets > 0 THEN "flag" ELSE "idle"
     /\ UNCHANGED <<sched, died>>
  \/ /\ at = "flag" /\ mqFlag' = TRUE /\ to = IF mqFlag THEN "idle" ELSE "wait"
     /\ UNCHANGED <<wPending, wAborted, died>>
  \/ /\ at = "wait" /\ to = "idle"
     /\ IF mqObj THEN wPending' = TRUE /\ UNCHANGED died
                 ELSE died' = TRUE /\ UNCHANGED wPending
     /\ UNCHANGED <<mqFlag, wAborted>>

Publisher ==
  \/ pubAt = "idle" /\ Queue /\ pubAt' = "want" /\ UNCHANGED <<ioAt, sched, died>> /\ UnchangedLink
  \/ /\ pubAt' \in SchedAt /\ Sched(pubAt, pubAt')
     /\ UNCHANGED <<packets, ioAt>> /\ UnchangedLink

-----------------------------------------------------------------------------
(* The io thread: publish; the write wait's handler clears the flag before  *)
(* do_write; the read wait's goes on with both waits.                       *)
IoPublish ==
  /\ ioAt = "idle" /\ Queue /\ ioAt' = "want"
  /\ UNCHANGED <<sched, pubAt, died>> /\ UnchangedLink

MutCleared == UNCHANGED mqFlag
Cleared == mqFlag' = FALSE
WriteReady ==
  /\ ioAt = "idle" /\ wPending /\ wPending' = FALSE /\ Cleared /\ ioAt' = "write"
  /\ UNCHANGED <<packets, wAborted, pubAt, died>> /\ UnchangedLink
WriteAborted ==
  /\ ioAt = "idle" /\ wAborted /\ wAborted' = FALSE /\ Cleared
  /\ UNCHANGED <<packets, wPending, ioAt, pubAt, died>> /\ UnchangedLink
ReadReady ==
  /\ ioAt = "idle" /\ rPending /\ rPending' = FALSE /\ ioAt' = "read"
  /\ UNCHANGED <<mqSock, broken, mqObj, packets, sched, pubAt, countdown, died, mqOverlap>>

(* A broken connection: mosquitto drops its socket and calls on_disconnect, *)
(* which drops the object; its waits are aborted.                           *)
Disconnected ==
  /\ mqSock' = "none" /\ broken' = FALSE /\ ioAt' = "null"
  /\ UNCHANGED <<mqObj, packets, sched, rPending, pubAt, countdown, died, mqOverlap>>
OnDisconnect ==
  /\ ioAt = "null" /\ ioAt' = "idle"
  /\ mqObj' = FALSE /\ rPending' = FALSE
  /\ wPending' = FALSE /\ wAborted' = (wAborted \/ wPending)
  /\ mqOverlap' = (mqOverlap \/ pubAt # "idle")
  /\ UNCHANGED <<mqSock, broken, packets, mqFlag, pubAt, countdown, died>>

DoWrite ==
  /\ ioAt = "write"
  /\ IF broken \/ mqSock = "none" THEN Disconnected
     ELSE /\ mqSock' = "open" /\ packets' = 0 /\ ioAt' = "want"
          /\ UNCHANGED <<broken, mqObj, sched, rPending, pubAt, countdown, died, mqOverlap>>
DoRead ==
  /\ ioAt = "read"
  /\ IF broken THEN Disconnected
     ELSE /\ ioAt' = "want"
          /\ rPending' = mqObj /\ died' = (died \/ ~mqObj)
          /\ UNCHANGED <<mqSock, broken, mqObj, packets, sched, pubAt, countdown, mqOverlap>>

-----------------------------------------------------------------------------
(* do_misc, each second: without a connection the countdown and an attempt, *)
(* with one the writes.  A connection that was begun may still fail.        *)
MutAfterMisc == "idle"
AfterMisc == "want"
MutCreated == UNCHANGED <<mqObj, rPending>>
Created == mqObj' = TRUE /\ rPending' = TRUE
Attempt(begun) ==
  /\ ioAt = "idle" /\ mqSock = "none" /\ countdown = 0
  /\ countdown' = Countdown
  /\ IF begun THEN /\ mqSock' = "opening" /\ packets' = 1 /\ Created /\ ioAt' = "want"
              ELSE UNCHANGED <<mqSock, packets, mqObj, rPending, ioAt>>
  /\ UNCHANGED <<broken, sched, pubAt, died, mqOverlap>>
Misc ==
  /\ ioAt = "idle"
  /\ IF mqSock = "none"
       THEN countdown > 0 /\ countdown' = countdown - 1 /\ UNCHANGED ioAt
       ELSE ~broken /\ ioAt' = AfterMisc /\ UNCHANGED countdown
  /\ UNCHANGED <<mqSock, broken, mqObj, packets, sched, rPending, pubAt, died, mqOverlap>>
KeepaliveOver == ioAt = "idle" /\ mqSock # "none" /\ broken /\ Disconnected

Break == /\ mqSock # "none" /\ ~broken /\ broken' = TRUE
         /\ UNCHANGED <<mqSock, mqObj, packets, sched, rPending, ioAt, pubAt, countdown, died, mqOverlap>>

MqIo == \/ IoPublish \/ WriteReady \/ WriteAborted \/ ReadReady \/ OnDisconnect \/ DoWrite \/ DoRead
        \/ ioAt' \in SchedAt /\ Sched(ioAt, ioAt') /\ UNCHANGED <<packets, pubAt>> /\ UnchangedLink
MqFault == Break \/ Attempt(FALSE)
MqttClientNext ==
  ~died /\ (Publisher \/ MqIo \/ Attempt(TRUE) \/ Misc \/ KeepaliveOver \/ MqFault)
MqttClientSpec == MqttClientInit /\ [][MqttClientNext]_mqVars

(* Threads go on; the io context serves the handlers that are ready in the  *)
(* order they became so, the tick among them.                               *)
IoGoesOn == \/ OnDisconnect \/ DoWrite \/ DoRead
            \/ ioAt' \in SchedAt /\ Sched(ioAt, ioAt') /\ UNCHANGED <<packets, pubAt>> /\ UnchangedLink
PublishGoesOn == pubAt # "idle" /\ Publisher
WriteHandled == WriteReady \/ WriteAborted
BreakRead == broken /\ ReadReady
Tick == Attempt(TRUE) \/ Attempt(FALSE) \/ Misc
-----------------------------------------------------------------------------
(* The client only gives up the program when a thread's publish is under    *)
(* way while the connection is dropped, never by its own handlers.          *)
DiesByOverlap == died => mqOverlap

(* No publish is left behind: with both threads at rest, packets wait with  *)
(* a wait to write, or with an aborted one whose handler is still to run.   *)
NoneLeft ==
  /\ ioAt = "idle" /\ pubAt = "idle" /\ mqSock = "open" /\ packets > 0
  => wPending \/ wAborted

(* What it comes to when the connection no longer breaks and attempts       *)
(* succeed: it is connected, or has given up before.                        *)
Connected == died \/ mqSock = "open"

(* Publishes are neither stranded nor fatal across reconnects, unless two   *)
(* threads meet in one (sched_write_mqtt_socket, on_disconnect).            *)
ClientRight == DiesByOverlap /\ NoneLeft
=============================================================================
