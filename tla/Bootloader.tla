----------------------------- MODULE Bootloader -----------------------------
(***************************************************************************)
(* The bootloader of a node (avr/bootloader/bootloader.cpp) and the tool   *)
(* that uploads firmware (run.py --fw_upload).  Everything a downloading   *)
(* node receives is data, also a broadcast or the commands of the tool's   *)
(* next run; everything else is a command, also data.  The node handles a  *)
(* frame before the next one is on the bus.                                *)
(***************************************************************************)
EXTENDS Integers, Sequences

CONSTANTS
  Pages, Chunks, \* of the firmware; frames in a page
  MaxFaults,     \* bound of the run
  Junk, NoFrame  \* anything but a chunk of the firmware; nothing received

VARIABLES
  ndSt,           \* the node: "boot", "app", "asleep"
  downloading, pageIn, page, \* .., page_in8b, page
  hearing,        \* timeout_disabled
  mob13, mob14,   \* frames received, its own and broadcast
  flash,
  toolAt, pageNr, chunkNr, \* the tool
  replies,        \* frames in the tool's socket
  excused,        \* history, this upload: its page was lost between its answer and its
                  \* flashing, or the frame of another was taken for the node's answer
  faults          \* how many

bootVars == <<ndSt, downloading, pageIn, page, hearing, mob13, mob14, flash,
              toolAt, pageNr, chunkNr, replies, excused, faults>>
nodeVars == <<ndSt, downloading, pageIn, page, hearing, mob13, mob14, flash>>
toolVars == <<toolAt, pageNr, chunkNr>>

Data == (1..Pages) \X (1..Chunks)
Page(p) == [i \in 1..Chunks |-> <<p, i>>]
Frame(name, arg) == [name |-> name, arg |-> arg]
Commands == {Frame(c, 0) : c \in {"h", "c", "s", "d", "other"}} \cup {Frame("f", p) : p \in 1..Pages}
Frames == Commands \cup {Frame("data", d) : d \in Data}

ASSUME BootloaderAssumption ==
  /\ Pages \in Nat \ {0} /\ Chunks \in Nat \ {0} /\ MaxFaults \in Nat
  /\ Junk \notin Data /\ NoFrame \notin Frames

(* A frame at the tool: its first byte and length as far as the tool looks  *)
(* at them; the second byte of one of two bytes, {} in any other; and who   *)
(* sent it, which the tool does not look at.                                *)
Names == {"h", "c", "s", "d", "f", "X", "foreign"}
Answer == [name : Names, arg : SUBSET (Data \cup {Junk}), own : BOOLEAN]
Said(name, arg, own) == [name |-> name, arg |-> arg, own |-> own]

(* xorsum, taken as telling pages with different chunks apart, whatever     *)
(* their order.                                                             *)
Sum(p) == {p[i] : i \in 1..Chunks}

(* What other nodes, and the node's application, send while the tool works: *)
(* whatever it may take for an answer, and anything else.                   *)
Stray == {Said(n, {}, FALSE) : n \in {"s", "f", "foreign"}}
           \cup {Said("foreign", Sum(Page(p)), FALSE) : p \in 1..Pages}

BootloaderTypeOK ==
  /\ ndSt \in {"boot", "app", "asleep"} /\ downloading \in BOOLEAN /\ hearing \in BOOLEAN
  /\ excused \in BOOLEAN /\ faults \in 0..MaxFaults
  /\ pageIn \in 0..Chunks /\ page \in [1..Chunks -> Data \cup {Junk}]
  /\ mob13 \in Frames \cup {NoFrame} /\ mob14 \in Commands \cup {NoFrame}
  /\ flash \in [1..Pages -> [1..Chunks -> Data \cup {Junk}]]
  /\ toolAt \in {"off", "s", "sent_s", "d", "data", "sent_data", "f", "sent_f", "done"}
  /\ pageNr \in 1..Pages /\ chunkNr \in 1..Chunks
  /\ replies \in Seq(Answer)

BootloaderInit ==
  /\ ndSt = "boot" /\ downloading = FALSE /\ pageIn = 0 /\ page = [i \in 1..Chunks |-> Junk]
  /\ hearing = FALSE /\ mob13 = NoFrame /\ mob14 = NoFrame
  /\ flash = [p \in 1..Pages |-> [i \in 1..Chunks |-> Junk]]
  /\ toolAt = "off" /\ pageNr = 1 /\ chunkNr = 1 /\ replies = <<>>
  /\ excused = FALSE /\ faults = 0

-----------------------------------------------------------------------------
Arrive(frame) == replies' = IF toolAt \in {"off", "done"} THEN <<>> ELSE Append(replies, frame)
Reply(name, arg) == Arrive(Said(name, arg, TRUE))
Silent == UNCHANGED replies

(* A frame as the next eight bytes of the page; the last is answered.       *)
MutPageDone(sum) == Silent
PageDone(sum) == Reply("d", sum)
Download(frame) ==
  /\ page' = [page EXCEPT ![pageIn + 1] = IF frame.name = "data" THEN frame.arg ELSE Junk]
  /\ pageIn' = pageIn + 1
  /\ IF pageIn + 1 = Chunks THEN downloading' = FALSE /\ PageDone(Sum(page'))
                         ELSE UNCHANGED downloading /\ Silent
  /\ UNCHANGED <<ndSt, flash>>

Obey(cmd, broadcast) ==
  /\ downloading' = (cmd.name = "d")
  /\ IF cmd.name = "d" THEN pageIn' = 0 ELSE UNCHANGED pageIn
  /\ ndSt' = IF cmd.name = "h" THEN "asleep" ELSE IF cmd.name = "c" THEN "app" ELSE "boot"
  /\ flash' = IF cmd.name = "f" THEN [flash EXCEPT ![cmd.arg] = page] ELSE flash
  /\ IF cmd.name \in {"h", "d"} \/ (cmd.name = "other" /\ broadcast) THEN Silent
     ELSE Reply(IF cmd.name = "other" THEN "X" ELSE cmd.name, {})
  /\ UNCHANGED page

(* The loop's turn with a frame; data out of place may be any command.      *)
Serve(frame, broadcast) ==
  IF ndSt # "boot" THEN Silent /\ UNCHANGED <<ndSt, downloading, pageIn, page, hearing, flash>>
  ELSE /\ hearing' = TRUE
       /\ IF downloading THEN Download(frame)
          ELSE \E cmd \in Commands : (frame.name # "data" => cmd = frame) /\ Obey(cmd, broadcast)
Receive ==
  /\ \/ /\ mob13 # NoFrame /\ mob13' = NoFrame /\ Serve(mob13, FALSE) /\ UNCHANGED mob14
     \/ /\ mob13 = NoFrame /\ mob14 # NoFrame /\ mob14' = NoFrame
        /\ Serve(mob14, TRUE) /\ UNCHANGED mob13
  /\ UNCHANGED <<toolVars, excused>>

(* Only a node that has heard nothing starts the application by itself.     *)
BootTimeout ==
  /\ ndSt = "boot" /\ ~hearing /\ mob13 = NoFrame /\ mob14 = NoFrame /\ ndSt' = "app"
  /\ UNCHANGED <<downloading, pageIn, page, hearing, mob13, mob14, flash, toolVars, replies, excused>>

(* A reset keeps the page, which is not initialised, but for what was lost  *)
(* of it with the power, or to the application, which runs on the same RAM. *)
NodeReset(lost) ==
  /\ ndSt' = "boot" /\ downloading' = FALSE /\ hearing' = FALSE
  /\ mob13' = NoFrame /\ mob14' = NoFrame
  /\ page' = [i \in 1..Chunks |-> IF i \in lost THEN Junk ELSE page[i]]
  /\ excused' = (excused \/ (lost # {} /\ toolAt \in {"sent_data", "f", "sent_f"}))
  /\ UNCHANGED <<pageIn, flash, toolVars, replies>>

-----------------------------------------------------------------------------
(* The tool.  sendBlocking waits for its echo and throws away what came     *)
(* before it.                                                               *)
Send(frame) == /\ mob13 = NoFrame /\ mob13' = frame /\ replies' = <<>>
               /\ UNCHANGED <<ndSt, downloading, pageIn, page, hearing, mob14, flash, excused>>
Goto(at, p, c) == toolAt' = at /\ pageNr' = p /\ chunkNr' = c

Upload == /\ toolAt = "off" /\ Goto("s", 1, 1) /\ replies' = <<>>
          /\ excused' = FALSE /\ UNCHANGED nodeVars
ToolSend ==
  \/ toolAt = "s" /\ Send(Frame("s", 0)) /\ Goto("sent_s", 1, 1)
  \/ toolAt = "d" /\ Send(Frame("d", 0)) /\ Goto("data", pageNr, 1)
  \/ /\ toolAt = "data" /\ Send(Frame("data", <<pageNr, chunkNr>>))
     /\ IF chunkNr < Chunks THEN Goto("data", pageNr, chunkNr + 1) ELSE Goto("sent_data", pageNr, 1)
  \/ toolAt = "f" /\ Send(Frame("f", pageNr)) /\ Goto("sent_f", pageNr, 1)

(* The first frame that comes has to be the answer, whoever sent it: two    *)
(* bytes with the sum, or the one byte f.                                   *)
MutAccepted(r) == r.arg # {}
Accepted(r) == r.arg = Sum(Page(pageNr))
Confirmed(r) == r.name = "f" /\ r.arg = {}
Expecting == toolAt \in {"sent_s", "sent_data", "sent_f"}
ToolReceive ==
  /\ Expecting /\ replies # <<>> /\ replies' = Tail(replies) /\ UNCHANGED nodeVars
  /\ LET r == Head(replies)
     IN /\ CASE toolAt = "sent_s" -> Goto(IF r.name = "s" THEN "d" ELSE "off", 1, 1)
             [] toolAt = "sent_data" -> Goto(IF Accepted(r) THEN "f" ELSE "off", pageNr, 1)
             [] OTHER -> IF ~Confirmed(r) THEN Goto("off", 1, 1)
                         ELSE IF pageNr < Pages THEN Goto("d", pageNr + 1, 1) ELSE Goto("done", 1, 1)
        /\ excused' = (excused \/ (~r.own /\ toolAt # "sent_s" /\ toolAt' # "off"))

(* Its operator gives up, as does the tool when its first frame remains     *)
(* without answer.                                                          *)
Waiting == Expecting /\ replies = <<>> /\ mob13 = NoFrame
GiveUp == /\ toolAt' = "off" /\ replies' = <<>> /\ UNCHANGED <<pageNr, chunkNr, nodeVars, excused>>

(* The daemon's broadcasts, those of --all, and the frames of other nodes.  *)
Broadcast(cmd) ==
  /\ mob14 = NoFrame /\ mob14' = Frame(cmd, 0)
  /\ UNCHANGED <<ndSt, downloading, pageIn, page, hearing, mob13, flash, toolVars, replies, excused>>
Foreign == /\ toolAt \notin {"off", "done"} /\ \E f \in Stray : Arrive(f)
           /\ UNCHANGED <<nodeVars, toolVars, excused>>

BootStep == /\ Receive \/ Upload \/ ToolSend \/ ToolReceive \/ (Waiting /\ GiveUp)
            /\ UNCHANGED faults
BootFault ==
  /\ faults < MaxFaults /\ faults' = faults + 1
  /\ \/ \E lost \in SUBSET (1..Chunks) : NodeReset(lost)
     \/ toolAt # "off" /\ GiveUp
     \/ \E c \in {"other", "c"} : Broadcast(c)
     \/ Foreign
BootloaderNext == BootStep \/ (BootTimeout /\ UNCHANGED faults) \/ BootFault
BootloaderSpec == BootloaderInit /\ [][BootloaderNext]_bootVars
-----------------------------------------------------------------------------
(* When the upload is reported finished, the flash holds the firmware, what *)
(* ever came in between and was taken for data or for a command, and what   *)
(* ever reset the node; but for a page whose RAM was lost to the power or   *)
(* the application after the node had answered with its sum, and for the    *)
(* frame of another that happened to look like that answer or the next.     *)
FlashedAsSent == toolAt = "done" /\ ~excused => flash = [p \in 1..Pages |-> Page(p)]

(* What running the tool often enough comes to, also when a node was left   *)
(* in the middle of a page, as long as it stays a bootloader.               *)
Uploaded == ndSt # "boot" \/ toolAt = "done"
=============================================================================
