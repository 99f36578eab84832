------------------------------ MODULE SerialDisk ------------------------------
(***************************************************************************)
(* The disk at the end of a serial line: the ROM monitor's driver          *)
(* monitor/monitor/common/dskser.s, called the way boot.c does, and the    *)
(* disk server disk/diskserv/diskserv.c, an ordinary program on another    *)
(* machine that can be started late, be slow, be killed and restarted,     *)
(* while the client can be reset when it is idle or the line is quiet.     *)
(*                                                                         *)
(* What one side sends without waiting is one message: a command with its  *)
(* sector number and data, or a result with its data.  The line delivers   *)
(* in order; bytes sent while no server runs are lost, or kept by the      *)
(* terminal driver until one does.                                         *)
(***************************************************************************)
EXTENDS Naturals, Sequences

CONSTANTS
  TOTAL,        \* numSectors of the disk image
  Data,         \* contents of a sector
  Location,     \* sector-sized locations in memory
  Request,      \* arguments of dskio: [cmd, sct, addr, n]
  TRIES,        \* attempts of dskcapser to connect (10)
  LINE_SIZE,    \* messages the line keeps for a server that is not running;
                \* bound on those that an unread SYN joins
  MAX_KILLS     \* bound on the times the server is killed

ASSUME SerialDiskAssumption ==
  /\ TOTAL \in Nat /\ TRIES \in Nat \ {0} /\ LINE_SIZE \in Nat /\ MAX_KILLS \in Nat
  /\ \A r \in Request :
       /\ r.cmd # "none" /\ {r.n, r.addr, r.sct} \subseteq Nat
       /\ \A i \in 0 .. r.n - 1 : r.addr + i \in Location

VARIABLES
  driver,       \* where the driver is
  tries,        \* attempts to connect so far
  capacity,     \* what dskcapser returned
  request,      \* the arguments of the current call of dskioser
  count,        \* sectors done
  result,       \* what dskioser returned: "ok" stands for 0
  mem,          \* the client's memory
  server,       \* where the server is
  file,         \* the image as the operating system has it
  unwritten,    \* sectors still in the stream's buffer (fwrite)
  toServer, toClient,   \* the two directions of the line
  late,         \* history: a SYN was sent while an earlier one was not done with
  kills,        \* history: how often the server was killed
  newest        \* history: sector of the last write the client was told of

driverVars == <<driver, tries, capacity, request, count, result, mem>>
serverVars == <<server, file, unwritten>>
history == <<late, kills, newest>>
sdvars == <<driverVars, serverVars, toServer, toClient, history>>

None == [cmd |-> "none"]
SYN == <<"SYN">>
ACK == <<"ACK">>
Sector == 0 .. TOTAL - 1

\* What a reader of the image gets through the stream.
Image == [s \in Sector |-> IF s \in DOMAIN unwritten THEN unwritten[s] ELSE file[s]]

Running == server \in {"waiting", "syncing", "serving"}

SDTypeOK ==
  /\ driver \in {"start", "await ACK", "await capacity", "no disk", "idle", "illegal", "next",
             "await result"}
  /\ tries \in 0 .. TRIES /\ capacity \in {0, TOTAL}
  /\ request \in Request \cup {None} /\ count \in Nat
  /\ result \in {"none", "ok", "error"} /\ mem \in [Location -> Data]
  /\ server \in {"absent", "waiting", "syncing", "serving", "killed", "gave up"}
  /\ file \in [Sector -> Data]
  /\ DOMAIN unwritten \subseteq Sector /\ \A s \in DOMAIN unwritten : unwritten[s] \in Data
  /\ late \in BOOLEAN /\ kills \in 0 .. MAX_KILLS

SDInit ==
  /\ driver = "start" /\ tries = 0 /\ capacity = 0
  /\ request = None /\ count = 0 /\ result = "none"
  /\ mem \in [Location -> Data]
  /\ server = "absent" /\ file \in [Sector -> Data] /\ unwritten = <<>>
  /\ toServer = <<>> /\ toClient = <<>>
  /\ late = FALSE /\ kills = 0 /\ newest = TOTAL

-------------------------------------------------------------------------------
(* The line *)

Send(ms) ==
  \/ /\ Running \/ Len(toServer) + Len(ms) <= LINE_SIZE
     /\ toServer' = toServer \o ms
  \/ ~Running /\ toServer' = toServer

-------------------------------------------------------------------------------
(* dskcapser *)

Fail == driver' = "no disk" /\ capacity' = 0

SendSyn ==
  /\ Len(toServer) < LINE_SIZE /\ Send(<<SYN>>)
  /\ late' = (late \/ toServer # <<>> \/ server = "syncing")

CallCap ==
  /\ driver \in {"start", "no disk"}
  /\ driver' = "await ACK" /\ tries' = 1
  /\ SendSyn
  /\ UNCHANGED <<capacity, request, count, result, mem, serverVars, toClient, kills, newest>>

\* The polls of one attempt found nothing: however long they took, a server
\* that has the SYN still to read answers it later.
Timeout ==
  /\ driver = "await ACK" /\ toClient = <<>>
  /\ IF tries = TRIES
     THEN Fail /\ tries' = 0 /\ UNCHANGED <<toServer, late>>
     ELSE tries' = tries + 1 /\ SendSyn /\ UNCHANGED <<driver, capacity>>
  /\ UNCHANGED <<request, count, result, mem, serverVars, toClient, kills, newest>>

\* (mutant) The client asks for the capacity without returning the ACK.
NoHandshake == << <<"c">> >>

Greeting == <<ACK, <<"c">> >>

\* Whatever comes is taken for the answer.
AnswerToSyn ==
  /\ driver = "await ACK" /\ toClient # <<>>
  /\ toClient' = Tail(toClient)
  /\ IF Head(toClient) = ACK
     THEN driver' = "await capacity" /\ Send(Greeting) /\ UNCHANGED capacity
     ELSE Fail /\ UNCHANGED toServer
  /\ tries' = 0
  /\ UNCHANGED <<request, count, result, mem, serverVars, history>>

\* boot returns if the capacity is 0.
TakeCapacity ==
  /\ driver = "await capacity" /\ toClient # <<>>
  /\ toClient' = Tail(toClient)
  /\ LET m == Head(toClient) IN
     IF m[1] = "OK" /\ m[2] # 0 THEN driver' = "idle" /\ capacity' = m[2] ELSE Fail
  /\ UNCHANGED <<tries, request, count, result, mem, serverVars, toServer, history>>

-------------------------------------------------------------------------------
(* dskioser *)

CallIo(r) ==
  /\ driver = "idle"
  /\ request' = r /\ count' = 0 /\ result' = "none"
  /\ driver' = IF r.cmd \in {"r", "w"} THEN "next" ELSE "illegal"
  /\ UNCHANGED <<tries, capacity, mem, serverVars, toServer, toClient, history>>

ReturnWith(r) ==
  /\ result' = r
  /\ request' = None /\ count' = 0
  /\ driver' = "idle"
  /\ UNCHANGED <<tries, capacity>>

Illegal ==
  /\ driver = "illegal" /\ ReturnWith("error")
  /\ UNCHANGED <<mem, serverVars, toServer, toClient, history>>

NoMoreSectors ==
  /\ driver = "next" /\ count = request.n
  /\ ReturnWith("ok")
  /\ UNCHANGED <<mem, serverVars, toServer, toClient, history>>

\* (mutant) The sector number is not incremented.
FirstSector == request.sct

CurrentSector == request.sct + count

Command ==
  IF request.cmd = "r" THEN <<"r", CurrentSector>>
  ELSE <<"w", CurrentSector, mem[request.addr + count]>>

SendRequest ==
  /\ driver = "next" /\ count # request.n
  /\ Send(<<Command>>)
  /\ driver' = "await result"
  /\ UNCHANGED <<tries, capacity, request, count, result, mem, serverVars, toClient, history>>

IsOK(m) == m[1] = "OK"

TakeResult ==
  LET m == Head(toClient)
      a == request.addr + count IN
  /\ driver = "await result" /\ toClient # <<>>
  /\ toClient' = Tail(toClient)
  /\ IF IsOK(m)
     THEN /\ driver' = "next" /\ count' = count + 1
          /\ IF request.cmd = "r"
             THEN mem' = [mem EXCEPT ![a] = m[2]] /\ UNCHANGED newest
             ELSE newest' = CurrentSector /\ UNCHANGED mem
          /\ UNCHANGED <<tries, capacity, request, result>>
     ELSE ReturnWith("error") /\ UNCHANGED <<mem, newest>>
  /\ UNCHANGED <<serverVars, toServer, late, kills>>

\* The client is reset while it waits for a command, or while nothing is on its
\* way any more.  (A reset in the middle of a transfer leaves the server waiting for
\* the rest of it: the protocol has no way back from there.)
ResetClient ==
  /\ driver # "start"
  /\ \/ driver \in {"idle", "no disk"}
     \/ toClient = <<>> /\ (~Running \/ (toServer = <<>> /\ server # "serving"))
  /\ driver' = "start" /\ tries' = 0 /\ capacity' = 0
  /\ request' = None /\ count' = 0
  /\ toClient' \in {toClient, <<>>}
  /\ UNCHANGED <<result, mem, serverVars, toServer, history>>

-------------------------------------------------------------------------------
(* diskserv *)

StartServer ==
  /\ server = "absent"
  /\ server' = "waiting"
  /\ UNCHANGED <<driverVars, file, unwritten, toServer, toClient, history>>

\* After a server was killed or gave up, another is started when nothing of the
\* old conversation is left on the line.
RestartServer ==
  /\ server \in {"killed", "gave up"} /\ toClient = <<>>
  /\ server' = "waiting" /\ toServer' = <<>>
  /\ UNCHANGED <<driverVars, file, unwritten, toClient, history>>

Reply(m) == toClient' = Append(toClient, m)

\* (mutant) Positioning the stream leaves its buffer alone.
AfterMove == [file |-> file, unwritten |-> unwritten]

\* fseek and fclose write what is in the stream's buffer.
AfterSeek == [file |-> Image, unwritten |-> <<>>]

Flush == file' = AfterSeek.file /\ unwritten' = AfterSeek.unwritten

NextMessage == toServer # <<>> /\ toServer' = Tail(toServer)

\* Before the first SYN, everything else is ignored.
Wait ==
  /\ server = "waiting" /\ NextMessage
  /\ IF Head(toServer) = SYN
     THEN Reply(ACK) /\ server' = "syncing"
     ELSE UNCHANGED <<toClient, server>>
  /\ UNCHANGED <<driverVars, file, unwritten, history>>

\* connect: whatever is not an ACK ends the server, which closes the image.
Connect ==
  /\ server = "syncing" /\ NextMessage
  /\ IF Head(toServer) = ACK
     THEN server' = "serving" /\ UNCHANGED <<file, unwritten>>
     ELSE server' = "gave up" /\ Flush
  /\ UNCHANGED <<driverVars, toClient, history>>

OnDisk(s) == s < TOTAL

Resync ==
  /\ server = "serving" /\ NextMessage /\ Head(toServer) = SYN
  /\ Reply(ACK) /\ server' = "syncing"
  /\ UNCHANGED <<driverVars, file, unwritten, history>>

\* The capacity, or the refusal of an unknown command.
Query ==
  /\ server = "serving" /\ NextMessage /\ Head(toServer)[1] \notin {"SYN", "r", "w"}
  /\ Reply(IF Head(toServer) = <<"c">> THEN <<"OK", TOTAL>> ELSE <<"UNCMD">>)
  /\ UNCHANGED <<driverVars, serverVars, history>>

Read ==
  LET s == Head(toServer)[2] IN
  /\ server = "serving" /\ NextMessage /\ Head(toServer)[1] = "r"
  /\ IF OnDisk(s)
     THEN Flush /\ Reply(<<"OK", Image[s]>>)
     ELSE Reply(<<"TOOBIG">>) /\ UNCHANGED <<file, unwritten>>
  /\ UNCHANGED <<driverVars, server, history>>

\* What is in the buffer after fseek and fwrite.
Buffered(s, d) ==
  [x \in {s} \cup DOMAIN AfterSeek.unwritten |-> IF x = s THEN d ELSE AfterSeek.unwritten[x]]

\* The sector is acknowledged once it is in the buffer.
Write ==
  LET s == Head(toServer)[2]
      d == Head(toServer)[3] IN
  /\ server = "serving" /\ NextMessage /\ Head(toServer)[1] = "w"
  /\ IF OnDisk(s)
     THEN /\ file' = AfterSeek.file /\ unwritten' = Buffered(s, d)
          /\ Reply(<<"OK">>)
     ELSE Reply(<<"TOOBIG">>) /\ UNCHANGED <<file, unwritten>>
  /\ UNCHANGED <<driverVars, server, history>>

\* A signal ends the server without closing the image; there is no other way to
\* stop it.
KillServer ==
  /\ Running /\ kills < MAX_KILLS
  /\ server' = "killed" /\ unwritten' = <<>> /\ kills' = kills + 1
  /\ toServer' \in {toServer, <<>>}
  /\ UNCHANGED <<driverVars, file, toClient, late, newest>>

-------------------------------------------------------------------------------
Client ==
  \/ Timeout \/ AnswerToSyn \/ TakeCapacity
  \/ Illegal \/ NoMoreSectors \/ SendRequest \/ TakeResult

Server == Wait \/ Connect \/ Resync \/ Query \/ Read \/ Write

SDNext ==
  \/ CallCap \/ (\E r \in Request : CallIo(r)) \/ Client \/ ResetClient
  \/ StartServer \/ RestartServer \/ Server \/ KillServer

\* Both programs are executed; nobody has to boot, to start or stop the server.
SDSpec == SDInit /\ [][SDNext]_sdvars /\ WF_sdvars(Client) /\ WF_sdvars(Server)

-------------------------------------------------------------------------------
\* A sector is written when the server has done it, not only when the client
\* knows.
WriteReported ==
  /\ driver = "await result" /\ request.cmd = "w"
  /\ toClient # <<>> /\ IsOK(Head(toClient))

Transferred == count + (IF WriteReported THEN 1 ELSE 0)

Block == INSTANCE BlockDevice WITH
  Sectors <- Sector, Requests <- Request, Locations <- Location,
  image <- Image, count <- Transferred

\* Refinement: as long as the server is not killed, driver and server together
\* copy exactly the sectors asked for and report success and failure
\* truthfully, however late answers come, although neither side numbers its
\* messages and the driver takes whatever comes for the answer
\* (dskser.s:125-199, diskserv.c:206-314), if the client is reset only as
\* ResetClient says.
ImplementsBlockDevice ==
  Block!Init /\ [][kills' > 0 \/ Block!Next]_<<Block!vars, kills>>

\* Safety: the server gives up only if a SYN was repeated too early; a client
\* that was reset as in ResetClient finds its way back into the protocol
\* (diskserv.c:119, 219).
GivesUpOnlyIfLate == server = "gave up" => late

\* Safety: should the server be killed now, no write is lost that the client
\* was told of, but the last: fwrite leaves it in the stream, from where only
\* the next command's fseek takes it to the file (diskserv.c:294-302).
KillLosesOneSector ==
  kills = 0 =>
    \A s \in Sector :
      file[s] = Image[s] \/ s = newest \/ (request.cmd = "w" /\ s = CurrentSector)

\* Liveness: dskcap returns, and so does dskio, unless the server was killed, or
\* the handshake was disturbed by a late answer.
DriverReturns ==
  /\ driver = "await ACK" ~> (driver \in {"start", "idle", "no disk"} \/ late \/ kills > 0)
  /\ driver = "next" ~> (driver \in {"start", "idle"} \/ late \/ kills > 0)
=============================================================================
