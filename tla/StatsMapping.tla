---------------------------- MODULE StatsMapping ----------------------------
(***************************************************************************)
(* What StatsService.MapStats makes of the engine's counters: the CPU      *)
(* share of the time since the sample before, the memory share, and the    *)
(* traffic of disks and interfaces.  The engine's half is the life of one  *)
(* container: time passes, it works, it moves bytes, stops, and starts     *)
(* with its counters at zero, while samples are taken at any moment, twice *)
(* in the same tick among them.  A sample of a container that is not       *)
(* running is all zeros.  How an engine reports is its `style`, chosen in  *)
(* the initial state.                                                      *)
(*                                                                         *)
(* Percentages are in hundredths, as Math.Round(..., 2) leaves them; what  *)
(* doubles lose before the rounding is left out, as is the time stamp.     *)
(***************************************************************************)
EXTENDS Integers, FiniteSets, Functions

CONSTANTS
    Cpus,          \* of the engine's host
    Disks,
    Interfaces,
    Half,          \* of the values of an engine's word; 2^63 in the code
    MemoryLimit,   \* of the container, if it has one
    MaxTicks,      \* bound: the time that passes
    MaxMoved,      \* bound: what is moved between two starts
    MaxStarts      \* bound: how often the container is started again

ASSUME MappingAssumption ==
    /\ Cpus \in Nat \ {0}
    /\ IsFiniteSet(Disks) /\ IsFiniteSet(Interfaces)
    /\ Half \in Nat \ {0}
    /\ MemoryLimit \in 1..(Half - 1)
    /\ {MaxTicks, MaxMoved, MaxStarts} \subseteq Nat
    /\ Cpus * (MaxTicks + 1) < 2 * Half
    /\ MaxMoved < Half

VARIABLES
    style,     \* how the engine reports
    running,
    starts,    \* how often the container was started again
    system,    \* the host's time, summed over its CPUs
    usage,     \* the container's, since it was started
    disk,      \* bytes read from and written to each disk
    net,       \* bytes received and sent by each interface
    preCpu,    \* the CPU part of the sample before
    figures,   \* the StatsDto that the last step made, if it was a sample
    since      \* history: what happened since the last sample

figuresVars == <<style, running, starts, system, usage, disk, net, preCpu,
                 figures, since>>

Zero(devices, ways)  == [x \in devices \X ways |-> 0]
Total(counters, way) ==
    SumFunctionOnSet(counters, {x \in DOMAIN counters : x[2] = way})
Moved == SumFunction(disk) + SumFunction(net)

DiskWays == {"read", "write"}
NetWays  == {"rx", "tx"}

-----------------------------------------------------------------------------
\* What an engine may leave out or spell its own way: the number of CPUs (as a
\* number, as the length of PercpuUsage, or not at all), the CPU part, the
\* names of the disk entries (those of the first control groups come with
\* sums) and the limit, which is all ones without one.
Styles == [cpus  : {"online", "percpu", "none", "missing"},
           disks : {"v1", "v2", "missing"},
           limit : {MemoryLimit, 2 * Half - 1}]

\* percpu is the Count of PercpuUsage, -1 if that is null.
NoCpu == [known |-> TRUE, usage |-> 0, system |-> 0, online |-> 0, percpu |-> -1]

CpuPart ==
    IF style.cpus = "missing" THEN [NoCpu EXCEPT !.known = FALSE]
    ELSE IF ~running THEN NoCpu
    ELSE [known  |-> TRUE, usage |-> usage, system |-> system,
          online |-> IF style.cpus = "online" THEN Cpus ELSE 0,
          percpu |-> CASE style.cpus = "percpu" -> Cpus
                       [] style.cpus = "none"   -> 0
                       [] OTHER                 -> -1]

EntriesOf(d) ==
    LET r == disk[<<d, "read">>]
        w == disk[<<d, "write">>]
    IN IF style.disks = "v1"
       THEN {<<d, "Read", r>>, <<d, "Write", w>>, <<d, "Sync", r + w>>,
             <<d, "Total", r + w>>}
       ELSE {<<d, "read", r>>, <<d, "write", w>>}

DiskEntries == IF running /\ style.disks # "missing"
               THEN UNION {EntriesOf(d) : d \in Disks} ELSE {}

Response(memory) == [cpu     |-> CpuPart,
                     pre     |-> preCpu,
                     usage   |-> IF running THEN memory ELSE 0,
                     limit   |-> IF running THEN style.limit ELSE 0,
                     entries |-> DiskEntries,
                     nets    |-> IF running THEN net ELSE <<>>]

-----------------------------------------------------------------------------
\* MapStats

\* (long) of an unsigned word.
Long(word) == IF word < Half THEN word ELSE word - 2 * Half

\* 100 per cent, in hundredths.
Whole == 10000

\* Math.Round(100 * n / d, 2), in hundredths: the nearest, a tie to the even.
Hundredths(n, d) ==
    LET up  == (2 * Whole * n + d) \div (2 * d)
        tie == (2 * Whole * n + d) % (2 * d) = 0
    IN IF tie /\ up % 2 = 1 THEN up - 1 ELSE up

\* Mutant of Delta: the words are subtracted before they become doubles.
DeltaOfWords(a, b) == (a - b) % (2 * Half)

Delta(a, b) == a - b

OnlineCpus(cpu) ==
    LET counted == IF cpu.percpu = -1 THEN 1 ELSE cpu.percpu
        online  == IF cpu.online = 0 THEN counted ELSE cpu.online
    IN IF online = 0 THEN 1 ELSE online

ComputeCpuPercent(response) ==
    LET cpuDelta    == Delta(response.cpu.usage, response.pre.usage)
        systemDelta == Delta(response.cpu.system, response.pre.system)
    IN IF \/ ~response.cpu.known
          \/ ~response.pre.known
          \/ cpuDelta <= 0
          \/ systemDelta <= 0
       THEN 0
       ELSE Hundredths(cpuDelta * OnlineCpus(response.cpu), systemDelta)

MemoryPercent(response) ==
    IF Long(response.limit) > 0
    THEN Hundredths(Long(response.usage), Long(response.limit)) ELSE 0

\* Mutant of ToLower: names are compared as they come.
ToLowerNot(op) == op

ToLower(op) ==
    CASE op = "Read" -> "read" [] op = "Write" -> "write" [] op = "Sync" -> "sync"
      [] op = "Total" -> "total" [] OTHER -> op

ComputeBlockIo(response, way) ==
    SumFunction([e \in {x \in response.entries : ToLower(x[2]) = way} |-> Long(e[3])])

MapStats(response) ==
    [cpu        |-> ComputeCpuPercent(response),
     memory     |-> MemoryPercent(response),
     rx         |-> Total(response.nets, "rx"),
     tx         |-> Total(response.nets, "tx"),
     blockRead  |-> ComputeBlockIo(response, "read"),
     blockWrite |-> ComputeBlockIo(response, "write")]

-----------------------------------------------------------------------------
\* The engine.  `pure`: the container ran at the last sample and ever since.
\* At first it has just been started, on a host that was up before.

Idle == [busy |-> 0, ticks |-> 0, pure |-> TRUE]

FiguresInit ==
    /\ style \in Styles
    /\ running = TRUE
    /\ starts = 0
    /\ system = Cpus
    /\ usage = 0
    /\ disk = Zero(Disks, DiskWays)
    /\ net = Zero(Interfaces, NetWays)
    /\ preCpu = [NoCpu EXCEPT !.known = style.cpus # "missing"]
    /\ figures = {}
    /\ since = [Idle EXCEPT !.pure = FALSE]

\* A tick: each CPU works for the container or for others.
Tick(busy) ==
    /\ system < Cpus * (MaxTicks + 1)
    /\ busy = 0 \/ running
    /\ system' = system + Cpus
    /\ usage' = usage + busy
    /\ since' = [since EXCEPT !.ticks = @ + 1, !.busy = @ + busy]
    /\ figures' = {}
    /\ UNCHANGED <<style, running, starts, disk, net, preCpu>>

MoveDisk(x) ==
    /\ running
    /\ Moved < MaxMoved
    /\ disk' = [disk EXCEPT ![x] = @ + 1]
    /\ figures' = {}
    /\ UNCHANGED <<style, running, starts, system, usage, net, preCpu, since>>

MoveNet(x) ==
    /\ running
    /\ Moved < MaxMoved
    /\ net' = [net EXCEPT ![x] = @ + 1]
    /\ figures' = {}
    /\ UNCHANGED <<style, running, starts, system, usage, disk, preCpu, since>>

\* The container stops, and its counters are gone.
Stop ==
    /\ running
    /\ running' = FALSE
    /\ usage' = 0
    /\ disk' = Zero(Disks, DiskWays)
    /\ net' = Zero(Interfaces, NetWays)
    /\ since' = [since EXCEPT !.pure = FALSE]
    /\ figures' = {}
    /\ UNCHANGED <<style, starts, system, preCpu>>

Start ==
    /\ ~running
    /\ starts < MaxStarts
    /\ running' = TRUE
    /\ starts' = starts + 1
    /\ figures' = {}
    /\ UNCHANGED <<style, system, usage, disk, net, preCpu, since>>

\* The engine answers a sample, with the CPU part of the one before, and
\* MapStats makes the StatsDto.
Sample(memory) ==
    /\ figures' = {MapStats(Response(memory))}
    /\ preCpu' = CpuPart
    /\ since' = [Idle EXCEPT !.pure = running]
    /\ UNCHANGED <<style, running, starts, system, usage, disk, net>>

FiguresNext ==
    \/ \E busy \in 0..Cpus : Tick(busy)
    \/ \E x \in DOMAIN disk : MoveDisk(x)
    \/ \E x \in DOMAIN net : MoveNet(x)
    \/ Stop
    \/ Start
    \/ \E memory \in 0..MemoryLimit : Sample(memory)

FiguresSpec == FiguresInit /\ [][FiguresNext]_figuresVars

-----------------------------------------------------------------------------
\* The percentages are true.  They stay in their range - a CPU share between
\* nothing and all CPUs, a memory share between nothing and all of it - although
\* a restart takes the counters back below those of the sample before, two
\* samples may fall in one tick, a stopped container reports zeros, and the limit
\* may be all ones.  And for a container that ran since the sample before, the CPU
\* share is what it used of the time that passed, whichever way the engine counts
\* its CPUs: 100 per cent are one CPU.
SharesAreTrue ==
    [][\A dto \in figures' :
           /\ dto.cpu \in 0..(Whole * Cpus)
           /\ dto.memory \in 0..Whole
           /\ since.pure /\ since.ticks > 0 /\ style.cpus \in {"online", "percpu"} =>
                  dto.cpu = Hundredths(since.busy, since.ticks)]_figuresVars

\* Disk traffic is what was read and written, and not the sums that some
\* engines list beside it, however they spell the names; network traffic is
\* that of all interfaces.
TrafficIsTheEngines ==
    [][\A dto \in figures' :
           /\ dto.rx = Total(net, "rx")
           /\ dto.tx = Total(net, "tx")
           /\ style.disks # "missing" =>
                  /\ dto.blockRead = Total(disk, "read")
                  /\ dto.blockWrite = Total(disk, "write")]_figuresVars
=============================================================================
