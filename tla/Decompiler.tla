----------------------------- MODULE Decompiler -----------------------------
(***************************************************************************)
(* The static analysis of a program (decompile.rs): which instructions are *)
(* reached from the vectors, as functions, and the basic blocks of each.   *)
(* An address is a pair of an 8 KiB bank and a CPU address; the analysis   *)
(* sees the windows w as they were captured, and follows no bank switch.   *)
(***************************************************************************)
EXTENDS Cpu, FiniteSets

CONSTANTS
  RomBanks,  \* banks of the ROM
  MaxFunction  \* max_instructions_per_function

VARIABLES
  captured,  \* the windows
  pending,   \* addresses to open as functions
  work,      \* the function under analysis
  chart      \* the functions done, by address
analysisVars == <<captured, pending, work, chart>>

None == <<-1, -1>>
Slot(pc) == (pc - \H8000) \div \H2000
MapCpu(w, pc) == IF pc < \H8000 THEN None ELSE <<w[Slot(pc) + 1], pc>>

\* resolve_target, read_byte: the source's own bank holds in its slot.
Resolve(w, at, pc) ==
  IF pc < \H8000 THEN None
  ELSE IF Slot(at[2]) = Slot(pc) THEN <<at[1], pc>> ELSE MapCpu(w, pc)
Available(at) == at # None /\ at[1] < RomBanks
ByteAt(at) == Rom(at[1], at[2] % \H2000)

----------------------------------------------------------------------------
(* Instructions *)

\* flow_from_opcode
Flow(code) ==
  CASE Starred(code) -> "unknown"
    [] code = 32 -> "call"
    [] code \in {76, 108} -> "jump"
    [] IsBranch(code) -> "branch"
    [] code \in {64, 96} -> "return"
    [] code = 0 -> "stop"
    [] OTHER -> "fallthrough"

Cell(w, at, n) == Resolve(w, at, at[2] + n)
Decodable(w, at) ==
  /\ Available(at)
  /\ LET len == InstructionLength(ByteAt(at)) IN
       at[2] + len <= 65536 /\ \A n \in 1..(len - 1) : Available(Cell(w, at, n))

\* decode_instruction, next_address, is_mapper_write
Instruction(w, at) ==
  LET code == ByteAt(at)
      len == InstructionLength(code)
      flow == Flow(code)
      arg(n) == ByteAt(Cell(w, at, n))
      cpu == CASE flow \in {"call", "jump"} /\ code # 108 -> arg(1) + (256 * arg(2))
               [] flow = "branch" -> Word(at[2] + 2 + Signed(arg(1)))
               [] OTHER -> -1
  IN [flow |-> flow, cpu |-> cpu,
      target |-> IF cpu = -1 THEN None ELSE Resolve(w, at, cpu),
      next |-> IF at[2] + len > 65535 THEN None ELSE Cell(w, at, len),
      mapper |-> /\ Decode[code].op \in {"sta", "stx", "sty"}
                 /\ len = 3 /\ arg(1) + (256 * arg(2)) >= \H8000]

Warnings(code, i) ==
  {w \in {"brk", "mapper write", "call outside", "jump outside", "indirect", "unknown"} :
     CASE w = "brk" -> code = 0
       [] w = "mapper write" -> i.mapper
       [] w = "call outside" -> i.flow = "call" /\ i.target = None
       [] w = "jump outside" -> i.flow = "jump" /\ i.cpu # -1 /\ i.target = None
       [] w = "indirect" -> i.flow = "jump" /\ i.cpu = -1
       [] w = "unknown" -> i.flow = "unknown"}

\* Where the function goes on; a call is a function of its own.
Continues(i) ==
  LET links == CASE i.flow \in {"call", "fallthrough"} -> <<i.next>>
                 [] i.flow = "jump" -> <<i.target>>
                 [] i.flow = "branch" -> <<i.target, i.next>>
                 [] OTHER -> <<>>
  IN SelectSeq(links, LAMBDA at : at # None)

----------------------------------------------------------------------------
(* Functions *)

\* analyze_function: a queue of addresses, up to the limit.
Limit == IF MaxFunction = 0 THEN 1 ELSE MaxFunction
Opened(at) == [start |-> at, queue |-> <<at>>, code |-> <<>>, calls |-> {}, warnings |-> {}]
Popped(w, f) ==
  LET at == Head(f.queue)
      i == Instruction(w, at)
      rest == [f EXCEPT !.queue = Tail(@)]
  IN CASE at \in DOMAIN f.code -> rest
       [] at \notin DOMAIN f.code /\ Cardinality(DOMAIN f.code) >= Limit ->
            [f EXCEPT !.queue = <<>>, !.warnings = @ \union {"limit"}]
       [] OTHER ->
            IF ~Decodable(w, at) THEN [rest EXCEPT !.warnings = @ \union {"undecodable"}]
            ELSE [rest EXCEPT !.queue = @ \o Continues(i),
                              !.code = [a \in {at} |-> i] @@ @,
                              !.calls = @ \union (IF i.flow = "call" THEN {i.target} \ {None} ELSE {}),
                              !.warnings = @ \union Warnings(ByteAt(at), i)]

\* The roots: vectors, the current pc, and the first address of every bank.
Vectors == <<\HFFFA, \HFFFC, \HFFFE>>
VectorTarget(w, v) ==
  LET at == MapCpu(w, v)
  IN IF ~Available(at) THEN None ELSE MapCpu(w, ByteAt(at) + (256 * ByteAt(<<at[1], v + 1>>)))
Roots(w, pc, all) ==
  ({VectorTarget(w, Vectors[k]) : k \in 1..3} \union {MapCpu(w, pc)}
     \union (IF all THEN {<<bank, \H8000>> : bank \in 0..(RomBanks - 1)} ELSE {})) \ {None}

----------------------------------------------------------------------------
(* Basic blocks of the instructions of a function *)

Before(a, b) == a[1] < b[1] \/ (a[1] = b[1] /\ a[2] < b[2])
AtOrBefore(a, b) == a = b \/ Before(a, b)
\* next_in_instruction_map: the next key, adjacent or not.
Following(code, at) ==
  LET later == {b \in DOMAIN code : Before(at, b)}
  IN IF later = {} THEN None ELSE CHOOSE b \in later : \A c \in later : AtOrBefore(b, c)
\* What links has in the map.
InMap(code, links) == (links \ {None}) \intersect DOMAIN code
Ends(i) == i.flow \in {"jump", "branch", "return", "stop", "unknown"}

Leaders(code) ==
  {b \in DOMAIN code : \A c \in DOMAIN code : AtOrBefore(b, c)}
    \union UNION {LET i == code[at] IN
                    CASE i.flow = "branch" -> InMap(code, {i.target, Following(code, at)})
                      [] i.flow = "jump" -> InMap(code, {i.target})
                      [] OTHER -> {} : at \in DOMAIN code}
BlockStarts(code) ==
  Leaders(code) \union InMap(code, {Following(code, at) : at \in {b \in DOMAIN code : Ends(code[b])}})
BlockMap(code) ==
  LET starts == BlockStarts(code)
  IN [at \in DOMAIN code |-> CHOOSE b \in starts :
        AtOrBefore(b, at) /\ \A c \in starts : AtOrBefore(c, at) => AtOrBefore(c, b)]

\* *mutant* of Links: a branch that is not taken ends the function.
LinksTaken(code, at) ==
  CASE code[at].flow \in {"jump", "branch"} -> {code[at].target}
    [] code[at].flow \in {"fallthrough", "call"} -> {Following(code, at)}
    [] OTHER -> {}
\* build_blocks: where the last instruction of a block leads, in address order.
Links(code, at) ==
  CASE code[at].flow = "jump" -> {code[at].target}
    [] code[at].flow = "branch" -> {code[at].target, Following(code, at)}
    [] code[at].flow \in {"fallthrough", "call"} -> {Following(code, at)}
    [] OTHER -> {}
Successors(code, block) ==
  [start \in {block[at] : at \in DOMAIN code} |->
    LET last == CHOOSE at \in DOMAIN code :
                  block[at] = start /\ \A b \in DOMAIN code : block[b] = start => AtOrBefore(b, at)
    IN {block[b] : b \in InMap(code, Links(code, last))}]

\* What the order of addresses stands for: the next instruction is the next in the map.
Contiguous(code) ==
  \A at \in DOMAIN code :
    (code[at].flow \in {"fallthrough", "call", "branch"} /\ code[at].next \in DOMAIN code)
      => code[at].next = Following(code, at)

\* build_function
BuildFunction(f) ==
  LET block == BlockMap(f.code) @@ <<>>
  IN [code |-> f.code, warnings |-> f.warnings, block |-> block, successors |-> Successors(f.code, block) @@ <<>>,
      contiguous |-> Contiguous(f.code), following |-> [at \in DOMAIN f.code |-> Following(f.code, at)] @@ <<>>]

----------------------------------------------------------------------------
(* analyze_with_mapping *)

Sorted(addresses) ==
  [k \in 1..Cardinality(addresses) |->
     CHOOSE at \in addresses : Cardinality({b \in addresses : Before(b, at)}) = k - 1]
Idle == Opened(None)
AnalysisInit(w, pc, all) ==
  /\ captured = w
  /\ pending = Sorted(Roots(w, pc, all))
  /\ work = Idle /\ chart = <<>>

\* Each root once.
Open ==
  /\ work = Idle /\ pending # <<>>
  /\ pending' = Tail(pending)
  /\ work' = IF Head(pending) \in DOMAIN chart \/ ~Available(Head(pending)) THEN work ELSE Opened(Head(pending))
  /\ UNCHANGED <<captured, chart>>

Pop ==
  /\ work # Idle /\ work.queue # <<>>
  /\ work' = Popped(captured, work)
  /\ UNCHANGED <<captured, pending, chart>>

\* The targets of its calls are roots.
Close ==
  /\ work # Idle /\ work.queue = <<>>
  /\ chart' = [start \in {work.start} |-> BuildFunction(work)] @@ chart
  /\ pending' = pending \o Sorted({at \in work.calls : Available(at) /\ at \notin DOMAIN chart})
  /\ work' = Idle
  /\ UNCHANGED captured

Analyze == Open \/ Pop \/ Close
Charted == work = Idle /\ pending = <<>>
=============================================================================
