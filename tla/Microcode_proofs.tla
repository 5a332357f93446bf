-------------------------- MODULE Microcode_proofs --------------------------
(***************************************************************************)
(* Theorems about Microcode, for every set of opcodes and all counts.      *)
(***************************************************************************)
EXTENDS Microcode, OperandLayout_proofs

(***************************************************************************)
(* What the steps of the C functions do to Stuff.                          *)
(***************************************************************************)

Fields ==
  {"operation_size", "msb_bit_index", "source_mode", "source_value",
   "destination_mode", "destination_value", "result_value"}

CodeValues == [ConditionCodes -> {"start", "clear", "set", "computed"}]

Modes ==
  [type : {"none", "register", "memory", "status_register", "condition_code_register"},
   size : {0, 1, 2, 4}, odd : BOOLEAN, immediate : BOOLEAN]

Stuffs ==
  [supervisor : BOOLEAN, operation_size : {1, 2, 4}, source : Modes, destination : Modes,
   cycles : Int, extension : Int, written : SUBSET Fields, stale : SUBSET Fields,
   codes : CodeValues, frames : Seq(CodeValues),
   system : SUBSET {"status_register", "user_stack_pointer", "stopped"},
   outcome : {"running", "fault", "exception", "halted", "crash"}]

(* m became r, the operands are where they were. *)
Kept(m, r) ==
  /\ r \in Stuffs
  /\ r.supervisor = m.supervisor /\ r.operation_size = m.operation_size
  /\ r.source = m.source /\ r.destination = m.destination
  /\ r.extension = m.extension

(* Nothing was read that had not been written, no condition code, no frame
   and no system state is another. *)
Quiet(m, r) ==
  /\ Kept(m, r)
  /\ m.written \subseteq r.written /\ r.stale = m.stale
  /\ r.codes = m.codes /\ r.frames = m.frames /\ r.system = m.system
  /\ r.outcome = m.outcome

LEMMA QuietSteps ==
  ASSUME NEW m \in Stuffs
  PROVE  /\ Quiet(m, m)
         /\ \A fields : fields \subseteq m.written => Reads(m, fields) = m
         /\ \A fields \in SUBSET Fields :
              /\ Quiet(m, Writes(m, fields))
              /\ Writes(m, fields).written = m.written \cup fields
              /\ Writes(m, fields).cycles = m.cycles
         /\ \A from, to \in SUBSET Fields :
              from \subseteq m.written => Computes(m, from, to) = Writes(m, to)
         /\ \A n \in Int :
              /\ Quiet(m, Timed(m, n)) /\ Quiet(m, Took(m, n))
              /\ Timed(m, n).written = m.written /\ Took(m, n).written = m.written
              /\ Timed(m, n).cycles = m.cycles + n /\ Took(m, n).cycles = n
<1>1. Quiet(m, m)
  BY DEF Quiet, Kept
<1>2. \A fields : fields \subseteq m.written => Reads(m, fields) = m
  BY DEF Reads, Stuffs
<1>3. ASSUME NEW fields \in SUBSET Fields
      PROVE  /\ Quiet(m, Writes(m, fields))
             /\ Writes(m, fields).written = m.written \cup fields
             /\ Writes(m, fields).cycles = m.cycles
  BY DEF Quiet, Kept, Writes, Stuffs
<1>4. \A from, to \in SUBSET Fields :
        from \subseteq m.written => Computes(m, from, to) = Writes(m, to)
  <2> TAKE from, to \in SUBSET Fields
  <2> HAVE from \subseteq m.written
  <2>1. Reads(m, from) = m
    BY <1>2
  <2>2. QED
    BY <2>1 DEF Computes
<1>5. ASSUME NEW n \in Int
      PROVE  /\ Quiet(m, Timed(m, n)) /\ Quiet(m, Took(m, n))
             /\ Timed(m, n).written = m.written /\ Took(m, n).written = m.written
             /\ Timed(m, n).cycles = m.cycles + n /\ Took(m, n).cycles = n
  <2>1. \A k \in Int : /\ Quiet(m, Took(m, k)) /\ Took(m, k).written = m.written
                       /\ Took(m, k).cycles = k
    BY DEF Quiet, Kept, Took, Stuffs
  <2>2. Timed(m, n) = Took(m, m.cycles + n) /\ m.cycles + n \in Int
    BY DEF Timed, Took, Stuffs
  <2>3. QED
    BY <2>1, <2>2
<1>6. QED
  BY <1>1, <1>2, <1>3, <1>4, <1>5

LEMMA SetsCodes ==
  ASSUME NEW m \in Stuffs, NEW codes, NEW how \in {"clear", "set", "computed"}
  PROVE  /\ Kept(m, Sets(m, codes, how))
         /\ \A c \in ConditionCodes :
              Sets(m, codes, how).codes[c] = IF c \in codes THEN how ELSE m.codes[c]
         /\ Sets(m, codes, how).written = m.written /\ Sets(m, codes, how).stale = m.stale
         /\ Sets(m, codes, how).frames = m.frames /\ Sets(m, codes, how).system = m.system
         /\ Sets(m, codes, how).outcome = m.outcome /\ Sets(m, codes, how).cycles = m.cycles
<1> DEFINE codes2 == [c \in ConditionCodes |-> IF c \in codes THEN how ELSE m.codes[c]]
<1>1. codes2 \in CodeValues
  BY DEF CodeValues, Stuffs
<1>2. \A c \in ConditionCodes : codes2[c] = IF c \in codes THEN how ELSE m.codes[c]
  OBVIOUS
<1>3. Sets(m, codes, how) = [m EXCEPT !.codes = codes2]
  BY DEF Sets
<1> HIDE DEF codes2
<1>4. QED
  BY <1>1, <1>2, <1>3 DEF Kept, Stuffs

LEMMA EndsRunning ==
  ASSUME NEW m \in Stuffs, NEW how \in {"fault", "exception", "halted", "crash"}
  PROVE  /\ Kept(m, Ends(m, how)) /\ Ends(m, how).outcome = how
         /\ Ends(m, how).written = m.written /\ Ends(m, how).stale = m.stale
         /\ Ends(m, how).codes = m.codes /\ Ends(m, how).frames = m.frames
         /\ Ends(m, how).system = m.system /\ Ends(m, how).cycles = m.cycles
BY DEF Kept, Ends, Stuffs

LEMMA QuietIsTransitive ==
  ASSUME NEW l \in Stuffs, NEW m, NEW n, Quiet(l, m), Quiet(m, n)
  PROVE  Quiet(l, n)
BY DEF Quiet, Kept

(* The first frame of an instruction holds its condition codes. *)
LEMMA InterruptPushesCodes ==
  ASSUME NEW m \in Stuffs, m.frames = <<>>, NEW e \in DoInterrupt(m)
  PROVE  /\ Kept(m, e)
         /\ e.written = m.written /\ e.stale = m.stale /\ e.codes = m.codes
         /\ e.system = m.system
         /\ \/ e.outcome = "halted" /\ e.frames = <<>> /\ e.cycles = m.cycles
            \/ /\ e.outcome = m.outcome /\ e.cycles = m.cycles + 30
               /\ Len(e.frames) = 1 /\ e.frames[1] = m.codes
<1>1. CASE e = Ends(m, "halted")
  BY <1>1, EndsRunning
<1>2. CASE e = [Timed(m, ExceptionDuration) EXCEPT !.frames = Append(@, m.codes)]
  <2> DEFINE n == Timed(m, ExceptionDuration)
             pushed == Append(m.frames, m.codes)
  <2>1. Quiet(m, n) /\ n.written = m.written /\ n.cycles = m.cycles + 30
    BY QuietSteps DEF ExceptionDuration
  <2>2. pushed \in Seq(CodeValues) /\ Len(pushed) = 1 /\ pushed[1] = m.codes
    BY DEF Stuffs
  <2>3. e = [n EXCEPT !.frames = pushed]
    BY <1>2, <2>1 DEF Quiet
  <2> HIDE DEF n, pushed
  <2>4. QED
    BY <2>1, <2>2, <2>3 DEF Quiet, Kept, Stuffs
<1>3. QED
  BY <1>1, <1>2 DEF DoInterrupt

(***************************************************************************)
(* Durations.                                                              *)
(***************************************************************************)

Short == {0, 2, 4, 6, 8, 10, 12, 14, 16, 18, 20}

(* m became r, the result of an instruction is computed. *)
Answers(m, r) ==
  Quiet(m, r) /\ "result_value" \in r.written /\ r.cycles - m.cycles \in Short

LEMMA WordTime ==
  ASSUME NEW m \in Stuffs, "destination_mode" \in m.written, NEW a \in Int, NEW b \in Int
  PROVE  SingleOperandInstructionExecutionTimeWordOnly(m, a, b) \in {Timed(m, a), Timed(m, b)}
<1>1. Reads(m, {"destination_mode"}) = m
  BY QuietSteps
<1>2. QED
  BY <1>1 DEF SingleOperandInstructionExecutionTimeWordOnly

LEMMA OperandTime ==
  ASSUME NEW m \in Stuffs, "destination_mode" \in m.written, "operation_size" \in m.written,
         NEW a \in Int, NEW b \in Int, NEW c \in Int, NEW d \in Int
  PROVE  SingleOperandInstructionExecutionTime(m, a, b, c, d) \in
           {Timed(m, a), Timed(m, b), Timed(m, c), Timed(m, d)}
<1>1. Reads(m, {"operation_size"}) = m
  BY QuietSteps
<1>2. QED
  BY <1>1, WordTime DEF SingleOperandInstructionExecutionTime

LEMMA TimedAnswers ==
  ASSUME NEW m \in Stuffs, NEW n, Answers(m, n), NEW k \in Int,
         (n.cycles - m.cycles) + k \in Short
  PROVE  Answers(m, Timed(n, k))
<1>1. n \in Stuffs
  BY DEF Answers, Quiet, Kept
<1>2. Quiet(n, Timed(n, k)) /\ Timed(n, k).written = n.written /\ Timed(n, k).cycles = n.cycles + k
  BY <1>1, QuietSteps
<1>3. Quiet(m, Timed(n, k))
  BY <1>1, <1>2, QuietIsTransitive DEF Answers
<1>4. m.cycles \in Int /\ n.cycles \in Int
  BY <1>1 DEF Stuffs
<1>5. Timed(n, k).cycles - m.cycles = (n.cycles - m.cycles) + k
  BY <1>2, <1>4
<1>6. QED
  BY <1>2, <1>3, <1>5 DEF Answers

LEMMA ComputesAnswers ==
  ASSUME NEW m \in Stuffs, NEW from \in SUBSET Fields, from \subseteq m.written
  PROVE  /\ Answers(m, Computes(m, from, Result))
         /\ Computes(m, from, Result).cycles = m.cycles
         /\ m.written \subseteq Computes(m, from, Result).written
         /\ Computes(m, from, Result) \in Stuffs
<1>1. Result \in SUBSET Fields /\ "result_value" \in Result
  BY DEF Result, Fields
<1>2. Computes(m, from, Result) = Writes(m, Result)
  BY <1>1, QuietSteps
<1>3. /\ Quiet(m, Writes(m, Result)) /\ Writes(m, Result).cycles = m.cycles
      /\ Writes(m, Result).written = m.written \cup Result
  BY <1>1, QuietSteps
<1>4. m.cycles - m.cycles = 0
  BY DEF Stuffs
<1>5. QED
  BY <1>1, <1>2, <1>3, <1>4 DEF Answers, Short, Quiet, Kept

(* The source is looked at where the result goes to a register as a long
   word: only there it has to be decoded. *)
DelayedBySource(m) == m.destination.type = "register" /\ m.operation_size = 4

LEMMA StandardTime ==
  ASSUME NEW m \in Stuffs,
         "destination_mode" \in m.written, "operation_size" \in m.written,
         \/ "source_mode" \notin m.written
         \/ m.source.type \in {"register", "memory"}
         \/ ~DelayedBySource(m),
         NEW r \in StandardInstructionExecutionTime(m)
  PROVE  /\ Kept(m, r) /\ r.written = m.written
         /\ r.codes = m.codes /\ r.frames = m.frames /\ r.system = m.system
         /\ r.outcome = m.outcome
         /\ r.cycles - m.cycles \in {0, 2, 4, 6, 8, 10, 12, 14, 16}
         /\ "source_mode" \in m.written \/ ~DelayedBySource(m) => r.stale = m.stale
         /\ r.stale \subseteq m.stale \cup {"source_mode"}
<1> DEFINE n == SingleOperandInstructionExecutionTimeCommon(m)
<1>1. n \in {Timed(m, 0), Timed(m, 4), Timed(m, 2), Timed(m, 8)}
  BY OperandTime DEF SingleOperandInstructionExecutionTimeCommon
<1>2. /\ Quiet(m, n) /\ n.written = m.written
      /\ n.cycles - m.cycles \in {0, 2, 4, 8}
  <2>1. PICK k \in {0, 2, 4, 8} : n = Timed(m, k)
    BY <1>1
  <2>2. k \in Int /\ m.cycles \in Int
    BY DEF Stuffs
  <2>3. Quiet(m, n) /\ n.written = m.written /\ n.cycles = m.cycles + k
    BY <2>1, <2>2, QuietSteps
  <2>4. QED
    BY <2>2, <2>3
<1>3. n \in Stuffs
  BY <1>2 DEF Quiet, Kept
<1>4. n.cycles \in Int /\ m.cycles \in Int
  BY <1>3 DEF Stuffs
<1> HIDE DEF n
<1>5. CASE DelayedBySource(m)
  <2> DEFINE read == Reads(n, {"source_mode"})
  <2>1. PICK delay \in SourceDelays(m) : r = Timed(read, delay)
    BY <1>5 DEF StandardInstructionExecutionTime, DelayedBySource, n
  <2>2. SourceDelays(m) \subseteq {0, 2}
    BY <1>5 DEF SourceDelays
  <2>3. /\ Kept(n, read) /\ read.written = n.written /\ read.cycles = n.cycles
        /\ read.codes = n.codes /\ read.frames = n.frames /\ read.system = n.system
        /\ read.outcome = n.outcome /\ read.stale = n.stale \cup ({"source_mode"} \ n.written)
    BY <1>3 DEF Reads, Kept, Stuffs, Fields
  <2>4. read \in Stuffs /\ delay \in Int /\ delay \in {0, 2}
    BY <2>2, <2>3 DEF Kept
  <2> HIDE DEF read
  <2>5. /\ Quiet(read, r) /\ r.written = read.written /\ r.cycles = read.cycles + delay
    BY <2>1, <2>4, QuietSteps
  <2>6. r.cycles - m.cycles \in {0, 2, 4, 6, 8, 10}
    BY <1>2, <1>4, <2>3, <2>4, <2>5
  <2>7. QED
    BY <1>2, <1>5, <2>3, <2>5, <2>6 DEF Quiet, Kept
<1>6. CASE ~DelayedBySource(m)
  <2>1. r = n \/ r = Timed(n, 8)
    BY <1>6 DEF StandardInstructionExecutionTime, DelayedBySource, n
  <2>2. /\ Quiet(n, r) /\ r.written = n.written
        /\ r.cycles = n.cycles \/ r.cycles = n.cycles + 8
    BY <1>3, <2>1, QuietSteps
  <2>3. r.cycles - m.cycles \in {0, 2, 4, 8, 10, 12, 16}
    BY <1>2, <1>4, <2>2
  <2>4. QED
    BY <1>2, <2>2, <2>3 DEF Quiet, Kept
<1>7. QED
  BY <1>5, <1>6

(***************************************************************************)
(* Actions that compute a result and touch nothing else.                   *)
(***************************************************************************)

LEMMA BinaryActs ==
  ASSUME NEW m \in Stuffs,
         Operands \cup {"operation_size", "destination_mode"} \subseteq m.written,
         \/ "source_mode" \notin m.written
         \/ m.source.type \in {"register", "memory"}
         \/ ~DelayedBySource(m),
         NEW r \in Action_Binary(m)
  PROVE  /\ Kept(m, r) /\ m.written \subseteq r.written /\ "result_value" \in r.written
         /\ r.codes = m.codes /\ r.frames = m.frames /\ r.system = m.system
         /\ r.outcome = m.outcome
         /\ r.cycles - m.cycles \in {0, 2, 4, 6, 8, 10, 12, 14, 16}
         /\ "source_mode" \in m.written \/ ~DelayedBySource(m) => r.stale = m.stale
         /\ r.stale \subseteq m.stale \cup {"source_mode"}
<1> DEFINE n == Computes(m, Operands, Result)
<1>1. Operands \in SUBSET Fields /\ Result \in SUBSET Fields
  BY DEF Operands, Result, Fields
<1>2. /\ Answers(m, n) /\ n.cycles = m.cycles /\ m.written \subseteq n.written /\ n \in Stuffs
  BY <1>1, ComputesAnswers
<1>3. "source_mode" \in m.written <=> "source_mode" \in n.written
  <2>1. n = Writes(m, Result) /\ Writes(m, Result).written = m.written \cup Result
    BY <1>1, QuietSteps
  <2>2. QED
    BY <2>1 DEF Result
<1>4. r \in StandardInstructionExecutionTime(n)
  BY DEF Action_Binary
<1> HIDE DEF n
<1>5. /\ Kept(m, n) /\ n.codes = m.codes /\ n.frames = m.frames /\ n.system = m.system
      /\ n.outcome = m.outcome /\ n.stale = m.stale /\ "result_value" \in n.written
  BY <1>2 DEF Answers, Quiet
<1>6. DelayedBySource(n) <=> DelayedBySource(m)
  BY <1>5 DEF DelayedBySource, Kept
<1>7. /\ "destination_mode" \in n.written /\ "operation_size" \in n.written
      /\ n.source = m.source
  BY <1>2, <1>5 DEF Kept
<1>8. /\ Kept(n, r) /\ r.written = n.written
      /\ r.codes = n.codes /\ r.frames = n.frames /\ r.system = n.system
      /\ r.outcome = n.outcome
      /\ r.cycles - n.cycles \in {0, 2, 4, 6, 8, 10, 12, 14, 16}
      /\ "source_mode" \in n.written \/ ~DelayedBySource(n) => r.stale = n.stale
      /\ r.stale \subseteq n.stale \cup {"source_mode"}
  BY <1>2, <1>3, <1>4, <1>6, <1>7, StandardTime
<1>9. QED
  BY <1>2, <1>3, <1>5, <1>6, <1>8 DEF Kept

LEMMA AddressTimes ==
  ASSUME NEW o, NEW short \in {2, 4}, NEW long \in {4, 8}, NEW index \in {6, 8}
  PROVE  AddressTime(o, short, long, index) \in {0, 2, 4, 6, 8}
BY DEF AddressTime

(* Comparisons. *)
LEMMA ComparisonsAnswer ==
  ASSUME NEW m \in Stuffs, Operands \subseteq m.written
  PROVE  /\ Answers(m, Computes(m, Operands, Result))
         /\ "operation_size" \in m.written => Answers(m, Action_CMP(m))
         /\ {"operation_size", "destination_mode"} \subseteq m.written => Answers(m, Action_CMPI(m))
<1>1. /\ Operands \in SUBSET Fields /\ Operands \cup {"operation_size"} \in SUBSET Fields
      /\ Operands \cup {"operation_size", "destination_mode"} \in SUBSET Fields
  BY DEF Operands, Fields
<1>2. Answers(m, Computes(m, Operands, Result))
  BY <1>1, ComputesAnswers
<1>3. ASSUME "operation_size" \in m.written
      PROVE  Answers(m, Action_CMP(m))
  <2> DEFINE n == Computes(m, Operands \cup {"operation_size"}, Result)
             k == IF m.operation_size = 4 THEN 2 ELSE 0
  <2>1. Answers(m, n) /\ n.cycles = m.cycles
    BY <1>1, <1>3, ComputesAnswers
  <2>2. k \in Int /\ (m.cycles - m.cycles) + k \in Short
    BY DEF Short, Stuffs
  <2>3. Action_CMP(m) = Timed(n, k)
    BY DEF Action_CMP
  <2> HIDE DEF n, k
  <2>4. QED
    BY <2>1, <2>2, <2>3, TimedAnswers
<1>4. ASSUME {"operation_size", "destination_mode"} \subseteq m.written
      PROVE  Answers(m, Action_CMPI(m))
  <2> DEFINE n == Computes(m, Operands \cup {"operation_size", "destination_mode"}, Result)
  <2>1. Answers(m, n) /\ n.cycles = m.cycles
    BY <1>1, <1>4, ComputesAnswers
  <2>2. 2 \in Int /\ (m.cycles - m.cycles) + 2 \in Short
    BY DEF Short, Stuffs
  <2>3. Action_CMPI(m) = Timed(n, 2) \/ Action_CMPI(m) = n
    BY DEF Action_CMPI
  <2> HIDE DEF n
  <2>4. QED
    BY <2>1, <2>2, <2>3, TimedAnswers
<1>5. QED
  BY <1>2, <1>3, <1>4

(* Moves, but MOVE itself. *)
LEMMA MovesAnswer ==
  ASSUME NEW m \in Stuffs
  PROVE  /\ "source_value" \in m.written => Answers(m, Action_MOVECommon(m))
         /\ {"source_value", "msb_bit_index"} \subseteq m.written => Answers(m, Action_MOVEA(m))
         /\ Answers(m, Writes(m, Result))
<1>1. /\ {"source_value"} \in SUBSET Fields /\ {"source_value", "msb_bit_index"} \in SUBSET Fields
      /\ {} \in SUBSET Fields /\ Result \in SUBSET Fields
  BY DEF Fields, Result
<1>2. "source_value" \in m.written => Answers(m, Action_MOVECommon(m))
  BY <1>1, ComputesAnswers DEF Action_MOVECommon
<1>3. {"source_value", "msb_bit_index"} \subseteq m.written => Answers(m, Action_MOVEA(m))
  BY <1>1, ComputesAnswers DEF Action_MOVEA
<1>4. Answers(m, Writes(m, Result))
  <2>1. Computes(m, {}, Result) = Writes(m, Result)
    BY <1>1, QuietSteps
  <2>2. QED
    BY <1>1, <2>1, ComputesAnswers
<1>5. QED
  BY <1>2, <1>3, <1>4

LEMMA CommonTimeAnswers ==
  ASSUME NEW m \in Stuffs, NEW n, Answers(m, n), n.cycles = m.cycles,
         "destination_mode" \in n.written, "operation_size" \in n.written
  PROVE  /\ Answers(m, SingleOperandInstructionExecutionTimeCommon(n))
         /\ Answers(m, ADDXSUBXExecutionTime(n))
<1>1. n \in Stuffs
  BY DEF Answers, Quiet, Kept
<1>2. ASSUME NEW k \in {0, 2, 4, 6, 8}
      PROVE  Answers(m, Timed(n, k))
  <2>1. k \in Int /\ (n.cycles - m.cycles) + k \in Short
    BY <1>1 DEF Short, Stuffs
  <2>2. QED
    BY <2>1, TimedAnswers
<1>3. SingleOperandInstructionExecutionTimeCommon(n) \in
        {Timed(n, 0), Timed(n, 4), Timed(n, 2), Timed(n, 8)}
  BY <1>1, OperandTime DEF SingleOperandInstructionExecutionTimeCommon
<1>4. ADDXSUBXExecutionTime(n) \in {Timed(n, 0), Timed(n, 2), Timed(n, 4), Timed(n, 6)}
  BY <1>1, OperandTime DEF ADDXSUBXExecutionTime
<1>5. QED
  BY <1>2, <1>3, <1>4

(* Operations on one operand. *)
LEMMA UnaryAnswers ==
  ASSUME NEW m \in Stuffs
  PROVE  /\ "destination_value" \in m.written => Answers(m, Action_Rearrange(m))
         /\ {"destination_mode", "operation_size"} \subseteq m.written => Answers(m, Action_CLR(m))
         /\ {"destination_value", "destination_mode", "operation_size"} \subseteq m.written =>
              Answers(m, Action_Unary(m))
<1>1. {"destination_value"} \in SUBSET Fields /\ {} \in SUBSET Fields /\ Result \in SUBSET Fields
  BY DEF Fields, Result
<1>2. "destination_value" \in m.written => Answers(m, Action_Rearrange(m))
  BY <1>1, ComputesAnswers DEF Action_Rearrange
<1>3. ASSUME {"destination_mode", "operation_size"} \subseteq m.written
      PROVE  Answers(m, Action_CLR(m))
  <2>1. Computes(m, {}, Result) = Writes(m, Result)
    BY <1>1, QuietSteps
  <2>2. /\ Answers(m, Writes(m, Result)) /\ Writes(m, Result).cycles = m.cycles
        /\ m.written \subseteq Writes(m, Result).written
    BY <1>1, <2>1, ComputesAnswers
  <2>3. QED
    BY <1>3, <2>2, CommonTimeAnswers DEF Action_CLR
<1>4. ASSUME {"destination_value", "destination_mode", "operation_size"} \subseteq m.written
      PROVE  Answers(m, Action_Unary(m))
  <2> DEFINE n == Computes(m, {"destination_value"}, Result)
  <2>1. Answers(m, n) /\ n.cycles = m.cycles /\ m.written \subseteq n.written
    BY <1>1, <1>4, ComputesAnswers
  <2>2. Action_Unary(m) = SingleOperandInstructionExecutionTimeCommon(n)
    BY DEF Action_Unary
  <2> HIDE DEF n
  <2>3. QED
    BY <1>4, <2>1, <2>2, CommonTimeAnswers
<1>5. QED
  BY <1>2, <1>3, <1>4

LEMMA ExtendedAnswers ==
  ASSUME NEW m \in Stuffs,
         Operands \cup {"destination_mode", "operation_size"} \subseteq m.written
  PROVE  Answers(m, Action_Extended(m))
<1> DEFINE n == Computes(m, Operands, Result)
<1>1. Operands \in SUBSET Fields
  BY DEF Operands, Fields
<1>2. Answers(m, n) /\ n.cycles = m.cycles /\ m.written \subseteq n.written
  BY <1>1, ComputesAnswers
<1>3. Action_Extended(m) = ADDXSUBXExecutionTime(n)
  BY DEF Action_Extended
<1> HIDE DEF n
<1>4. QED
  BY <1>2, <1>3, CommonTimeAnswers

LEMMA ConditionAnswers ==
  ASSUME NEW o, NEW m \in Stuffs, "destination_mode" \in m.written, NEW r \in Action_SCC(o, m)
  PROVE  Answers(m, r)
<1> DEFINE n == Writes(m, Result)
<1>1. {} \in SUBSET Fields /\ Result \in SUBSET Fields
  BY DEF Fields, Result
<1>2. Computes(m, {}, Result) = n
  BY <1>1, QuietSteps
<1>3. Answers(m, n) /\ n.cycles = m.cycles /\ m.written \subseteq n.written /\ n \in Stuffs
  BY <1>1, <1>2, ComputesAnswers
<1>4. \E k \in {0, 2} : r = SingleOperandInstructionExecutionTimeWordOnly(n, k, 4)
  BY DEF Action_SCC
<1> HIDE DEF n
<1>5. PICK k \in {0, 2, 4} : r = Timed(n, k)
  BY <1>3, <1>4, WordTime
<1>6. k \in Int /\ (n.cycles - m.cycles) + k \in Short
  BY <1>3 DEF Short, Stuffs
<1>7. QED
  BY <1>3, <1>5, <1>6, TimedAnswers

(* ADDA and SUBA. *)
LEMMA ToAddressActs ==
  ASSUME NEW o, NEW m \in Stuffs,
         Operands \cup {"operation_size", "destination_mode", "source_mode"} \subseteq m.written,
         m.source.type \in {"register", "memory"},
         NEW r \in Action_ToAddress(o, m)
  PROVE  Answers(m, r)
<1>1. ASSUME NEW n, Quiet(m, n), n.cycles - m.cycles \in {0, 2}, r \in Action_Binary(n)
      PROVE  Answers(m, r)
  <2>1. /\ n \in Stuffs /\ n.source = m.source
        /\ Operands \cup {"operation_size", "destination_mode", "source_mode"} \subseteq n.written
    BY <1>1 DEF Quiet, Kept
  <2>2. /\ Kept(n, r) /\ n.written \subseteq r.written /\ "result_value" \in r.written
        /\ r.codes = n.codes /\ r.frames = n.frames /\ r.system = n.system
        /\ r.outcome = n.outcome /\ r.stale = n.stale
        /\ r.cycles - n.cycles \in {0, 2, 4, 6, 8, 10, 12, 14, 16}
    BY <1>1, <2>1, BinaryActs
  <2>3. r.cycles \in Int /\ n.cycles \in Int /\ m.cycles \in Int
    BY <2>1, <2>2 DEF Kept, Stuffs
  <2>4. r.cycles - m.cycles \in Short
    BY <1>1, <2>2, <2>3 DEF Short
  <2>5. QED
    BY <1>1, <2>2, <2>4, QuietIsTransitive DEF Answers, Quiet
<1>2. CASE o.bit_8
  <2>1. m.cycles - m.cycles = 0
    BY DEF Stuffs
  <2>2. QED
    BY <1>1, <1>2, <2>1, QuietSteps DEF Action_ToAddress
<1>3. CASE ~o.bit_8
  <2> DEFINE n == Computes(m, {"source_value", "source_mode"}, {"source_value"})
  <2>1. {"source_value", "source_mode"} \in SUBSET Fields /\ {"source_value"} \in SUBSET Fields
    BY DEF Fields
  <2>2. {"source_value", "source_mode"} \subseteq m.written
    BY DEF Operands
  <2>3. n = Writes(m, {"source_value"})
    BY <2>1, <2>2, QuietSteps
  <2>4. Quiet(m, n) /\ n.cycles = m.cycles
    BY <2>1, <2>3, QuietSteps
  <2>5. r \in Action_Binary(n) \/ r \in Action_Binary(Timed(n, 2))
    BY <1>3 DEF Action_ToAddress
  <2> HIDE DEF n
  <2>6. n \in Stuffs /\ n.cycles \in Int
    BY <2>4 DEF Quiet, Kept, Stuffs
  <2>7. /\ Quiet(m, Timed(n, 2)) /\ Timed(n, 2).cycles - m.cycles = 2
        /\ n.cycles - m.cycles = 0
    <3>1. Quiet(n, Timed(n, 2)) /\ Timed(n, 2).cycles = n.cycles + 2
      BY <2>6, QuietSteps
    <3>2. QED
      BY <2>4, <2>6, <3>1, QuietIsTransitive
  <2>8. QED
    BY <1>1, <2>4, <2>5, <2>7
<1>4. QED
  BY <1>2, <1>3

(* ADDQ and SUBQ, whose source is not decoded. *)
LEMMA QuickActs ==
  ASSUME NEW o, NEW m \in Stuffs,
         {"destination_value", "operation_size", "destination_mode"} \subseteq m.written,
         "source_mode" \notin m.written,
         NEW r \in Action_Quick(o, m)
  PROVE  /\ Kept(m, r) /\ m.written \subseteq r.written
         /\ {"source_value", "result_value"} \subseteq r.written
         /\ r.codes = m.codes /\ r.frames = m.frames /\ r.system = m.system
         /\ r.outcome = m.outcome /\ r.cycles - m.cycles \in Short
         /\ ~DelayedBySource(m) => r.stale = m.stale
         /\ r.stale \subseteq m.stale \cup {"source_mode"}
<1> DEFINE n == Writes(m, {"source_value"})
<1>1. {"source_value"} \in SUBSET Fields
  BY DEF Fields
<1>2. Quiet(m, n) /\ n.written = m.written \cup {"source_value"} /\ n.cycles = m.cycles
  BY <1>1, QuietSteps
<1>3. PICK b \in Action_Binary(n) : r = StandardInstructionExecutionTimeQuick(o, b)
  BY DEF Action_Quick
<1> HIDE DEF n
<1>4. /\ n \in Stuffs /\ "source_mode" \notin n.written
      /\ Operands \cup {"operation_size", "destination_mode"} \subseteq n.written
  BY <1>2 DEF Quiet, Kept, Operands
<1>5. /\ Kept(n, b) /\ n.written \subseteq b.written /\ "result_value" \in b.written
      /\ b.codes = n.codes /\ b.frames = n.frames /\ b.system = n.system
      /\ b.outcome = n.outcome
      /\ b.cycles - n.cycles \in {0, 2, 4, 6, 8, 10, 12, 14, 16}
      /\ ~DelayedBySource(n) => b.stale = n.stale
      /\ b.stale \subseteq n.stale \cup {"source_mode"}
  BY <1>4, BinaryActs
<1>6. b \in Stuffs
  BY <1>5 DEF Kept
<1>7. r = b \/ r = Timed(b, 2)
  BY <1>3 DEF StandardInstructionExecutionTimeQuick
<1>8. /\ Quiet(b, r)
      /\ r.cycles = b.cycles \/ r.cycles = b.cycles + 2
  BY <1>6, <1>7, QuietSteps
<1>9. r.cycles - m.cycles \in Short
  <2>1. b.cycles \in Int /\ m.cycles \in Int
    BY <1>6 DEF Stuffs
  <2>2. QED
    BY <1>2, <1>5, <1>8, <2>1 DEF Short
<1>10. DelayedBySource(n) <=> DelayedBySource(m)
  BY <1>2 DEF DelayedBySource, Quiet, Kept
<1>11. QED
  BY <1>2, <1>5, <1>8, <1>9, <1>10 DEF Quiet, Kept

(* MOVE takes back part of the time of a predecrement. *)
LEMMA MoveActs ==
  ASSUME NEW o, NEW m \in Stuffs,
         {"source_value", "source_mode", "destination_mode"} \subseteq m.written
  PROVE  /\ Quiet(m, Action_MOVE(o, m)) /\ "result_value" \in Action_MOVE(o, m).written
         /\ \/ Action_MOVE(o, m).cycles - m.cycles \in Short
            \/ /\ m.source.type # "status_register"
               /\ m.destination.type \notin {"status_register", "condition_code_register"}
               /\ o.secondary_address_mode = 4
               /\ Action_MOVE(o, m).cycles = m.cycles - 2
<1> DEFINE n == Action_MOVECommon(m)
<1>1. {"source_value"} \in SUBSET Fields
  BY DEF Fields
<1>2. Answers(m, n) /\ n.cycles = m.cycles /\ n \in Stuffs /\ m.written \subseteq n.written
  BY <1>1, ComputesAnswers DEF Action_MOVECommon
<1>3. Reads(n, {"source_mode", "destination_mode"}) = n
  BY <1>2, QuietSteps
<1>4. \/ /\ m.source.type # "status_register"
         /\ m.destination.type \notin {"status_register", "condition_code_register"}
         /\ o.secondary_address_mode = 4 /\ Action_MOVE(o, m) = Timed(n, -2)
      \/ Action_MOVE(o, m) \in {n, Timed(n, 2), Timed(n, 4), Timed(n, 8)}
  BY <1>3 DEF Action_MOVE
<1> HIDE DEF n
<1>5. n.cycles \in Int /\ n.cycles - m.cycles = 0
  BY <1>2 DEF Stuffs
<1>6. CASE Action_MOVE(o, m) \in {n, Timed(n, 2), Timed(n, 4), Timed(n, 8)}
  <2>1. \A k \in {2, 4, 8} : Answers(m, Timed(n, k))
    BY <1>2, <1>5, TimedAnswers DEF Short
  <2>2. QED
    BY <1>2, <1>6, <2>1 DEF Answers
<1>7. CASE /\ m.source.type # "status_register"
           /\ m.destination.type \notin {"status_register", "condition_code_register"}
           /\ o.secondary_address_mode = 4 /\ Action_MOVE(o, m) = Timed(n, -2)
  <2>1. /\ Quiet(n, Timed(n, -2)) /\ Timed(n, -2).written = n.written
        /\ Timed(n, -2).cycles = n.cycles + (-2)
    BY <1>2, QuietSteps
  <2>2. QED
    BY <1>2, <1>5, <1>7, <2>1, QuietIsTransitive DEF Answers
<1>8. QED
  BY <1>4, <1>6, <1>7

(***************************************************************************)
(* Actions that write condition codes themselves.                          *)
(***************************************************************************)

(* Quiet, except for the condition codes. *)
Coded(m, r) ==
  /\ Kept(m, r)
  /\ m.written \subseteq r.written /\ r.stale = m.stale
  /\ r.frames = m.frames /\ r.system = m.system /\ r.outcome = m.outcome

LEMMA CodedSteps ==
  /\ \A m, r : Quiet(m, r) => Coded(m, r)
  /\ \A l, m, r : Coded(l, m) /\ Coded(m, r) => Coded(l, r)
  /\ \A m \in Stuffs : \A codes : \A how \in {"clear", "set", "computed"} :
       /\ Coded(m, Sets(m, codes, how)) /\ Sets(m, codes, how).cycles = m.cycles
       /\ Sets(m, codes, how).written = m.written
<1>1. \A m, r : Quiet(m, r) => Coded(m, r)
  BY DEF Quiet, Coded
<1>2. \A l, m, r : Coded(l, m) /\ Coded(m, r) => Coded(l, r)
  BY DEF Coded, Kept
<1>3. ASSUME NEW m \in Stuffs, NEW codes, NEW how \in {"clear", "set", "computed"}
      PROVE  /\ Coded(m, Sets(m, codes, how)) /\ Sets(m, codes, how).cycles = m.cycles
             /\ Sets(m, codes, how).written = m.written
  BY SetsCodes DEF Coded
<1>4. QED
  BY <1>1, <1>2, <1>3

LEMMA ComputesCoded ==
  ASSUME NEW m \in Stuffs, NEW n, Coded(m, n),
         NEW from \in SUBSET Fields, NEW to \in SUBSET Fields, from \subseteq n.written
  PROVE  /\ Coded(m, Computes(n, from, to)) /\ Computes(n, from, to).cycles = n.cycles
         /\ Computes(n, from, to).written = n.written \cup to
<1>1. n \in Stuffs
  BY DEF Coded, Kept
<1>2. Computes(n, from, to) = Writes(n, to)
  BY <1>1, QuietSteps
<1>3. /\ Quiet(n, Writes(n, to)) /\ Writes(n, to).cycles = n.cycles
      /\ Writes(n, to).written = n.written \cup to
  BY <1>1, QuietSteps
<1>4. QED
  BY <1>2, <1>3, CodedSteps

LEMMA TimedCoded ==
  ASSUME NEW m \in Stuffs, NEW n, Coded(m, n), NEW k \in Int
  PROVE  /\ Coded(m, Timed(n, k)) /\ Timed(n, k).cycles = n.cycles + k
         /\ Timed(n, k).written = n.written
<1>1. n \in Stuffs
  BY DEF Coded, Kept
<1>2. /\ Quiet(n, Timed(n, k)) /\ Timed(n, k).cycles = n.cycles + k
      /\ Timed(n, k).written = n.written
  BY <1>1, QuietSteps
<1>3. QED
  BY <1>2, CodedSteps

(* BTST, BCHG, BCLR and BSET. *)
LEMMA BitsCoded ==
  ASSUME NEW o, NEW m \in Stuffs, Operands \cup {"msb_bit_index"} \subseteq m.written
  PROVE  /\ Coded(m, Action_BTST(o, m)) /\ Action_BTST(o, m).cycles - m.cycles \in {0, 2}
         /\ \A low, high \in {-2, 0, 2} : \A r \in Action_ChangeBit(m, low, high) :
              /\ Coded(m, r) /\ "result_value" \in r.written
              /\ r.cycles - m.cycles \in {2, 4, 6}
<1> DEFINE read == Operands \cup {"msb_bit_index"}
           n == Computes(m, read, {"source_value"})
           b == Action_Bxxx(m)
<1>1. /\ Operands \in SUBSET Fields /\ read \in SUBSET Fields /\ read \subseteq m.written
      /\ {"source_value"} \in SUBSET Fields /\ Result \in SUBSET Fields
  BY DEF Operands, Fields, Result
<1>2. Coded(m, m)
  BY QuietSteps, CodedSteps
<1>3. Coded(m, n) /\ n.cycles = m.cycles /\ n.written = m.written \cup {"source_value"}
  <2> HIDE DEF read
  <2>1. QED
    BY <1>1, <1>2, ComputesCoded
<1>4. n \in Stuffs
  BY <1>3 DEF Coded, Kept
<1>5. b = Sets(n, {"Z"}, "computed")
  BY DEF Action_Bxxx
<1> HIDE DEF n
<1>6. Coded(n, b) /\ b.cycles = n.cycles /\ b.written = n.written
  BY <1>4, <1>5, CodedSteps
<1>7. Coded(m, b) /\ b.cycles = m.cycles /\ Operands \subseteq b.written
  BY <1>3, <1>6, CodedSteps
<1>8. b \in Stuffs /\ b.cycles \in Int /\ b.cycles - m.cycles = 0
  BY <1>7 DEF Coded, Kept, Stuffs
<1>9. Action_BTST(o, m) = b \/ Action_BTST(o, m) = Timed(b, 2)
  BY DEF Action_BTST
<1>10. ASSUME NEW low \in {-2, 0, 2}, NEW high \in {-2, 0, 2}, NEW r \in Action_ChangeBit(m, low, high)
       PROVE  /\ Coded(m, r) /\ "result_value" \in r.written
              /\ r.cycles - m.cycles \in {2, 4, 6}
  <2> DEFINE c == Computes(b, Operands, Result)
  <2>1. PICK k \in {2, 4, 6} : r = Timed(c, k)
    BY DEF Action_ChangeBit
  <2>2. Coded(m, c) /\ c.cycles = b.cycles /\ c.written = b.written \cup Result
    BY <1>1, <1>7, ComputesCoded
  <2> HIDE DEF b, c
  <2>3. Coded(m, r) /\ r.cycles = c.cycles + k /\ r.written = c.written
    BY <2>1, <2>2, TimedCoded
  <2>4. QED
    BY <1>7, <1>8, <2>2, <2>3 DEF Result
<1>11. Coded(m, Action_BTST(o, m)) /\ Action_BTST(o, m).cycles - m.cycles \in {0, 2}
  <2> HIDE DEF b
  <2>1. Coded(m, Timed(b, 2)) /\ Timed(b, 2).cycles = b.cycles + 2
    BY <1>7, TimedCoded
  <2>2. QED
    BY <1>7, <1>8, <1>9, <2>1
<1>12. QED
  BY <1>10, <1>11

LEMMA CorrectedCoded ==
  ASSUME NEW m \in Stuffs, NEW n, Coded(m, n), Operands \subseteq n.written
  PROVE  /\ Coded(m, Corrected(n)) /\ Corrected(n).cycles = n.cycles
         /\ n.written \cup Result \subseteq Corrected(n).written
<1> DEFINE c == Computes(n, Operands, Result)
           w == Writes(c, Operands)
<1>1. Operands \in SUBSET Fields /\ Result \in SUBSET Fields
  BY DEF Operands, Fields, Result
<1>2. Coded(m, c) /\ c.cycles = n.cycles /\ c.written = n.written \cup Result
  BY <1>1, ComputesCoded
<1>3. c \in Stuffs
  BY <1>2 DEF Coded, Kept
<1> HIDE DEF c
<1>4. Quiet(c, w) /\ w.cycles = c.cycles /\ w.written = c.written \cup Operands
  BY <1>1, <1>3, QuietSteps
<1>5. w \in Stuffs
  BY <1>4 DEF Quiet, Kept
<1>6. Corrected(n) = Sets(w, {"C"}, "computed")
  BY DEF Corrected, c
<1> HIDE DEF w
<1>7. Coded(w, Corrected(n)) /\ Corrected(n).cycles = w.cycles /\ Corrected(n).written = w.written
  BY <1>5, <1>6, CodedSteps
<1>8. QED
  BY <1>2, <1>4, <1>7, CodedSteps

(* ABCD and SBCD, whatever the addresses took. *)
LEMMA PairsCoded ==
  ASSUME NEW o, NEW m \in Stuffs, Operands \subseteq m.written
  PROVE  /\ Coded(m, Action_SBCD(o, m)) /\ "result_value" \in Action_SBCD(o, m).written
         /\ Action_SBCD(o, m).cycles \in {6, 18}
         /\ {"destination_mode", "operation_size"} \subseteq m.written =>
              /\ Coded(m, Action_ABCD(o, m)) /\ "result_value" \in Action_ABCD(o, m).written
              /\ Action_ABCD(o, m).cycles \in {6, 18}
<1>1. ASSUME NEW n, Coded(m, n), Operands \subseteq n.written
      PROVE  /\ Coded(m, ABCDSBCDExecutionTime(o, Corrected(n)))
             /\ "result_value" \in ABCDSBCDExecutionTime(o, Corrected(n)).written
             /\ ABCDSBCDExecutionTime(o, Corrected(n)).cycles \in {6, 18}
  <2> DEFINE c == Corrected(n)
             k == IF PairAddress(o) = "predecrement" THEN 18 ELSE 6
  <2>1. Coded(m, c) /\ "result_value" \in c.written /\ c \in Stuffs
    BY <1>1, CorrectedCoded DEF Coded, Kept, Result
  <2>2. ABCDSBCDExecutionTime(o, c) = Took(c, k) /\ k \in {6, 18}
    BY DEF ABCDSBCDExecutionTime
  <2> HIDE DEF c, k
  <2>3. Quiet(c, Took(c, k)) /\ Took(c, k).cycles = k
    BY <2>1, <2>2, QuietSteps
  <2>4. Coded(m, Took(c, k)) /\ "result_value" \in Took(c, k).written
    BY <2>1, <2>3, CodedSteps DEF Quiet
  <2>5. QED
    BY <2>2, <2>3, <2>4 DEF c
<1>2. Coded(m, m)
  BY QuietSteps, CodedSteps
<1>3. ASSUME {"destination_mode", "operation_size"} \subseteq m.written
      PROVE  Coded(m, Action_Extended(m)) /\ Operands \subseteq Action_Extended(m).written
  <2>1. Quiet(m, Action_Extended(m))
    BY <1>3, ExtendedAnswers DEF Answers
  <2>2. QED
    BY <2>1, CodedSteps DEF Quiet
<1>4. QED
  BY <1>1, <1>2, <1>3 DEF Action_SBCD, Action_ABCD

(* NBCD and TAS. *)
LEMMA BytesCoded ==
  ASSUME NEW m \in Stuffs, {"destination_value", "destination_mode"} \subseteq m.written
  PROVE  /\ Coded(m, Action_NBCD(m)) /\ {"source_value", "result_value"} \subseteq Action_NBCD(m).written
         /\ Action_NBCD(m).cycles - m.cycles \in {2, 4}
         /\ Coded(m, Action_TAS(m)) /\ "result_value" \in Action_TAS(m).written
         /\ Action_TAS(m).cycles - m.cycles \in {0, 6}
<1>1. /\ {"destination_value"} \in SUBSET Fields
      /\ Operands \in SUBSET Fields /\ Result \in SUBSET Fields
  BY DEF Operands, Fields, Result
<1>2. Coded(m, m)
  BY QuietSteps, CodedSteps
<1>3. ASSUME NEW n, Coded(m, n), n.cycles = m.cycles, "destination_mode" \in n.written,
             NEW a \in {0, 2, 4, 6}, NEW b \in {0, 2, 4, 6},
             NEW r, r = SingleOperandInstructionExecutionTimeWordOnly(n, a, b)
      PROVE  Coded(m, r) /\ n.written \subseteq r.written /\ r.cycles - m.cycles \in {a, b}
  <2>1. n \in Stuffs /\ n.cycles \in Int
    BY <1>3 DEF Coded, Kept, Stuffs
  <2>2. PICK k \in {a, b} : r = Timed(n, k)
    BY <1>3, <2>1, WordTime
  <2>3. Coded(m, r) /\ r.cycles = n.cycles + k /\ r.written = n.written
    BY <1>3, <2>2, TimedCoded
  <2>4. QED
    BY <1>3, <2>1, <2>3
<1>4. /\ Coded(m, Action_NBCD(m)) /\ {"source_value", "result_value"} \subseteq Action_NBCD(m).written
      /\ Action_NBCD(m).cycles - m.cycles \in {2, 4}
  <2> DEFINE n == Computes(m, {"destination_value"}, Operands)
             c == Corrected(n)
  <2>1. Coded(m, n) /\ n.cycles = m.cycles /\ n.written = m.written \cup Operands
    BY <1>1, <1>2, ComputesCoded
  <2>2. Coded(m, c) /\ c.cycles = n.cycles /\ n.written \cup Result \subseteq c.written
    BY <2>1, CorrectedCoded
  <2>3. Action_NBCD(m) = SingleOperandInstructionExecutionTimeWordOnly(c, 2, 4)
    BY DEF Action_NBCD
  <2> HIDE DEF n, c
  <2>4. c.cycles = m.cycles /\ "destination_mode" \in c.written
    BY <2>1, <2>2
  <2>5. Coded(m, Action_NBCD(m)) /\ c.written \subseteq Action_NBCD(m).written
        /\ Action_NBCD(m).cycles - m.cycles \in {2, 4}
    BY <1>3, <2>2, <2>3, <2>4
  <2>6. QED
    BY <2>1, <2>2, <2>5 DEF Operands, Result
<1>5. /\ Coded(m, Action_TAS(m)) /\ "result_value" \in Action_TAS(m).written
      /\ Action_TAS(m).cycles - m.cycles \in {0, 6}
  <2> DEFINE n == Computes(m, {"destination_value"}, Result)
             c == Sets(n, {"N", "Z"}, "computed")
  <2>1. Coded(m, n) /\ n.cycles = m.cycles /\ n.written = m.written \cup Result
    BY <1>1, <1>2, ComputesCoded
  <2>2. n \in Stuffs
    BY <2>1 DEF Coded, Kept
  <2>3. Action_TAS(m) = SingleOperandInstructionExecutionTimeWordOnly(c, 0, 6)
    BY DEF Action_TAS
  <2> HIDE DEF n
  <2>4. Coded(n, c) /\ c.cycles = n.cycles /\ c.written = n.written
    BY <2>2, CodedSteps
  <2> HIDE DEF c
  <2>5. Coded(m, c) /\ c.cycles = m.cycles /\ "destination_mode" \in c.written
    BY <2>1, <2>4, CodedSteps
  <2>6. Coded(m, Action_TAS(m)) /\ c.written \subseteq Action_TAS(m).written
        /\ Action_TAS(m).cycles - m.cycles \in {0, 6}
    BY <1>3, <2>3, <2>5
  <2>7. QED
    BY <2>1, <2>4, <2>6 DEF Result
<1>6. QED
  BY <1>4, <1>5

(* Shifts and rotations. *)
LEMMA ShiftsCoded ==
  ASSUME NEW o \in Splits, NEW m \in Stuffs, NEW extended \in BOOLEAN,
         {"destination_value", "msb_bit_index"} \subseteq m.written
  PROVE  /\ Coded(m, Action_ShiftMemory(m, extended))
         /\ "result_value" \in Action_ShiftMemory(m, extended).written
         /\ Action_ShiftMemory(m, extended).cycles = m.cycles + 4
         /\ \A r \in Action_ShiftRegister(o, m, extended) :
              /\ Coded(m, r) /\ "result_value" \in r.written
              /\ \E n \in 1..65 : r.cycles = m.cycles + 2 * n
<1> DEFINE n == Computes(m, {"destination_value", "msb_bit_index"}, Result)
           s == Shifted(m, extended)
<1>1. {"destination_value", "msb_bit_index"} \in SUBSET Fields /\ Result \in SUBSET Fields
  BY DEF Fields, Result
<1>2. Coded(m, n) /\ n.cycles = m.cycles /\ n.written = m.written \cup Result
  BY <1>1, QuietSteps, CodedSteps, ComputesCoded
<1>3. n \in Stuffs
  BY <1>2 DEF Coded, Kept
<1>4. s = Sets(n, IF extended THEN {"C", "V", "X"} ELSE {"C", "V"}, "computed")
  BY DEF Shifted
<1> HIDE DEF n
<1>5. Coded(n, s) /\ s.cycles = n.cycles /\ s.written = n.written
  BY <1>3, <1>4, CodedSteps
<1> HIDE DEF s
<1>6. Coded(m, s) /\ s.cycles = m.cycles /\ "result_value" \in s.written
  BY <1>2, <1>5, CodedSteps DEF Result
<1>7. ASSUME NEW k \in Int
      PROVE  /\ Coded(m, Timed(s, k)) /\ Timed(s, k).cycles = m.cycles + k
             /\ "result_value" \in Timed(s, k).written
  BY <1>6, TimedCoded
<1>8. ASSUME NEW r \in Action_ShiftRegister(o, m, extended)
      PROVE  /\ Coded(m, r) /\ "result_value" \in r.written
             /\ \E k \in 1..65 : r.cycles = m.cycles + 2 * k
  <2>1. PICK count \in 0..63 : r = ShiftRotateInstructionExecutionTimeRegister(s, count)
    <3>1. ShiftCounts \subseteq 0..63 /\ o.secondary_register \in 0..7
      BY CountsAssumption DEF Splits
    <3>2. QED
      BY <3>1 DEF Action_ShiftRegister, s
  <2>2. PICK extra \in {0, 1} : r = Timed(s, 2 * (1 + count + extra))
    <3>1. 2 + 2 * count + 2 = 2 * (1 + count + 1) /\ 2 + 2 * count + 0 = 2 * (1 + count + 0)
      OBVIOUS
    <3>2. QED
      BY <2>1, <3>1 DEF ShiftRotateInstructionExecutionTimeRegister
  <2>3. 1 + count + extra \in 1..65 /\ 2 * (1 + count + extra) \in Int
    OBVIOUS
  <2>4. QED
    BY <1>7, <2>2, <2>3
<1>9. QED
  BY <1>7, <1>8 DEF Action_ShiftMemory, s

(***************************************************************************)
(* Actions that jump or use the stack, and may fault.                      *)
(***************************************************************************)

(* m became r, which may be at an address error; a duration is added, or
   replaces what was counted. *)
Left(m, r) ==
  /\ Kept(m, r)
  /\ m.written \subseteq r.written /\ r.stale = m.stale
  /\ r.codes = m.codes /\ r.frames = m.frames /\ r.system = m.system
  /\ r.outcome \in {"running", "fault"}
  /\ r.cycles - m.cycles \in Short \/ r.cycles \in {8, 10, 12, 14, 16, 18, 20, 22, 24}

LEMMA LeftSteps ==
  ASSUME NEW m \in Stuffs, m.outcome = "running"
  PROVE  /\ Left(m, m) /\ Left(m, Ends(m, "fault")) /\ Ends(m, "fault").outcome = "fault"
         /\ \A k \in Short : Left(m, Timed(m, k)) /\ Timed(m, k).outcome = "running"
<1>1. m.cycles \in Int /\ m.cycles - m.cycles = 0 /\ 0 \in Short
  BY DEF Stuffs, Short
<1>2. Left(m, m)
  BY <1>1, QuietSteps DEF Left, Quiet
<1>3. Left(m, Ends(m, "fault")) /\ Ends(m, "fault").outcome = "fault"
  BY <1>1, EndsRunning DEF Left
<1>4. ASSUME NEW k \in Short
      PROVE  Left(m, Timed(m, k)) /\ Timed(m, k).outcome = "running"
  <2>1. k \in Int
    BY DEF Short
  <2>2. Quiet(m, Timed(m, k)) /\ Timed(m, k).cycles = m.cycles + k
    BY <2>1, QuietSteps
  <2>3. (m.cycles + k) - m.cycles = k
    BY <1>1, <2>1
  <2>4. QED
    BY <2>2, <2>3 DEF Left, Quiet
<1>5. QED
  BY <1>2, <1>3, <1>4

LEMMA StackActsLeave ==
  ASSUME NEW m \in Stuffs, m.outcome = "running"
  PROVE  /\ "source_value" \in m.written => \A r \in Action_LINK(m) : Left(m, r)
         /\ \A r \in Action_UNLK(m) : Left(m, r)
         /\ \A r \in Action_RTS(m) : Left(m, r)
<1>1. Ends(m, "fault").outcome = "fault" /\ 8 \in Short /\ 12 \in Short
  BY LeftSteps DEF Short
<1>2. ASSUME "source_value" \in m.written, NEW r \in Action_LINK(m)
      PROVE  Left(m, r)
  <2>1. Reads(m, {"source_value"}) = m
    BY <1>2, QuietSteps
  <2>2. r \in {Ends(m, "fault"), Timed(m, 8)}
    BY <1>1, <1>2, <2>1 DEF Action_LINK, Then, AccessRegister
  <2>3. QED
    BY <1>1, <2>2, LeftSteps
<1>3. ASSUME NEW r \in Action_UNLK(m)
      PROVE  Left(m, r)
  <2>1. r \in {Ends(m, "fault"), Timed(m, 8)}
    BY <1>1, <1>3 DEF Action_UNLK, Then, AccessRegister
  <2>2. QED
    BY <1>1, <2>1, LeftSteps
<1>4. ASSUME NEW r \in Action_RTS(m)
      PROVE  Left(m, r)
  <2>1. PopJump(m) \subseteq {m, Ends(m, "fault")}
    BY <1>1 DEF PopJump, Then, AccessRegister
  <2>2. r \in {Ends(m, "fault"), Timed(m, 12)}
    BY <1>1, <1>4, <2>1 DEF Action_RTS, Then
  <2>3. QED
    BY <1>1, <2>2, LeftSteps
<1>5. QED
  BY <1>2, <1>3, <1>4

LEMMA TookLeaves ==
  ASSUME NEW m \in Stuffs, m.outcome = "running", NEW k \in {8, 10, 12, 14, 16, 18, 20, 22, 24}
  PROVE  /\ Left(m, Took(m, k)) /\ Took(m, k).outcome = "running"
         /\ Left(m, Ends(Took(m, k), "fault")) /\ Ends(Took(m, k), "fault").outcome = "fault"
         /\ k \in {8, 10, 12, 14, 16} => Left(m, Timed(Took(m, k), 8))
<1> DEFINE n == Took(m, k)
<1>1. Quiet(m, n) /\ n.cycles = k
  BY QuietSteps
<1>2. n \in Stuffs /\ n.outcome = "running"
  BY <1>1 DEF Quiet, Kept
<1> HIDE DEF n
<1>3. Left(m, n)
  BY <1>1, <1>2 DEF Quiet, Left
<1>4. /\ Kept(n, Ends(n, "fault")) /\ Ends(n, "fault").outcome = "fault"
      /\ Ends(n, "fault").written = n.written /\ Ends(n, "fault").stale = n.stale
      /\ Ends(n, "fault").codes = n.codes /\ Ends(n, "fault").frames = n.frames
      /\ Ends(n, "fault").system = n.system /\ Ends(n, "fault").cycles = n.cycles
  BY <1>2, EndsRunning
<1>5. Left(m, Ends(n, "fault"))
  BY <1>1, <1>4 DEF Left, Quiet, Kept
<1>6. Quiet(n, Timed(n, 8)) /\ Timed(n, 8).cycles = k + 8
  BY <1>1, <1>2, QuietSteps
<1>7. Quiet(m, Timed(n, 8)) /\ Timed(n, 8).outcome = "running"
  BY <1>1, <1>2, <1>6, QuietIsTransitive DEF Quiet
<1>8. k \in {8, 10, 12, 14, 16} => k + 8 \in {16, 18, 20, 22, 24}
  OBVIOUS
<1>9. k \in {8, 10, 12, 14, 16} => Left(m, Timed(n, 8))
  BY <1>6, <1>7, <1>8 DEF Left, Quiet
<1>10. QED
  BY <1>2, <1>3, <1>4, <1>5, <1>9 DEF n

(* PEA, JMP and JSR. *)
LEMMA AddressActsLeave ==
  ASSUME NEW o, NEW m \in Stuffs, m.outcome = "running", "source_value" \in m.written
  PROVE  /\ \A r \in Action_PEA(o, m) : Left(m, r)
         /\ \A r \in Action_JMP(o, m) : Left(m, r)
         /\ \A r \in Action_JSR(o, m) : Left(m, r)
<1> DEFINE a == 12 + AddressTime(o, 4, 8, 8)
           j == 8 + AddressTime(o, 2, 4, 6)
<1>1. a \in {12, 14, 16, 18, 20} /\ j \in {8, 10, 12, 14, 16}
  <2>1. AddressTime(o, 4, 8, 8) \in {0, 2, 4, 6, 8} /\ AddressTime(o, 2, 4, 6) \in {0, 2, 4, 6, 8}
    BY AddressTimes
  <2>2. QED
    BY <2>1
<1>2. Reads(m, {"source_value"}) = m
  BY QuietSteps
<1>3. Ends(m, "fault").outcome = "fault" /\ Left(m, Ends(m, "fault"))
  BY LeftSteps
<1>4. Action_PEA(o, m) \subseteq {Ends(m, "fault"), Took(m, a)}
  BY <1>2, <1>3 DEF Action_PEA, Then, AccessRegister
<1>5. Action_JMP(o, m) \subseteq {Ends(m, "fault"), Took(m, j)}
  BY <1>2, <1>3 DEF Action_JMP, JumpTo, Access, Then
<1> HIDE DEF a, j
<1>6. \A k \in {8, 10, 12, 14, 16, 18, 20, 22, 24} :
        /\ Left(m, Took(m, k)) /\ Took(m, k).outcome = "running"
        /\ Left(m, Ends(Took(m, k), "fault")) /\ Ends(Took(m, k), "fault").outcome = "fault"
        /\ k \in {8, 10, 12, 14, 16} => Left(m, Timed(Took(m, k), 8))
  BY TookLeaves
<1>7. \A r \in Action_JSR(o, m) :
        r \in {Ends(m, "fault"), Ends(Took(m, j), "fault"), Timed(Took(m, j), 8)}
  <2>1. Took(m, j).outcome = "running" /\ Ends(Took(m, j), "fault").outcome = "fault"
    BY <1>1, <1>6
  <2> DEFINE t == Took(m, j)
             f == Ends(m, "fault")
             g == Ends(t, "fault")
  <2>2. Then(Action_JMP(o, m), AccessRegister) \subseteq {f, g, t}
    BY <1>3, <1>5, <2>1 DEF Then, AccessRegister
  <2>3. QED
    BY <1>3, <2>1, <2>2 DEF Action_JSR, Then
<1>8. QED
  BY <1>1, <1>3, <1>4, <1>5, <1>6, <1>7

LEMMA BranchesLeave ==
  ASSUME NEW o, NEW m \in Stuffs, m.outcome = "running", NEW short \in BOOLEAN,
         ~short => "source_value" \in m.written
  PROVE  /\ \A r \in Branch(o, m, short) : r \in {Ends(m, "fault"), Timed(m, 6), Timed(m, 2)}
         /\ \A r \in Branch(o, m, short) : Left(m, r)
         /\ \A r \in Action_BCC(o, m, short) : Left(m, r)
         /\ \A r \in Action_BSR(o, m, short) : Left(m, r)
<1>1. Ends(m, "fault").outcome = "fault" /\ {2, 4, 6, 8, 10, 14} \subseteq Short
  BY LeftSteps DEF Short
<1>2. Branch(o, m, short) \subseteq {Ends(m, "fault"), Timed(m, 6), Timed(m, 2)}
  <2>1. CASE short
    BY <1>1, <2>1 DEF Branch, Action_BRA_SHORT, JumpTo, Access, Then
  <2>2. CASE ~short
    <3>1. Reads(m, {"source_value"}) = m
      BY <2>2, QuietSteps
    <3>2. QED
      BY <1>1, <2>2, <3>1 DEF Branch, Action_BRA_WORD, AccessRegister, Then
  <2>3. QED
    BY <2>1, <2>2
<1>3. \A r \in Branch(o, m, short) : Left(m, r)
  BY <1>1, <1>2, LeftSteps
<1>4. \A r \in Action_BCC(o, m, short) : Left(m, r)
  <2>1. \A r \in Action_BCC(o, m, short) : r \in Branch(o, m, short) \/ r = Timed(m, 4)
    BY DEF Action_BCC
  <2>2. QED
    BY <1>1, <1>3, <2>1, LeftSteps
<1>5. \A r \in Action_BSR(o, m, short) : Left(m, r)
  <2> DEFINE f == Ends(m, "fault")
             t2 == Timed(m, 2)
             t6 == Timed(m, 6)
             all == Then(AccessRegister(m), LAMBDA n : Branch(o, n, short))
  <2>1. all \subseteq {f, t2, t6}
    BY <1>1, <1>2 DEF AccessRegister, Then
  <2>2. t2.outcome = "running" /\ t6.outcome = "running" /\ f.outcome = "fault"
    BY <1>1, LeftSteps
  <2>3. Action_BSR(o, m, short) \subseteq {f, Timed(t2, 8), Timed(t6, 8)}
    <3> HIDE DEF f, t2, t6
    <3>1. Action_BSR(o, m, short) = Then(all, LAMBDA n : {Timed(n, 8)})
      BY DEF Action_BSR
    <3> HIDE DEF all
    <3>2. QED
      BY <2>1, <2>2, <3>1 DEF Then
  <2>4. ASSUME NEW k \in {2, 6}
        PROVE  Left(m, Timed(Timed(m, k), 8))
    <3> DEFINE t == Timed(m, k)
    <3>1. Quiet(m, t) /\ t.cycles = m.cycles + k /\ t \in Stuffs
      BY QuietSteps DEF Quiet, Kept
    <3> HIDE DEF t
    <3>2. Quiet(t, Timed(t, 8)) /\ Timed(t, 8).cycles = t.cycles + 8
      BY <3>1, QuietSteps
    <3>3. Quiet(m, Timed(t, 8))
      BY <3>1, <3>2, QuietIsTransitive
    <3>4. m.cycles \in Int
      BY DEF Stuffs
    <3>5. Timed(t, 8).cycles - m.cycles \in Short
      BY <3>1, <3>2, <3>4 DEF Short
    <3>6. QED
      BY <3>3, <3>5 DEF Quiet, Left, t
  <2>5. Left(m, f) /\ Left(m, Timed(t2, 8)) /\ Left(m, Timed(t6, 8))
    BY <2>4, LeftSteps
  <2> HIDE DEF f, t2, t6
  <2>6. QED
    BY <2>3, <2>5
<1>6. QED
  BY <1>2, <1>3, <1>4, <1>5

LEMMA LoopsLeave ==
  ASSUME NEW o, NEW m \in Stuffs, m.outcome = "running", "source_value" \in m.written,
         NEW r \in Action_DBCC(o, m)
  PROVE  Left(m, r)
<1>1. \A b \in Branch(o, m, FALSE) : Left(m, b)
  BY BranchesLeave
<1>2. Branch(o, m, FALSE) = Action_BRA_WORD(m)
  BY DEF Branch
<1>3. r \in Action_BRA_WORD(m) \/ r \in {Timed(m, 4), Timed(m, 6)}
  BY DEF Action_DBCC
<1>4. QED
  BY <1>1, <1>2, <1>3, LeftSteps DEF Short

(* A multiple register move, and a multiplication. *)
LEMMA LongActs ==
  ASSUME NEW o, NEW m \in Stuffs, m.outcome = "running", Operands \subseteq m.written
  PROVE  /\ \A r \in Action_MOVEM(o, m) :
              /\ Kept(m, r) /\ m.written \subseteq r.written /\ r.stale = m.stale
              /\ r.codes = m.codes /\ r.frames = m.frames /\ r.system = m.system
              /\ r.outcome \in {"running", "fault"}
              /\ \E n \in 4..80 : r.cycles = 2 * n
         /\ \A r \in Action_MUL(m) :
              /\ Quiet(m, r) /\ "result_value" \in r.written
              /\ \E n \in 17..33 : r.cycles = m.cycles + 2 * n
<1>1. Operands \in SUBSET Fields /\ Result \in SUBSET Fields
  BY DEF Operands, Fields, Result
<1>2. ASSUME NEW r \in Action_MOVEM(o, m)
      PROVE  /\ Kept(m, r) /\ m.written \subseteq r.written /\ r.stale = m.stale
             /\ r.codes = m.codes /\ r.frames = m.frames /\ r.system = m.system
             /\ r.outcome \in {"running", "fault"}
             /\ \E n \in 4..80 : r.cycles = 2 * n
  <2> DEFINE each == IF Bits(o.raw, 6, 1) = 1 THEN 8 ELSE 4
             start == 8 + (IF Bits(o.raw, 10, 1) = 1 THEN 4 ELSE 0) + AddressTime(o, 4, 8, 6)
             n == Took(m, start)
  <2>1. each \in {4, 8} /\ start \in {8, 10, 12, 14, 16, 18, 20}
    <3>1. AddressTime(o, 4, 8, 6) \in {0, 2, 4, 6, 8}
      BY AddressTimes
    <3>2. QED
      BY <3>1
  <2>2. Reads(m, Operands) = m
    BY QuietSteps
  <2>3. PICK count \in BitCounts : r = IF count > 0 /\ m.destination.odd
                                       THEN Ends(Timed(n, each), "fault")
                                       ELSE Timed(n, count * each)
    BY <2>2 DEF Action_MOVEM
  <2>4. count \in 0..16
    BY CountsAssumption
  <2> HIDE DEF start, each
  <2>5. Quiet(m, n) /\ n.cycles = start /\ n \in Stuffs
    <3>1. start \in Int
      BY <2>1
    <3>2. Quiet(m, n) /\ n.cycles = start
      BY <3>1, QuietSteps
    <3>3. QED
      BY <3>2 DEF Quiet, Kept
  <2> HIDE DEF n
  <2>6. PICK k \in 0..16 : r = Ends(Timed(n, k * each), "fault") \/ r = Timed(n, k * each)
    <3>1. 1 * each = each /\ 1 \in 0..16
      BY <2>1
    <3>2. r = Ends(Timed(n, each), "fault") \/ r = Timed(n, count * each)
      BY <2>3
    <3>3. CASE r = Timed(n, count * each)
      BY <2>4, <3>3
    <3>4. CASE r = Ends(Timed(n, each), "fault")
      <4>1. r = Ends(Timed(n, 1 * each), "fault")
        BY <3>1, <3>4
      <4>2. QED
        BY <3>1, <4>1
    <3>5. QED
      BY <3>2, <3>3, <3>4
  <2>7. k * each \in Int /\ \E x \in 4..80 : start + k * each = 2 * x
    <3>1. CASE each = 4
      <4>1. PICK y \in {4, 5, 6, 7, 8, 9, 10} : start = 2 * y
        BY <2>1
      <4>2. y + 2 * k \in 4..80 /\ start + k * 4 = 2 * (y + 2 * k)
        BY <4>1
      <4>3. QED
        BY <3>1, <4>2
    <3>2. CASE each = 8
      <4>1. PICK y \in {4, 5, 6, 7, 8, 9, 10} : start = 2 * y
        BY <2>1
      <4>2. y + 4 * k \in 4..80 /\ start + k * 8 = 2 * (y + 4 * k)
        BY <4>1
      <4>3. QED
        BY <3>2, <4>2
    <3>3. QED
      BY <2>1, <3>1, <3>2
  <2> DEFINE t == Timed(n, k * each)
  <2>8. Quiet(m, t) /\ t.cycles = start + k * each /\ t \in Stuffs
    <3>1. Quiet(n, t) /\ t.cycles = n.cycles + k * each
      BY <2>5, <2>7, QuietSteps
    <3>2. QED
      BY <2>5, <3>1, QuietIsTransitive DEF Quiet, Kept
  <2> HIDE DEF t
  <2>9. /\ Kept(t, Ends(t, "fault")) /\ Ends(t, "fault").outcome = "fault"
        /\ Ends(t, "fault").written = t.written /\ Ends(t, "fault").stale = t.stale
        /\ Ends(t, "fault").codes = t.codes /\ Ends(t, "fault").frames = t.frames
        /\ Ends(t, "fault").system = t.system /\ Ends(t, "fault").cycles = t.cycles
    BY <2>8, EndsRunning
  <2>10. r = Ends(t, "fault") \/ r = t
    BY <2>6 DEF t
  <2>11. QED
    BY <2>7, <2>8, <2>9, <2>10 DEF Quiet, Kept
<1>3. ASSUME NEW r \in Action_MUL(m)
      PROVE  /\ Quiet(m, r) /\ "result_value" \in r.written
             /\ \E n \in 17..33 : r.cycles = m.cycles + 2 * n
  <2> DEFINE n == Computes(m, Operands, Result)
  <2>1. PICK count \in 0..16 : r = Timed(n, 34 + 2 * count)
    BY CountsAssumption DEF Action_MUL
  <2>2. Answers(m, n) /\ n.cycles = m.cycles /\ n \in Stuffs
    BY <1>1, ComputesAnswers
  <2>3. 34 + 2 * count \in Int /\ 17 + count \in 17..33 /\ 34 + 2 * count = 2 * (17 + count)
    OBVIOUS
  <2> HIDE DEF n
  <2>4. Quiet(n, r) /\ r.cycles = n.cycles + (34 + 2 * count)
    BY <2>1, <2>2, <2>3, QuietSteps
  <2>5. \E x \in 17..33 : r.cycles = m.cycles + 2 * x
    BY <2>2, <2>3, <2>4
  <2>6. QED
    BY <2>2, <2>4, <2>5, QuietIsTransitive DEF Answers, Quiet
<1>4. QED
  BY <1>2, <1>3

(***************************************************************************)
(* Actions that push a frame.                                              *)
(***************************************************************************)

(* m became r, which took n cycles and may have pushed a frame with the
   condition codes it ended with. *)
Interrupted(m, r, n) ==
  /\ Kept(m, r)
  /\ m.written \subseteq r.written /\ r.stale = m.stale /\ r.system = m.system
  /\ \/ r.outcome = "halted" /\ r.frames = <<>> /\ r.cycles = m.cycles + n
     \/ /\ r.outcome \in {"running", "exception"}
        /\ \/ r.frames = <<>> /\ r.cycles = m.cycles + n
           \/ /\ Len(r.frames) = 1 /\ r.frames[1] = r.codes
              /\ r.cycles = m.cycles + n + 30

LEMMA InterruptInterrupts ==
  ASSUME NEW m \in Stuffs, NEW n, Coded(m, n), n.cycles = m.cycles,
         m.frames = <<>>, m.outcome = "running", NEW r \in DoInterrupt(n)
  PROVE  /\ Interrupted(m, r, 0) /\ r.codes = n.codes /\ r.written = n.written
         /\ r.outcome \in {"running", "halted"}
<1>1. n \in Stuffs /\ n.frames = <<>> /\ m.cycles \in Int /\ n.outcome = "running"
  BY DEF Coded, Kept, Stuffs
<1>2. m.cycles + 0 = m.cycles /\ (m.cycles + 0) + 30 = m.cycles + 30
  BY <1>1
<1>3. /\ Kept(n, r)
      /\ r.written = n.written /\ r.stale = n.stale /\ r.codes = n.codes
      /\ r.system = n.system
      /\ \/ r.outcome = "halted" /\ r.frames = <<>> /\ r.cycles = n.cycles
         \/ /\ r.outcome = n.outcome /\ r.cycles = n.cycles + 30
            /\ Len(r.frames) = 1 /\ r.frames[1] = n.codes
  BY <1>1, InterruptPushesCodes
<1>4. QED
  BY <1>1, <1>2, <1>3 DEF Interrupted, Coded, Kept

(* Illegal and unimplemented instructions, privilege violations. *)
LEMMA ExceptionActs ==
  ASSUME NEW m \in Stuffs, m.frames = <<>>, m.outcome = "running",
         NEW r \in Group1Or2Exception(m)
  PROVE  Interrupted(m, r, 0) /\ r.codes = m.codes /\ r.outcome \in {"exception", "halted"}
<1>1. Coded(m, m)
  BY QuietSteps, CodedSteps
<1>2. \A e \in DoInterrupt(m) :
        /\ Interrupted(m, e, 0) /\ e.codes = m.codes /\ e.written = m.written
        /\ e.outcome \in {"running", "halted"}
  BY <1>1, InterruptInterrupts
<1>3. PICK e \in DoInterrupt(m) : r = IF e.outcome = "running" THEN Ends(e, "exception") ELSE e
  BY DEF Group1Or2Exception, Then
<1>4. CASE e.outcome = "running"
  <2>1. e \in Stuffs
    BY <1>2 DEF Interrupted, Kept
  <2>2. /\ Kept(e, r) /\ r.outcome = "exception"
        /\ r.written = e.written /\ r.stale = e.stale
        /\ r.codes = e.codes /\ r.frames = e.frames
        /\ r.system = e.system /\ r.cycles = e.cycles
    BY <1>3, <1>4, <2>1, EndsRunning
  <2>3. QED
    BY <1>2, <1>4, <2>2 DEF Interrupted, Kept
<1>5. CASE e.outcome # "running"
  BY <1>2, <1>3, <1>5
<1>6. QED
  BY <1>4, <1>5

(* TRAP and TRAPV: microcode goes on, there is none left. *)
LEMMA TrapActs ==
  ASSUME NEW m \in Stuffs, m.frames = <<>>, m.outcome = "running",
         NEW r \in Action_TRAP(m) \cup Action_TRAPV(m)
  PROVE  Interrupted(m, r, 0) /\ r.codes = m.codes /\ r.outcome \in {"running", "halted"}
<1>1. {"source_value"} \in SUBSET Fields
  BY DEF Fields
<1>2. /\ Quiet(m, Writes(m, {"source_value"})) /\ Quiet(m, m)
      /\ Writes(m, {"source_value"}).cycles = m.cycles
  BY <1>1, QuietSteps
<1>3. PICK n \in {m, Writes(m, {"source_value"})} : r = m \/ r \in DoInterrupt(n)
  BY DEF Action_TRAP, Action_TRAPV
<1>4. Coded(m, n) /\ n.codes = m.codes /\ n.cycles = m.cycles
  BY <1>2, CodedSteps DEF Quiet
<1>5. CASE r = m
  <2>1. m.cycles + 0 = m.cycles
    BY DEF Stuffs
  <2>2. QED
    BY <1>2, <1>5, <2>1 DEF Interrupted, Quiet
<1>6. CASE r \in DoInterrupt(n)
  BY <1>4, <1>6, InterruptInterrupts
<1>7. QED
  BY <1>3, <1>5, <1>6

LEMMA InterruptedTakesLonger ==
  ASSUME NEW m \in Stuffs, NEW e, Interrupted(m, e, 0), e.outcome = "running", NEW k \in Int
  PROVE  Interrupted(m, Timed(e, k), k) /\ Timed(e, k).codes = e.codes
         /\ Timed(e, k).outcome = "running" /\ Timed(e, k).frames = e.frames
<1>1. e \in Stuffs /\ m.cycles \in Int
  BY DEF Interrupted, Kept, Stuffs
<1>2. Quiet(e, Timed(e, k)) /\ Timed(e, k).cycles = e.cycles + k
  BY <1>1, QuietSteps
<1>3. /\ (m.cycles + 0) + k = m.cycles + k
      /\ ((m.cycles + 0) + 30) + k = (m.cycles + k) + 30
  BY <1>1
<1>4. QED
  BY <1>2, <1>3 DEF Interrupted, Quiet, Kept

LEMMA CheckActs ==
  ASSUME NEW m \in Stuffs, m.frames = <<>>, m.outcome = "running",
         "source_value" \in m.written, NEW r \in Action_CHK(m)
  PROVE  \/ Interrupted(m, r, 6) /\ r.outcome = "running"
         \/ Interrupted(m, r, 0) /\ r.outcome = "halted"
<1> DEFINE n == Sets(m, {"C", "V", "Z", "N"}, "clear")
           s == Sets(n, {"N"}, "set")
<1>1. Coded(m, n) /\ n.cycles = m.cycles /\ n.written = m.written
  BY CodedSteps
<1>2. n \in Stuffs
  BY <1>1 DEF Coded, Kept
<1>3. Reads(n, {"source_value"}) = n
  BY <1>1, <1>2, QuietSteps
<1> HIDE DEF n
<1>4. Coded(n, s) /\ s.cycles = n.cycles
  BY <1>2, CodedSteps
<1>5. Coded(m, s) /\ s.cycles = m.cycles
  BY <1>1, <1>4, CodedSteps
<1> HIDE DEF s
<1>6. PICK e \in {n} \cup DoInterrupt(n) \cup DoInterrupt(s) :
        r = IF e.outcome = "running" THEN Timed(e, 6) ELSE e
  BY <1>3 DEF Action_CHK, Then, n, s
<1>7. Interrupted(m, e, 0) /\ e.outcome \in {"running", "halted"}
  <2>1. CASE e = n
    <3>1. n.cycles = m.cycles + 0 /\ n.frames = <<>> /\ n.outcome = "running"
      BY <1>1, <1>2 DEF Coded, Stuffs
    <3>2. QED
      BY <1>1, <2>1, <3>1 DEF Coded, Interrupted
  <2>2. CASE e \in DoInterrupt(n)
    BY <1>1, <2>2, InterruptInterrupts
  <2>3. CASE e \in DoInterrupt(s)
    BY <1>5, <2>3, InterruptInterrupts
  <2>4. QED
    BY <2>1, <2>2, <2>3
<1>8. QED
  BY <1>6, <1>7, InterruptedTakesLonger

(* A division clears the carry, by zero or not. *)
LEMMA DivisionActs ==
  ASSUME NEW m \in Stuffs, m.frames = <<>>, m.outcome = "running",
         Operands \subseteq m.written, NEW is_signed \in BOOLEAN,
         NEW r \in Action_DIV(m, is_signed)
  PROVE  /\ r.outcome \in {"running", "halted"} /\ r.codes["C"] = "clear"
         /\ "result_value" \in r.written
         /\ \E n \in 0..76 : Interrupted(m, r, 2 * n) /\ (~is_signed => n <= 66)
<1> DEFINE c        == Computes(m, Operands, Result)
           n        == Sets(c, {"C"}, "clear")
           by_zero  == Sets(n, {"N", "Z", "V"}, "clear")
           over     == Sets(n, {"V", "N"}, "set")
           overflow == Sets(over, {"Z"}, "clear")
           fit      == Sets(n, {"N", "Z"}, "computed")
           fits     == Sets(fit, {"V"}, "clear")
<1>1. Operands \in SUBSET Fields /\ Result \in SUBSET Fields
  BY DEF Operands, Fields, Result
<1>2. Coded(m, c) /\ c.cycles = m.cycles /\ "result_value" \in c.written
  BY <1>1, QuietSteps, CodedSteps, ComputesCoded DEF Result
<1> DEFINE Good(x) == /\ Coded(m, x) /\ x.cycles = m.cycles /\ "result_value" \in x.written
                      /\ x.codes["C"] = "clear"
<1>3. Good(n)
  <2> HIDE DEF c
  <2>1. c \in Stuffs
    BY <1>2 DEF Coded, Kept
  <2>2. /\ Coded(c, n) /\ n.cycles = c.cycles /\ n.written = c.written
        /\ n.codes["C"] = "clear"
    BY <2>1, CodedSteps, SetsCodes DEF ConditionCodes
  <2>3. QED
    BY <1>2, <2>2, CodedSteps
<1>4. ASSUME NEW x, Good(x), NEW codes \in SUBSET {"N", "Z", "V"},
             NEW how \in {"clear", "set", "computed"}
      PROVE  Good(Sets(x, codes, how))
  <2>1. x \in Stuffs
    BY <1>4 DEF Coded, Kept
  <2>2. /\ Coded(x, Sets(x, codes, how)) /\ Sets(x, codes, how).cycles = x.cycles
        /\ Sets(x, codes, how).written = x.written
    BY <2>1, CodedSteps
  <2>3. Sets(x, codes, how).codes["C"] = x.codes["C"]
    <3>1. "C" \in ConditionCodes /\ "C" \notin codes
      BY DEF ConditionCodes
    <3>2. QED
      BY <2>1, <3>1, SetsCodes
  <2>4. QED
    BY <1>4, <2>2, <2>3, CodedSteps
<1> HIDE DEF Good, n
<1>5. Good(by_zero)
  BY <1>3, <1>4
<1>6. Good(over) /\ Good(fit)
  BY <1>3, <1>4
<1>7. Good(overflow) /\ Good(fits)
  <2> HIDE DEF over, fit
  <2>1. QED
    BY <1>6, <1>4
<1> HIDE DEF by_zero, over, overflow, fit, fits
<1>8. CASE r \in DoInterrupt(by_zero)
  <2>1. /\ Interrupted(m, r, 0) /\ r.codes = by_zero.codes /\ r.written = by_zero.written
        /\ r.outcome \in {"running", "halted"}
    BY <1>5, <1>8, InterruptInterrupts DEF Good
  <2>2. 0 \in 0..76 /\ 2 * 0 = 0 /\ 0 <= 66
    OBVIOUS
  <2>3. QED
    BY <1>5, <2>1, <2>2 DEF Good
<1>9. CASE \E x \in {overflow, fits} : \E k \in 0..76 :
             r = Timed(x, 2 * k) /\ (~is_signed => k <= 66)
  <2>1. PICK x \in {overflow, fits}, k \in 0..76 :
          r = Timed(x, 2 * k) /\ (~is_signed => k <= 66)
    BY <1>9
  <2>2. Good(x)
    BY <1>7
  <2>3. x \in Stuffs /\ 2 * k \in Int
    BY <2>2 DEF Good, Coded, Kept
  <2>4. /\ Quiet(x, r) /\ r.cycles = x.cycles + 2 * k /\ r.written = x.written
    BY <2>1, <2>3, QuietSteps
  <2>5. Interrupted(m, r, 2 * k) /\ r.outcome = "running"
    BY <2>2, <2>4 DEF Interrupted, Good, Coded, Quiet, Kept
  <2>6. QED
    BY <2>1, <2>2, <2>4, <2>5 DEF Good, Quiet
<1>10. \/ r \in DoInterrupt(by_zero)
       \/ \E x \in {overflow, fits} : \E k \in 0..76 :
             r = Timed(x, 2 * k) /\ (~is_signed => k <= 66)
  <2> DEFINE bits     == BitCounts \ {16}
             prepared == IF is_signed THEN {6 + 6, 6 + 8} ELSE {6}
             divided  == IF is_signed
                         THEN {12 + 104 + 2 * b + s : b \in bits, s \in {0, 2}}
                                \cup {14 + 104 + 2 * b + s : b \in bits, s \in {2, 4}}
                         ELSE {6 + 66 + 2 * (a + b) : a \in bits, b \in bits}
             Fine(t)  == \E k \in 0..76 : t = 2 * k /\ (~is_signed => k <= 66)
  <2>1. bits \subseteq 0..15
    BY CountsAssumption
  <2>2. \A t \in prepared : Fine(t)
    <3>1. /\ 6 + 6 = 2 * 6 /\ 6 + 8 = 2 * 7 /\ 6 = 2 * 3
          /\ 6 \in 0..76 /\ 7 \in 0..76 /\ 3 \in 0..76 /\ 3 <= 66
      OBVIOUS
    <3>2. QED
      BY <3>1
  <2>3. \A t \in divided : Fine(t)
    <3> HIDE DEF bits
    <3>1. ASSUME is_signed, NEW t \in divided
          PROVE  Fine(t)
      <4>1. PICK b \in bits, s \in {0, 1, 2, 3} : t = 12 + 104 + 2 * b + 2 * s
        <5>1. \/ \E b \in bits : \E s \in {0, 2} : t = 12 + 104 + 2 * b + s
              \/ \E b \in bits : \E s \in {2, 4} : t = 14 + 104 + 2 * b + s
          BY <3>1
        <5>2. bits \subseteq Int
          BY <2>1
        <5>3. QED
          BY <5>1, <5>2
      <4>2. b \in 0..15
        BY <2>1
      <4>3. t = 2 * (58 + b + s) /\ 58 + b + s \in 0..76
        BY <4>1, <4>2
      <4> HIDE DEF divided
      <4>4. QED
        BY <3>1, <4>3
    <3>2. ASSUME ~is_signed, NEW t \in divided
          PROVE  Fine(t)
      <4>1. PICK a \in bits, b \in bits : t = 6 + 66 + 2 * (a + b)
        BY <3>2
      <4>2. a \in 0..15 /\ b \in 0..15
        BY <2>1
      <4> DEFINE k == 36 + a + b
      <4>3. t = 2 * k /\ k \in 0..76 /\ k <= 66
        BY <4>1, <4>2
      <4> HIDE DEF divided, k
      <4>4. QED
        BY <4>3
    <3> HIDE DEF divided, Fine
    <3>3. QED
      BY <3>1, <3>2
  <2>4. \/ r \in DoInterrupt(by_zero)
        \/ \E x \in {overflow, fits} : \E t \in prepared \cup divided : r = Timed(x, t)
    <3> HIDE DEF prepared, divided
    <3>1. r \in DoInterrupt(by_zero)
                 \cup {Timed(overflow, t) : t \in prepared \cup IF is_signed THEN divided ELSE {}}
                 \cup {Timed(fits, t) : t \in divided}
      BY DEF Action_DIV, by_zero, over, overflow, fit, fits, n, prepared, divided
    <3>2. QED
      BY <3>1
  <2> HIDE DEF bits, prepared, divided
  <2>5. QED
    BY <2>2, <2>3, <2>4
<1>11. QED
  BY <1>8, <1>9, <1>10

(***************************************************************************)
(* Actions on the system state.                                            *)
(***************************************************************************)

LEMMA StatusRegisterSet ==
  ASSUME NEW m \in Stuffs
  PROVE  /\ Kept(m, SetStatusRegister(m)) /\ SetStatusRegister(m).written = m.written
         /\ SetStatusRegister(m).stale = m.stale /\ SetStatusRegister(m).frames = m.frames
         /\ SetStatusRegister(m).outcome = m.outcome /\ SetStatusRegister(m).cycles = m.cycles
<1> DEFINE n == Sets(m, ConditionCodes, "computed")
           system == n.system \cup {"status_register"}
<1>1. /\ Kept(m, n) /\ n.written = m.written /\ n.stale = m.stale
      /\ n.frames = m.frames /\ n.system = m.system
      /\ n.outcome = m.outcome /\ n.cycles = m.cycles
  BY SetsCodes
<1>2. n \in Stuffs
  BY <1>1 DEF Kept
<1>3. SetStatusRegister(m) = [n EXCEPT !.system = system]
  BY DEF SetStatusRegister
<1> HIDE DEF n
<1>4. system \in SUBSET {"status_register", "user_stack_pointer", "stopped"}
  BY <1>2 DEF Stuffs
<1> HIDE DEF system
<1>5. QED
  BY <1>1, <1>2, <1>3, <1>4 DEF Kept, Stuffs

(* MOVE_USP and STOP. *)
LEMMA SystemActs ==
  ASSUME NEW m \in Stuffs
  PROVE  /\ Kept(m, Action_MOVE_USP(m)) /\ Action_MOVE_USP(m).written = m.written
         /\ Action_MOVE_USP(m).stale = m.stale /\ Action_MOVE_USP(m).frames = m.frames
         /\ Action_MOVE_USP(m).codes = m.codes
         /\ Action_MOVE_USP(m).outcome = m.outcome /\ Action_MOVE_USP(m).cycles = m.cycles
         /\ "source_value" \in m.written =>
              /\ Kept(m, Action_STOP(m)) /\ Action_STOP(m).written = m.written
              /\ Action_STOP(m).stale = m.stale /\ Action_STOP(m).frames = m.frames
              /\ Action_STOP(m).outcome = m.outcome /\ Action_STOP(m).cycles = m.cycles - 4
<1>1. ASSUME NEW n \in Stuffs, NEW name \in {"user_stack_pointer", "stopped"}, NEW r,
             r = [n EXCEPT !.system = n.system \cup {name}]
      PROVE  /\ Kept(n, r) /\ r.written = n.written /\ r.stale = n.stale
             /\ r.frames = n.frames /\ r.codes = n.codes
             /\ r.outcome = n.outcome /\ r.cycles = n.cycles
  <2> DEFINE system == n.system \cup {name}
  <2>1. system \in SUBSET {"status_register", "user_stack_pointer", "stopped"}
    BY DEF Stuffs
  <2>2. r = [n EXCEPT !.system = system]
    BY <1>1
  <2> HIDE DEF system
  <2>3. QED
    BY <2>1, <2>2 DEF Kept, Stuffs
<1>2. Action_MOVE_USP(m) = [m EXCEPT !.system = m.system \cup {"user_stack_pointer"}]
  BY DEF Action_MOVE_USP
<1>3. ASSUME "source_value" \in m.written
      PROVE  /\ Kept(m, Action_STOP(m)) /\ Action_STOP(m).written = m.written
             /\ Action_STOP(m).stale = m.stale /\ Action_STOP(m).frames = m.frames
             /\ Action_STOP(m).outcome = m.outcome /\ Action_STOP(m).cycles = m.cycles - 4
  <2> DEFINE s == SetStatusRegister(m)
             t == Timed(s, -4)
  <2>1. Reads(m, {"source_value"}) = m
    BY <1>3, QuietSteps
  <2>2. /\ Kept(m, s) /\ s.written = m.written /\ s.stale = m.stale
        /\ s.frames = m.frames /\ s.outcome = m.outcome /\ s.cycles = m.cycles
    BY StatusRegisterSet
  <2>3. s \in Stuffs /\ m.cycles \in Int
    BY <2>2 DEF Kept, Stuffs
  <2>4. Action_STOP(m) = [t EXCEPT !.system = t.system \cup {"stopped"}]
    BY <2>1 DEF Action_STOP
  <2> HIDE DEF s
  <2>5. /\ Quiet(s, t) /\ t.written = s.written /\ t.cycles = s.cycles + (-4)
    BY <2>3, QuietSteps
  <2>6. t \in Stuffs
    BY <2>5 DEF Quiet, Kept
  <2> HIDE DEF t
  <2>7. /\ Kept(t, Action_STOP(m)) /\ Action_STOP(m).written = t.written
        /\ Action_STOP(m).stale = t.stale /\ Action_STOP(m).frames = t.frames
        /\ Action_STOP(m).outcome = t.outcome /\ Action_STOP(m).cycles = t.cycles
    BY <1>1, <2>4, <2>6
  <2>8. QED
    BY <2>2, <2>3, <2>5, <2>7 DEF Quiet, Kept
<1>4. QED
  BY <1>1, <1>2, <1>3

(* RTE and RTR: the codes are loaded before the target is looked at. *)
LEMMA ReturnActs ==
  ASSUME NEW m \in Stuffs, m.outcome = "running"
  PROVE  /\ \A r \in Action_RTE(m) \cup Action_RTR(m) :
              /\ Kept(m, r) /\ r.written = m.written /\ r.stale = m.stale /\ r.frames = m.frames
              /\ r.outcome \in {"running", "fault"}
              /\ r.cycles \in {m.cycles, m.cycles + 16}
         /\ \A r \in Action_RTR(m) : r.system = m.system
<1> DEFINE s == SetStatusRegister(m)
           c == Sets(m, ConditionCodes, "computed")
           f == Ends(m, "fault")
<1>1. /\ Kept(m, s) /\ s.written = m.written /\ s.stale = m.stale
      /\ s.frames = m.frames /\ s.outcome = m.outcome /\ s.cycles = m.cycles
  BY StatusRegisterSet
<1>2. /\ Kept(m, c) /\ c.written = m.written /\ c.stale = m.stale
      /\ c.frames = m.frames /\ c.system = m.system
      /\ c.outcome = m.outcome /\ c.cycles = m.cycles
  BY SetsCodes
<1>3. s \in Stuffs /\ c \in Stuffs
  BY <1>1, <1>2 DEF Kept
<1>4. \A n \in Stuffs : Ends(n, "fault").outcome = "fault"
  BY EndsRunning
<1>5. Action_RTE(m) \subseteq {f, Ends(s, "fault"), Timed(s, 16)}
  <2> DEFINE first == Then(AccessRegister(m), LAMBDA n : {SetStatusRegister(n)})
             second == Then(first, AccessRegister)
  <2>1. first \subseteq {f, s}
    BY <1>4 DEF Then, AccessRegister
  <2> HIDE DEF first
  <2>2. f.outcome = "fault" /\ Ends(s, "fault").outcome = "fault"
    BY <1>3, <1>4
  <2> HIDE DEF f, s
  <2>3. second \subseteq {f, s, Ends(s, "fault")}
    BY <2>1, <2>2 DEF Then, AccessRegister
  <2>4. Action_RTE(m) = Then(second, LAMBDA n : {Timed(n, 16)})
    BY DEF Action_RTE, first
  <2> HIDE DEF second
  <2>5. s.outcome = "running"
    BY <1>1
  <2>6. QED
    BY <2>2, <2>3, <2>4, <2>5 DEF Then
<1>6. Action_RTR(m) \subseteq {Ends(c, "fault"), Timed(c, 16)}
  <2> HIDE DEF c
  <2>1. c.outcome = "running" /\ Ends(c, "fault").outcome = "fault"
    BY <1>2, <1>3, <1>4
  <2>2. PopJump(c) \subseteq {c, Ends(c, "fault")}
    BY <2>1 DEF PopJump, Then, AccessRegister
  <2>3. Action_RTR(m) = Then(PopJump(c), LAMBDA n : {Timed(n, 16)})
    BY DEF Action_RTR, c
  <2>4. QED
    BY <2>1, <2>2, <2>3 DEF Then
<1> HIDE DEF s, c
<1>7. ASSUME NEW n \in Stuffs, Kept(m, n), n.written = m.written, n.stale = m.stale,
             n.frames = m.frames, n.outcome = "running", n.cycles = m.cycles,
             NEW r \in {Ends(n, "fault"), Timed(n, 16)}
      PROVE  /\ Kept(m, r) /\ r.written = m.written /\ r.stale = m.stale /\ r.frames = m.frames
             /\ r.outcome \in {"running", "fault"} /\ r.system = n.system
             /\ r.cycles \in {m.cycles, m.cycles + 16}
  <2>1. CASE r = Ends(n, "fault")
    <3>1. /\ Kept(n, r) /\ r.outcome = "fault" /\ r.written = n.written /\ r.stale = n.stale
          /\ r.frames = n.frames /\ r.system = n.system /\ r.cycles = n.cycles
      BY <2>1, EndsRunning
    <3>2. QED
      BY <1>7, <3>1 DEF Kept
  <2>2. CASE r = Timed(n, 16)
    <3>1. Quiet(n, r) /\ r.cycles = n.cycles + 16 /\ r.written = n.written
      BY <2>2, QuietSteps
    <3>2. QED
      BY <1>7, <3>1 DEF Kept, Quiet
  <2>3. QED
    BY <2>1, <2>2
<1>8. Kept(m, m)
  BY DEF Kept
<1>9. QED
  BY <1>1, <1>2, <1>3, <1>5, <1>6, <1>7, <1>8

(***************************************************************************)
(* The tables: what the actions rely on.                                   *)
(***************************************************************************)

(* The actions that read the source, the destination, the size. *)
TakesSource ==
  {"OR", "AND", "EOR", "ADD", "SUB", "ADDA", "SUBA", "CMP", "CMPA", "CMPM", "CMPI", "BTST",
   "BCHG", "BCLR", "BSET", "MOVEA", "MOVE", "LINK", "PEA", "STOP", "JMP", "JSR", "LEA", "TST",
   "MOVEM", "CHK", "DBCC", "BRA_WORD", "BSR_WORD", "BCC_WORD", "DIVS", "DIVU", "MULS", "MULU",
   "ADDX", "SUBX", "SBCD", "ABCD"}

TakesDestination ==
  {"OR", "AND", "EOR", "ADD", "SUB", "ADDA", "SUBA", "ADDQ", "SUBQ", "CMP", "CMPA", "CMPM",
   "CMPI", "BTST", "BCHG", "BCLR", "BSET", "MOVEP", "NEGX", "NEG", "NOT", "EXT", "SWAP", "TAS",
   "MOVEM", "DIVS", "DIVU", "MULS", "MULU", "ADDX", "SUBX", "SBCD", "ABCD", "NBCD", "CLR", "SCC",
   "ASD_MEMORY", "LSD_MEMORY", "ROXD_MEMORY", "ROD_MEMORY",
   "ASD_REGISTER", "LSD_REGISTER", "ROXD_REGISTER", "ROD_REGISTER"}

TakesSize ==
  {"OR", "AND", "EOR", "ADD", "SUB", "ADDA", "SUBA", "ADDQ", "SUBQ", "CMP", "CMPA", "CMPI",
   "BTST", "BCHG", "BCLR", "BSET", "MOVEA", "NEGX", "NEG", "NOT", "CLR", "ADDX", "SUBX", "ABCD",
   "ASD_MEMORY", "LSD_MEMORY", "ROXD_MEMORY", "ROD_MEMORY",
   "ASD_REGISTER", "LSD_REGISTER", "ROXD_REGISTER", "ROD_REGISTER"}

(* The actions that leave no result. *)
NoResult ==
  {"LINK", "UNLK", "PEA", "ILLEGAL", "UNIMPLEMENTED_1", "UNIMPLEMENTED_2", "TRAP", "TRAPV",
   "RTE", "RTS", "RTR", "JMP", "JSR", "MOVEM", "CHK", "DBCC", "BRA_SHORT", "BRA_WORD",
   "BSR_SHORT", "BSR_WORD", "BCC_SHORT", "BCC_WORD", "MOVE_USP", "RESET", "STOP", "EXG",
   "NOP", "MOVEP", "BTST"}

(* The fields of Stuff that the modifiers of an instruction read. *)
Needs(i) ==
  ModifierReads(GetCarryModifier(i)) \cup ModifierReads(GetOverflowModifier(i))
    \cup ModifierReads(GetZeroModifier(i)) \cup ModifierReads(GetNegativeModifier(i))
    \cup ModifierReads(GetExtendModifier(i))

NoModifiers(i) ==
  {GetCarryModifier(i), GetOverflowModifier(i), GetZeroModifier(i), GetNegativeModifier(i),
   GetExtendModifier(i)} \subseteq Unmodified

LEMMA ActionOperands ==
  ASSUME NEW i \in Names
  PROVE  /\ GetAction(i) \in TakesSource =>
              IsSourceOperandRead(i) /\ (i # "MOVE_FROM_SR" => GetSourceOperand(i) # "status_register")
         /\ GetAction(i) \in TakesDestination => IsDestinationOperandRead(i)
         /\ GetAction(i) = "MOVE" => IsDestinationOperandWritten(i)
         /\ GetAction(i) \in TakesSize => GetSize(i) # "none"
         /\ GetAction(i) \in {"ADDQ", "SUBQ"} => ~IsSourceOperandRead(i)
<1>1. GetAction(i) \in TakesSource =>
        IsSourceOperandRead(i) /\ (i # "MOVE_FROM_SR" => GetSourceOperand(i) # "status_register")
  BY DEF GetAction, TakesSource, IsSourceOperandRead, GetSourceOperand, Names
<1>2. GetAction(i) \in TakesDestination => IsDestinationOperandRead(i)
  BY DEF GetAction, TakesDestination, IsDestinationOperandRead, NoDestination, WrittenOnly, Names
<1>3. GetAction(i) = "MOVE" => IsDestinationOperandWritten(i)
  BY DEF GetAction, IsDestinationOperandWritten, NoDestination, ReadOnly, Names
<1>4. GetAction(i) \in TakesSize => GetSize(i) # "none"
  BY DEF GetAction, TakesSize, GetSize, Names
<1>5. GetAction(i) \in {"ADDQ", "SUBQ"} => ~IsSourceOperandRead(i)
  BY DEF GetAction, IsSourceOperandRead, Names
<1>6. QED
  BY <1>1, <1>2, <1>3, <1>4, <1>5

LEMMA ActionResults ==
  ASSUME NEW i \in Names
  PROVE  /\ GetAction(i) \in NoResult => ~IsDestinationOperandWritten(i) /\ Needs(i) = {}
         /\ GetAction(i) \in NoResult \ {"BTST"} => NoModifiers(i)
         /\ Needs(i) \subseteq {"source_value", "destination_value", "result_value", "msb_bit_index"}
         /\ "source_value" \in Needs(i) => IsSourceOperandRead(i) \/ GetAction(i) \in {"ADDQ", "SUBQ", "NBCD"}
         /\ "destination_value" \in Needs(i) => IsDestinationOperandRead(i)
         /\ Needs(i) # {} => GetSize(i) # "none"
<1>1. GetAction(i) \in NoResult => ~IsDestinationOperandWritten(i)
  BY DEF GetAction, NoResult, IsDestinationOperandWritten, NoDestination, ReadOnly, Names
<1>2. GetAction(i) \in NoResult => NoModifiers(i)
  BY DEF GetAction, NoResult, NoModifiers, Unmodified, GetCarryModifier, GetOverflowModifier,
         GetZeroModifier, GetNegativeModifier, GetExtendModifier, Names
<1>3. NoModifiers(i) => Needs(i) = {}
  BY DEF NoModifiers, Unmodified, Needs, ModifierReads
<1>4. Needs(i) \subseteq {"source_value", "destination_value", "result_value", "msb_bit_index"}
  BY DEF Needs, ModifierReads
<1>5. "source_value" \in Needs(i) => IsSourceOperandRead(i) \/ GetAction(i) \in {"ADDQ", "SUBQ", "NBCD"}
  BY DEF GetAction, IsSourceOperandRead, Needs, ModifierReads, GetCarryModifier, GetOverflowModifier,
         GetZeroModifier, GetNegativeModifier, GetExtendModifier, Names
<1>6. "destination_value" \in Needs(i) => IsDestinationOperandRead(i)
  BY DEF GetAction, IsDestinationOperandRead, NoDestination, WrittenOnly, Needs, ModifierReads,
         GetCarryModifier, GetOverflowModifier,
         GetZeroModifier, GetNegativeModifier, GetExtendModifier, Names
<1>7. Needs(i) # {} => GetSize(i) # "none"
  BY DEF GetSize, Needs, ModifierReads, GetCarryModifier, GetOverflowModifier,
         GetZeroModifier, GetNegativeModifier, GetExtendModifier, Names
<1>8. QED
  BY <1>1, <1>2, <1>3, <1>4, <1>5, <1>6, <1>7

(***************************************************************************)
(* What every action does, from what the steps before it have done.        *)
(***************************************************************************)

Ready(o, i, m) ==
  /\ m \in Stuffs /\ m.outcome = "running" /\ m.stale = {} /\ m.frames = <<>>
  /\ m.codes = Start.codes /\ m.system = {}
  /\ GetSize(i) # "none" => {"operation_size", "msb_bit_index"} \subseteq m.written
  /\ ~IsSourceOperandRead(i) => "source_mode" \notin m.written
  /\ IsSourceOperandRead(i) => {"source_mode", "source_value"} \subseteq m.written
  /\ IsSourceOperandRead(i) =>
       m.source.type \in IF GetSourceOperand(i) = "status_register" THEN {"status_register"}
                         ELSE {"register", "memory"}
  /\ IsDestinationOperandRead(i) => {"destination_mode", "destination_value"} \subseteq m.written
  /\ IsDestinationOperandWritten(i) => "destination_mode" \in m.written
  /\ \E n \in 2..18 : m.cycles = 2 * n
  /\ i = "DIVS" => m.cycles <= 16
  /\ i = "STOP" => m.cycles = 8
  /\ i = "MOVE" /\ o.secondary_address_mode = 4 => m.cycles >= 6
  /\ i \in {"MOVE_TO_SR", "MOVE_TO_CCR"} =>
       m.destination.type \in {"status_register", "condition_code_register"}

(* The frame an instruction pushed holds the condition codes it has. *)
Framed(r) ==
  \/ r.frames = <<>>
  \/ Len(r.frames) = 1 /\ r.frames[1] = r.codes

Timely(r) ==
  \E n \in 2..84 : \/ r.frames = <<>> /\ r.cycles = 2 * n
                   \/ Len(r.frames) = 1 /\ r.cycles = 2 * n + 30

Acted(i, m, r) ==
  /\ Kept(m, r) /\ m.written \subseteq r.written
  /\ r.stale # {} =>
       r.stale = {"source_mode"} /\ GetAction(i) \in {"ADDQ", "SUBQ"} /\ DelayedBySource(m)
  /\ r.outcome # "crash"
  /\ r.outcome = "fault" /\ i \notin {"RTE", "RTR"} => r.codes = Start.codes
  /\ r.system # {} => IsPrivileged(i)
  /\ Framed(r)
  /\ r.outcome = "running" /\ r.frames # <<>> =>
       \/ ~IsDestinationOperandWritten(i) /\ NoModifiers(i)
       \/ i \in {"DIVS", "DIVU"} /\ r.codes["C"] = "clear"
  /\ r.outcome = "running" /\ r.codes # Start.codes =>
       IsDestinationOperandRead(i) \/ ~IsDestinationOperandWritten(i)
  /\ r.outcome = "running" /\ (IsDestinationOperandWritten(i) \/ "result_value" \in Needs(i)) =>
       "result_value" \in r.written
  /\ r.outcome = "running" /\ "source_value" \in Needs(i) => "source_value" \in r.written
  /\ Timely(r)

LEMMA ReadyStuff ==
  ASSUME NEW o, NEW i \in Names, NEW m, Ready(o, i, m)
  PROVE  /\ m \in Stuffs /\ m.outcome = "running" /\ m.stale = {} /\ m.frames = <<>>
         /\ m.codes = Start.codes /\ m.system = {} /\ Framed(m) /\ m.cycles \in Int
         /\ GetAction(i) \in TakesSource => {"source_mode", "source_value"} \subseteq m.written
         /\ GetAction(i) \in TakesSource /\ i # "MOVE_FROM_SR" => m.source.type \in {"register", "memory"}
         /\ i = "MOVE_FROM_SR" => m.source.type = "status_register"
         /\ GetAction(i) \in TakesDestination => {"destination_mode", "destination_value"} \subseteq m.written
         /\ GetAction(i) = "MOVE" => "destination_mode" \in m.written
         /\ GetAction(i) \in TakesSize => {"operation_size", "msb_bit_index"} \subseteq m.written
         /\ GetAction(i) \in {"ADDQ", "SUBQ"} => "source_mode" \notin m.written
         /\ "source_value" \in Needs(i) =>
              "source_value" \in m.written \/ GetAction(i) \in {"ADDQ", "SUBQ", "NBCD"}
<1>1. GetSourceOperand("MOVE_FROM_SR") = "status_register" /\ IsSourceOperandRead("MOVE_FROM_SR")
  BY DEF GetSourceOperand, IsSourceOperandRead
<1>2. /\ m \in Stuffs /\ m.outcome = "running" /\ m.stale = {} /\ m.frames = <<>>
      /\ m.codes = Start.codes /\ m.system = {} /\ Framed(m)
  BY DEF Ready, Framed
<1>3. m.cycles \in Int
  BY <1>2 DEF Stuffs
<1>4. /\ GetAction(i) \in TakesSource => {"source_mode", "source_value"} \subseteq m.written
      /\ GetAction(i) \in TakesSource /\ i # "MOVE_FROM_SR" => m.source.type \in {"register", "memory"}
      /\ i = "MOVE_FROM_SR" => m.source.type = "status_register"
  BY <1>1, ActionOperands DEF Ready
<1>5. /\ GetAction(i) \in TakesDestination => {"destination_mode", "destination_value"} \subseteq m.written
      /\ GetAction(i) = "MOVE" => "destination_mode" \in m.written
      /\ GetAction(i) \in TakesSize => {"operation_size", "msb_bit_index"} \subseteq m.written
      /\ GetAction(i) \in {"ADDQ", "SUBQ"} => "source_mode" \notin m.written
  BY ActionOperands DEF Ready
<1>6. "source_value" \in Needs(i) =>
        "source_value" \in m.written \/ GetAction(i) \in {"ADDQ", "SUBQ", "NBCD"}
  BY ActionResults DEF Ready
<1>7. QED
  BY <1>2, <1>3, <1>4, <1>5, <1>6

LEMMA DurationsAdd ==
  ASSUME NEW o, NEW i, NEW m, Ready(o, i, m), NEW r
  PROVE  /\ \A k \in 0..66 :
              \/ r.frames = <<>> /\ r.cycles = m.cycles + 2 * k
              \/ Len(r.frames) = 1 /\ r.cycles = m.cycles + 2 * k + 30
              => Timely(r)
         /\ \A k \in 0..76 :
              /\ m.cycles <= 16
              /\ \/ r.frames = <<>> /\ r.cycles = m.cycles + 2 * k
                 \/ Len(r.frames) = 1 /\ r.cycles = m.cycles + 2 * k + 30
              => Timely(r)
         /\ r.frames = <<>> /\ r.cycles - m.cycles \in Short /\ r.cycles \in Int => Timely(r)
<1>1. PICK n \in 2..18 : m.cycles = 2 * n
  BY DEF Ready
<1>2. ASSUME NEW k \in 0..76, k <= 66 \/ m.cycles <= 16,
             \/ r.frames = <<>> /\ r.cycles = m.cycles + 2 * k
             \/ Len(r.frames) = 1 /\ r.cycles = m.cycles + 2 * k + 30
      PROVE  Timely(r)
  <2>1. m.cycles + 2 * k = 2 * (n + k)
    BY <1>1
  <2>2. n + k \in 2..84
    BY <1>1, <1>2
  <2> DEFINE s == n + k
  <2>3. s \in 2..84 /\ m.cycles + 2 * k = 2 * s
    BY <2>1, <2>2
  <2> HIDE DEF s
  <2>4. QED
    BY <1>2, <2>3 DEF Timely
<1>3. ASSUME r.frames = <<>>, r.cycles - m.cycles \in Short, r.cycles \in Int
      PROVE  Timely(r)
  <2>1. PICK k \in 0..10 : r.cycles - m.cycles = 2 * k
    BY <1>3 DEF Short
  <2>2. k \in 0..76 /\ k <= 66 /\ r.cycles = m.cycles + 2 * k
    BY <1>1, <1>3, <2>1
  <2>3. QED
    BY <1>2, <1>3, <2>2
<1>4. QED
  BY <1>2, <1>3

LEMMA AnswersActed ==
  ASSUME NEW o, NEW i \in Names, NEW m, Ready(o, i, m), NEW r, Quiet(m, r), Timely(r),
         GetAction(i) \notin NoResult => "result_value" \in r.written,
         GetAction(i) \notin {"ADDQ", "SUBQ", "NBCD"}
  PROVE  Acted(i, m, r)
<1>1. /\ Kept(m, r) /\ m.written \subseteq r.written /\ r.stale = {} /\ r.codes = Start.codes
      /\ r.outcome = "running" /\ r.system = {} /\ r.frames = <<>>
  BY ReadyStuff DEF Quiet
<1>2. /\ IsDestinationOperandWritten(i) \/ "result_value" \in Needs(i) => "result_value" \in r.written
      /\ "source_value" \in Needs(i) => "source_value" \in r.written
  BY <1>1, ReadyStuff, ActionResults
<1>3. QED
  BY <1>1, <1>2 DEF Acted, Framed

LEMMA CodedActed ==
  ASSUME NEW o, NEW i \in Names, NEW m, Ready(o, i, m), NEW r, Coded(m, r), Timely(r),
         GetAction(i) \notin NoResult => "result_value" \in r.written,
         GetAction(i) \in TakesDestination,
         GetAction(i) \notin {"ADDQ", "SUBQ"},
         GetAction(i) = "NBCD" => "source_value" \in r.written
  PROVE  Acted(i, m, r)
<1>1. /\ Kept(m, r) /\ m.written \subseteq r.written /\ r.stale = {}
      /\ r.outcome = "running" /\ r.system = {} /\ r.frames = <<>>
  BY ReadyStuff DEF Coded
<1>2. /\ IsDestinationOperandWritten(i) \/ "result_value" \in Needs(i) => "result_value" \in r.written
      /\ "source_value" \in Needs(i) => "source_value" \in r.written
  BY <1>1, ReadyStuff, ActionResults
<1>3. IsDestinationOperandRead(i)
  BY ActionOperands
<1>4. QED
  BY <1>1, <1>2, <1>3 DEF Acted, Framed

LEMMA LeftActed ==
  ASSUME NEW o, NEW i \in Names, NEW m, Ready(o, i, m), NEW r, Left(m, r),
         GetAction(i) \in NoResult
  PROVE  Acted(i, m, r)
<1>1. /\ Kept(m, r) /\ m.written \subseteq r.written /\ r.stale = {} /\ r.codes = Start.codes
      /\ r.outcome \in {"running", "fault"} /\ r.system = {} /\ r.frames = <<>>
  BY ReadyStuff DEF Left
<1>2. r.cycles \in Int
  BY <1>1 DEF Kept, Stuffs
<1>3. Timely(r)
  <2>1. CASE r.cycles - m.cycles \in Short
    BY <1>1, <1>2, <2>1, DurationsAdd
  <2>2. CASE r.cycles \in {8, 10, 12, 14, 16, 18, 20, 22, 24}
    <3>1. PICK n \in 4..12 : r.cycles = 2 * n
      BY <2>2
    <3>2. n \in 2..84
      OBVIOUS
    <3>3. QED
      BY <1>1, <3>1, <3>2 DEF Timely
  <2>3. QED
    BY <2>1, <2>2 DEF Left
<1>4. /\ ~IsDestinationOperandWritten(i) /\ Needs(i) = {}
  BY ActionResults
<1>5. QED
  BY <1>1, <1>3, <1>4 DEF Acted, Framed

LEMMA InterruptedActed ==
  ASSUME NEW o, NEW i \in Names, NEW m, Ready(o, i, m), NEW r, NEW n \in 0..76,
         n <= 66 \/ m.cycles <= 16,
         Interrupted(m, r, 2 * n),
         \/ GetAction(i) \in NoResult \ {"BTST"}
         \/ i \in {"DIVS", "DIVU"} /\ r.codes["C"] = "clear" /\ "result_value" \in r.written
  PROVE  Acted(i, m, r)
<1>1. /\ Kept(m, r) /\ m.written \subseteq r.written /\ r.stale = {} /\ r.system = {}
      /\ r.outcome \in {"running", "exception", "halted"}
  BY ReadyStuff DEF Interrupted
<1>2. Timely(r)
  <2>1. \/ r.frames = <<>> /\ r.cycles = m.cycles + 2 * n
        \/ Len(r.frames) = 1 /\ r.cycles = m.cycles + 2 * n + 30
    BY ReadyStuff DEF Interrupted
  <2>2. n <= 66 => n \in 0..66
    OBVIOUS
  <2>3. QED
    BY <2>1, <2>2, DurationsAdd
<1>3. Framed(r)
  BY DEF Interrupted, Framed
<1>4. i \in {"DIVS", "DIVU"} =>
        IsDestinationOperandRead(i) /\ IsSourceOperandRead(i) /\ GetAction(i) = i
  BY DEF GetAction, IsDestinationOperandRead, IsSourceOperandRead, NoDestination, WrittenOnly
<1>5. CASE GetAction(i) \in NoResult \ {"BTST"}
  <2>1. ~IsDestinationOperandWritten(i) /\ NoModifiers(i) /\ Needs(i) = {}
    BY <1>5, ActionResults
  <2>2. QED
    BY <1>1, <1>2, <1>3, <2>1 DEF Acted
<1>6. CASE i \in {"DIVS", "DIVU"} /\ r.codes["C"] = "clear" /\ "result_value" \in r.written
  <2>1. "source_value" \in Needs(i) => "source_value" \in r.written
    BY <1>1, <1>4, <1>6 DEF Ready
  <2>2. QED
    BY <1>1, <1>2, <1>3, <1>4, <1>6, <2>1 DEF Acted
<1>7. QED
  BY <1>5, <1>6

LEMMA ComputingActs ==
  ASSUME NEW o, NEW i \in Names, NEW m, Ready(o, i, m),
         NEW a, a = GetAction(i),
         a \in {"OR", "AND", "EOR", "ADD", "SUB", "ADDA", "SUBA", "CMP", "CMPA", "CMPM", "CMPI",
                "MOVEP", "MOVEA", "MOVE", "NEGX", "NEG", "NOT", "CLR", "EXT", "SWAP", "TST",
                "MOVEQ", "ADDX", "SUBX", "SCC", "MULS", "MULU", "RESET", "EXG", "NOP"},
         NEW r \in Action(o, a, m)
  PROVE  /\ Quiet(m, r) /\ Timely(r)
         /\ a \notin NoResult => "result_value" \in r.written
<1> DEFINE Fine == /\ Quiet(m, r) /\ Timely(r)
                   /\ a \notin NoResult => "result_value" \in r.written
<1>1. /\ m \in Stuffs /\ m.frames = <<>> /\ m.cycles \in Int
      /\ a \in TakesSource => {"source_mode", "source_value"} \subseteq m.written
      /\ a \in TakesSource /\ i # "MOVE_FROM_SR" => m.source.type \in {"register", "memory"}
      /\ a \in TakesDestination => {"destination_mode", "destination_value"} \subseteq m.written
      /\ a = "MOVE" => "destination_mode" \in m.written
      /\ a \in TakesSize => {"operation_size", "msb_bit_index"} \subseteq m.written
  BY ReadyStuff
<1>2. ASSUME Answers(m, r)
      PROVE  Fine
  <2>1. Quiet(m, r) /\ "result_value" \in r.written /\ r.cycles - m.cycles \in Short
    BY <1>2 DEF Answers
  <2>2. r.frames = <<>> /\ r.cycles \in Int
    BY <1>1, <2>1 DEF Quiet, Kept, Stuffs
  <2>3. QED
    BY <2>1, <2>2, DurationsAdd
<1>3. ASSUME NEW k \in 0..66, Quiet(m, r), r.cycles = m.cycles + 2 * k,
             a \notin NoResult => "result_value" \in r.written
      PROVE  Fine
  <2>1. r.frames = <<>>
    BY <1>1, <1>3 DEF Quiet
  <2>2. QED
    BY <1>3, <2>1, DurationsAdd
<1>4. CASE a \in {"OR", "AND", "EOR", "ADD", "SUB"}
  <2>1. r \in Action_Binary(m)
    BY <1>4 DEF Action
  <2>2. i # "MOVE_FROM_SR"
    BY <1>4 DEF GetAction
  <2>3. /\ Operands \cup {"operation_size", "destination_mode"} \subseteq m.written
        /\ "source_mode" \in m.written /\ m.source.type \in {"register", "memory"}
    BY <1>1, <1>4, <2>2 DEF TakesSource, TakesDestination, TakesSize, Operands
  <2>4. /\ Quiet(m, r) /\ "result_value" \in r.written
        /\ r.cycles - m.cycles \in {0, 2, 4, 6, 8, 10, 12, 14, 16}
    BY <1>1, <2>1, <2>3, BinaryActs DEF Quiet
  <2>5. QED
    BY <1>2, <2>4 DEF Answers, Short
<1>5. CASE a \in {"ADDA", "SUBA"}
  <2>1. r \in Action_ToAddress(o, m)
    BY <1>5 DEF Action
  <2>2. i # "MOVE_FROM_SR"
    BY <1>5 DEF GetAction
  <2>3. /\ Operands \cup {"operation_size", "destination_mode", "source_mode"} \subseteq m.written
        /\ m.source.type \in {"register", "memory"}
    BY <1>1, <1>5, <2>2 DEF TakesSource, TakesDestination, TakesSize, Operands
  <2>4. Answers(m, r)
    BY <1>1, <2>1, <2>3, ToAddressActs
  <2>5. QED
    BY <1>2, <2>4
<1>6. CASE a \in {"CMP", "CMPA", "CMPM", "CMPI"}
  <2>1. \/ a \in {"CMP", "CMPA"} /\ r = Action_CMP(m)
        \/ a = "CMPM" /\ r = Computes(m, Operands, Result)
        \/ a = "CMPI" /\ r = Action_CMPI(m)
    BY <1>6 DEF Action, Action_Simple
  <2>2. Operands \subseteq m.written
    BY <1>1, <1>6 DEF TakesSource, TakesDestination, Operands
  <2>3. Answers(m, r)
    BY <1>1, <2>1, <2>2, ComparisonsAnswer DEF TakesDestination, TakesSize
  <2>4. QED
    BY <1>2, <2>3
<1>7. CASE a \in {"MOVEA", "TST", "MOVEQ"}
  <2>1. \/ a = "MOVEA" /\ r = Action_MOVEA(m)
        \/ a = "TST" /\ r = Action_MOVECommon(m)
        \/ a = "MOVEQ" /\ r = Writes(m, Result)
    BY <1>7 DEF Action, Action_Simple
  <2>2. Answers(m, r)
    BY <1>1, <2>1, MovesAnswer DEF TakesSource, TakesSize
  <2>3. QED
    BY <1>2, <2>2
<1>8. CASE a \in {"NEGX", "NEG", "NOT", "CLR", "EXT", "SWAP"}
  <2>1. \/ a \in {"NEGX", "NEG", "NOT"} /\ r = Action_Unary(m)
        \/ a = "CLR" /\ r = Action_CLR(m)
        \/ a \in {"EXT", "SWAP"} /\ r = Action_Rearrange(m)
    BY <1>8 DEF Action, Action_Simple
  <2>2. Answers(m, r)
    BY <1>1, <2>1, UnaryAnswers DEF TakesDestination, TakesSize
  <2>3. QED
    BY <1>2, <2>2
<1>9. CASE a \in {"ADDX", "SUBX"}
  <2>1. r = Action_Extended(m)
    BY <1>9 DEF Action, Action_Simple
  <2>2. Operands \cup {"destination_mode", "operation_size"} \subseteq m.written
    BY <1>1, <1>9 DEF TakesSource, TakesDestination, TakesSize, Operands
  <2>3. Answers(m, r)
    BY <1>1, <2>1, <2>2, ExtendedAnswers
  <2>4. QED
    BY <1>2, <2>3
<1>10. CASE a = "SCC"
  <2>1. r \in Action_SCC(o, m)
    BY <1>10 DEF Action
  <2>2. Answers(m, r)
    BY <1>1, <1>10, <2>1, ConditionAnswers DEF TakesDestination
  <2>3. QED
    BY <1>2, <2>2
<1>11. CASE a \in {"MULS", "MULU"}
  <2>1. r \in Action_MUL(m)
    BY <1>11 DEF Action
  <2>2. Operands \subseteq m.written /\ m.outcome = "running"
    BY <1>1, <1>11, ReadyStuff DEF TakesSource, TakesDestination, Operands
  <2>3. /\ Quiet(m, r) /\ "result_value" \in r.written
        /\ \E n \in 17..33 : r.cycles = m.cycles + 2 * n
    BY <1>1, <2>1, <2>2, LongActs
  <2>4. PICK n \in 17..33 : r.cycles = m.cycles + 2 * n
    BY <2>3
  <2>5. n \in 0..66
    OBVIOUS
  <2>6. QED
    BY <1>3, <2>3, <2>4, <2>5
<1>12. CASE a \in {"MOVEP", "RESET", "EXG", "NOP"}
  <2>1. PICK k \in {0, 1, 2, 6, 64} : r = IF k = 0 THEN m ELSE Timed(m, 2 * k)
    <3>1. a = "MOVEP" => Reads(m, {"destination_value"}) = m
      BY <1>1, QuietSteps DEF TakesDestination
    <3>2. a = "MOVEP" => r = Timed(m, 4) \/ r = Timed(m, 12)
      BY <3>1 DEF Action, Action_Simple, Action_MOVEP
    <3>3. /\ a = "RESET" => r = Timed(m, 128)
          /\ a = "EXG" => r = Timed(m, 2)
          /\ a = "NOP" => r = m
      BY DEF Action, Action_Simple
    <3>4. 4 = 2 * 2 /\ 12 = 2 * 6 /\ 128 = 2 * 64 /\ 2 = 2 * 1
      OBVIOUS
    <3>5. QED
      BY <1>12, <3>2, <3>3, <3>4
  <2>2. Quiet(m, r) /\ r.cycles = m.cycles + 2 * k
    <3>1. 2 * k \in Int
      OBVIOUS
    <3>2. QED
      BY <1>1, <2>1, <3>1, QuietSteps
  <2>3. k \in 0..66 /\ a \in NoResult
    BY <1>12 DEF NoResult
  <2>4. QED
    BY <1>3, <2>2, <2>3
<1>13. CASE a = "MOVE"
  <2>1. r = Action_MOVE(o, m)
    BY <1>13 DEF Action, Action_Simple
  <2>2. {"source_value", "source_mode", "destination_mode"} \subseteq m.written
    BY <1>1, <1>13 DEF TakesSource
  <2>3. /\ Quiet(m, r) /\ "result_value" \in r.written
        /\ \/ r.cycles - m.cycles \in Short
           \/ /\ m.source.type # "status_register"
              /\ m.destination.type \notin {"status_register", "condition_code_register"}
              /\ o.secondary_address_mode = 4
              /\ r.cycles = m.cycles - 2
    BY <1>1, <2>1, <2>2, MoveActs
  <2>4. CASE r.cycles - m.cycles \in Short
    BY <1>2, <2>3, <2>4 DEF Answers
  <2>5. CASE /\ m.source.type # "status_register"
             /\ m.destination.type \notin {"status_register", "condition_code_register"}
             /\ o.secondary_address_mode = 4
             /\ r.cycles = m.cycles - 2
    <3>1. i \in {"MOVE", "MOVE_FROM_SR", "MOVE_TO_SR", "MOVE_TO_CCR"}
      BY <1>13 DEF GetAction
    <3>2. i = "MOVE"
      BY <2>5, <3>1, ReadyStuff DEF Ready
    <3>3. PICK n \in 3..18 : m.cycles = 2 * n
      BY <2>5, <3>2 DEF Ready
    <3>4. r.cycles = 2 * (n - 1) /\ n - 1 \in 2..84
      BY <2>5, <3>3
    <3>5. r.frames = <<>>
      BY <1>1, <2>3 DEF Quiet
    <3>6. Timely(r)
      BY <3>4, <3>5 DEF Timely
    <3>7. QED
      BY <2>3, <3>6
  <2>6. QED
    BY <2>3, <2>4, <2>5
<1>14. QED
  BY <1>4, <1>5, <1>6, <1>7, <1>8, <1>9, <1>10, <1>11, <1>12, <1>13

LEMMA CodingActs ==
  ASSUME NEW o \in Splits, NEW i \in Names, NEW m, Ready(o, i, m),
         NEW a, a = GetAction(i),
         a \in {"BTST", "BCHG", "BCLR", "BSET", "TAS", "SBCD", "ABCD", "NBCD",
                "ASD_MEMORY", "LSD_MEMORY", "ROXD_MEMORY", "ROD_MEMORY",
                "ASD_REGISTER", "LSD_REGISTER", "ROXD_REGISTER", "ROD_REGISTER"},
         NEW r \in Action(o, a, m)
  PROVE  Acted(i, m, r)
<1>1. /\ m \in Stuffs /\ m.frames = <<>> /\ m.cycles \in Int
      /\ a \in TakesSource => {"source_mode", "source_value"} \subseteq m.written
      /\ a \in TakesDestination => {"destination_mode", "destination_value"} \subseteq m.written
      /\ a \in TakesSize => {"operation_size", "msb_bit_index"} \subseteq m.written
  BY ReadyStuff
<1>2. a \in TakesDestination /\ a \notin {"ADDQ", "SUBQ"}
  BY DEF TakesDestination
<1>3. ASSUME Coded(m, r), r.cycles - m.cycles \in Short \/ r.cycles \in {6, 18},
             a \notin NoResult => "result_value" \in r.written,
             a = "NBCD" => "source_value" \in r.written
      PROVE  Acted(i, m, r)
  <2>1. r.frames = <<>> /\ r.cycles \in Int
    BY <1>1, <1>3 DEF Coded, Kept, Stuffs
  <2>2. r.cycles \in {6, 18} => Timely(r)
    <3>1. 6 = 2 * 3 /\ 18 = 2 * 9 /\ 3 \in 2..84 /\ 9 \in 2..84
      OBVIOUS
    <3>2. QED
      BY <2>1, <3>1 DEF Timely
  <2>3. Timely(r)
    BY <1>3, <2>1, <2>2, DurationsAdd
  <2>4. QED
    BY <1>2, <1>3, <2>3, CodedActed
<1>4. CASE a = "BTST"
  <2>1. r = Action_BTST(o, m)
    BY <1>4 DEF Action, Action_Simple
  <2>2. Operands \cup {"msb_bit_index"} \subseteq m.written
    BY <1>1, <1>4 DEF TakesSource, TakesDestination, TakesSize, Operands
  <2>3. Coded(m, r) /\ r.cycles - m.cycles \in {0, 2}
    BY <1>1, <2>1, <2>2, BitsCoded
  <2>4. QED
    BY <1>3, <1>4, <2>3 DEF Short, NoResult
<1>5. CASE a \in {"BCHG", "BCLR", "BSET"}
  <2>1. PICK low \in {-2, 0, 2}, high \in {-2, 0, 2} : r \in Action_ChangeBit(m, low, high)
    BY <1>5 DEF Action
  <2>2. Operands \cup {"msb_bit_index"} \subseteq m.written
    BY <1>1, <1>5 DEF TakesSource, TakesDestination, TakesSize, Operands
  <2>3. Coded(m, r) /\ "result_value" \in r.written /\ r.cycles - m.cycles \in {2, 4, 6}
    BY <1>1, <2>1, <2>2, BitsCoded
  <2>4. QED
    BY <1>3, <1>5, <2>3 DEF Short
<1>6. CASE a \in {"TAS", "NBCD"}
  <2>1. \/ a = "TAS" /\ r = Action_TAS(m)
        \/ a = "NBCD" /\ r = Action_NBCD(m)
    BY <1>6 DEF Action, Action_Simple
  <2>2. /\ Coded(m, r) /\ "result_value" \in r.written /\ r.cycles - m.cycles \in {0, 2, 4, 6}
        /\ a = "NBCD" => "source_value" \in r.written
    BY <1>1, <1>2, <2>1, BytesCoded
  <2>3. QED
    BY <1>3, <2>2 DEF Short
<1>7. CASE a \in {"SBCD", "ABCD"}
  <2>1. \/ a = "SBCD" /\ r = Action_SBCD(o, m)
        \/ a = "ABCD" /\ r = Action_ABCD(o, m)
    BY <1>7 DEF Action, Action_Simple
  <2>2. /\ Operands \subseteq m.written
        /\ a = "ABCD" => {"destination_mode", "operation_size"} \subseteq m.written
    BY <1>1, <1>2, <1>7 DEF TakesSource, TakesSize, Operands
  <2>3. Coded(m, r) /\ "result_value" \in r.written /\ r.cycles \in {6, 18}
    BY <1>1, <2>1, <2>2, PairsCoded
  <2>4. QED
    BY <1>3, <1>7, <2>3
<1>8. CASE a \in {"ASD_MEMORY", "LSD_MEMORY", "ROXD_MEMORY", "ROD_MEMORY"}
  <2>1. PICK extended \in BOOLEAN : r = Action_ShiftMemory(m, extended)
    BY <1>8 DEF Action, Action_Simple
  <2>2. {"destination_value", "msb_bit_index"} \subseteq m.written
    BY <1>1, <1>2, <1>8 DEF TakesSize
  <2>3. Coded(m, r) /\ "result_value" \in r.written /\ r.cycles = m.cycles + 4
    BY <1>1, <2>1, <2>2, ShiftsCoded
  <2>4. r.cycles - m.cycles = 4
    BY <1>1, <2>3
  <2>5. QED
    BY <1>3, <1>8, <2>3, <2>4 DEF Short
<1>9. CASE a \in {"ASD_REGISTER", "LSD_REGISTER", "ROXD_REGISTER", "ROD_REGISTER"}
  <2>1. PICK extended \in BOOLEAN : r \in Action_ShiftRegister(o, m, extended)
    BY <1>9 DEF Action
  <2>2. {"destination_value", "msb_bit_index"} \subseteq m.written
    BY <1>1, <1>2, <1>9 DEF TakesSize
  <2>3. Coded(m, r) /\ "result_value" \in r.written /\ \E n \in 1..65 : r.cycles = m.cycles + 2 * n
    BY <1>1, <2>1, <2>2, ShiftsCoded
  <2>4. PICK n \in 1..65 : r.cycles = m.cycles + 2 * n
    BY <2>3
  <2>5. r.frames = <<>> /\ n \in 0..66
    BY <1>1, <2>3 DEF Coded
  <2>6. Timely(r)
    BY <2>4, <2>5, DurationsAdd
  <2>7. QED
    BY <1>2, <1>9, <2>3, <2>6, CodedActed
<1>10. QED
  BY <1>4, <1>5, <1>6, <1>7, <1>8, <1>9

LEMMA LeavingActs ==
  ASSUME NEW o, NEW i \in Names, NEW m, Ready(o, i, m),
         NEW a, a = GetAction(i),
         a \in {"LINK", "UNLK", "PEA", "RTS", "JMP", "JSR", "MOVEM", "DBCC", "BRA_SHORT", "BRA_WORD",
                "BSR_SHORT", "BSR_WORD", "BCC_SHORT", "BCC_WORD"},
         NEW r \in Action(o, a, m)
  PROVE  Acted(i, m, r)
<1>1. /\ m \in Stuffs /\ m.frames = <<>> /\ m.outcome = "running" /\ m.cycles \in Int
      /\ a \in TakesSource => {"source_mode", "source_value"} \subseteq m.written
      /\ a \in TakesDestination => {"destination_mode", "destination_value"} \subseteq m.written
  BY ReadyStuff
<1>2. a \in NoResult
  BY DEF NoResult
<1>3. Left(m, r) => Acted(i, m, r)
  BY <1>2, LeftActed
<1>4. CASE a \in {"LINK", "UNLK", "RTS"}
  <2>1. \/ a = "LINK" /\ r \in Action_LINK(m)
        \/ a = "UNLK" /\ r \in Action_UNLK(m)
        \/ a = "RTS" /\ r \in Action_RTS(m)
    BY <1>4 DEF Action
  <2>2. QED
    BY <1>1, <1>3, <2>1, StackActsLeave DEF TakesSource
<1>5. CASE a \in {"PEA", "JMP", "JSR"}
  <2>1. r \in Action_PEA(o, m) \cup Action_JMP(o, m) \cup Action_JSR(o, m)
    BY <1>5 DEF Action
  <2>2. "source_value" \in m.written
    BY <1>1, <1>5 DEF TakesSource
  <2>3. QED
    BY <1>1, <1>3, <2>1, <2>2, AddressActsLeave
<1>6. CASE a = "DBCC"
  <2>1. r \in Action_DBCC(o, m)
    BY <1>6 DEF Action
  <2>2. "source_value" \in m.written
    BY <1>1, <1>6 DEF TakesSource
  <2>3. QED
    BY <1>1, <1>3, <2>1, <2>2, LoopsLeave
<1>7. CASE a \in {"BRA_SHORT", "BSR_SHORT", "BCC_SHORT"}
  <2>1. \/ r \in Branch(o, m, TRUE)
        \/ r \in Action_BSR(o, m, TRUE)
        \/ r \in Action_BCC(o, m, TRUE)
    BY <1>7 DEF Action, Branch
  <2>2. QED
    BY <1>1, <1>3, <2>1, BranchesLeave
<1>8. CASE a \in {"BRA_WORD", "BSR_WORD", "BCC_WORD"}
  <2>1. \/ r \in Branch(o, m, FALSE)
        \/ r \in Action_BSR(o, m, FALSE)
        \/ r \in Action_BCC(o, m, FALSE)
    BY <1>8 DEF Action, Branch
  <2>2. "source_value" \in m.written
    BY <1>1, <1>8 DEF TakesSource
  <2>3. QED
    BY <1>1, <1>3, <2>1, <2>2, BranchesLeave
<1>9. CASE a = "MOVEM"
  <2>1. r \in Action_MOVEM(o, m)
    BY <1>9 DEF Action
  <2>2. Operands \subseteq m.written
    BY <1>1, <1>9 DEF TakesSource, TakesDestination, Operands
  <2>3. /\ Kept(m, r) /\ m.written \subseteq r.written /\ r.stale = m.stale
        /\ r.codes = m.codes /\ r.frames = m.frames /\ r.system = m.system
        /\ r.outcome \in {"running", "fault"}
        /\ \E n \in 4..80 : r.cycles = 2 * n
    BY <1>1, <2>1, <2>2, LongActs
  <2>4. r.frames = <<>> /\ r.stale = {} /\ r.codes = Start.codes /\ r.system = {}
    BY <2>3, ReadyStuff
  <2>5. Timely(r)
    <3>1. PICK n \in 4..80 : r.cycles = 2 * n
      BY <2>3
    <3>2. n \in 2..84
      OBVIOUS
    <3>3. QED
      BY <2>4, <3>1, <3>2 DEF Timely
  <2>6. ~IsDestinationOperandWritten(i) /\ Needs(i) = {}
    BY <1>2, ActionResults
  <2>7. QED
    BY <2>3, <2>4, <2>5, <2>6 DEF Acted, Framed
<1>10. QED
  BY <1>4, <1>5, <1>6, <1>7, <1>8, <1>9

LEMMA InterruptingActs ==
  ASSUME NEW o, NEW i \in Names, NEW m, Ready(o, i, m),
         NEW a, a = GetAction(i),
         a \in {"ILLEGAL", "UNIMPLEMENTED_1", "UNIMPLEMENTED_2", "TRAP", "TRAPV", "CHK",
                "DIVS", "DIVU"},
         NEW r \in Action(o, a, m)
  PROVE  Acted(i, m, r)
<1>1. /\ m \in Stuffs /\ m.frames = <<>> /\ m.outcome = "running" /\ m.cycles \in Int
      /\ a \in TakesSource => {"source_mode", "source_value"} \subseteq m.written
      /\ a \in TakesDestination => {"destination_mode", "destination_value"} \subseteq m.written
  BY ReadyStuff
<1>2. ASSUME a \in NoResult \ {"BTST"}, NEW n \in {0, 3}, Interrupted(m, r, 2 * n)
      PROVE  Acted(i, m, r)
  <2>1. n \in 0..76 /\ n <= 66
    OBVIOUS
  <2>2. QED
    BY <1>2, <2>1, InterruptedActed
<1>3. 2 * 0 = 0 /\ 2 * 3 = 6
  OBVIOUS
<1>4. CASE a \in {"ILLEGAL", "UNIMPLEMENTED_1", "UNIMPLEMENTED_2", "TRAP", "TRAPV"}
  <2>1. r \in Group1Or2Exception(m) \cup Action_TRAP(m) \cup Action_TRAPV(m)
    BY <1>4 DEF Action
  <2>2. Interrupted(m, r, 0)
    BY <1>1, <2>1, ExceptionActs, TrapActs
  <2>3. a \in NoResult \ {"BTST"} /\ Interrupted(m, r, 2 * 0)
    BY <1>3, <1>4, <2>2 DEF NoResult
  <2>4. QED
    BY <1>2, <2>3
<1>5. CASE a = "CHK"
  <2>1. r \in Action_CHK(m)
    BY <1>5 DEF Action
  <2>2. "source_value" \in m.written
    BY <1>1, <1>5 DEF TakesSource
  <2>3. Interrupted(m, r, 2 * 3) \/ Interrupted(m, r, 2 * 0)
    BY <1>1, <1>3, <2>1, <2>2, CheckActs
  <2>4. a \in NoResult \ {"BTST"}
    BY <1>5 DEF NoResult
  <2>5. QED
    BY <1>2, <2>3, <2>4
<1>6. CASE a \in {"DIVS", "DIVU"}
  <2> DEFINE is_signed == a = "DIVS"
  <2>1. r \in Action_DIV(m, is_signed) /\ is_signed \in BOOLEAN
    BY <1>6 DEF Action
  <2>2. Operands \subseteq m.written
    BY <1>1, <1>6 DEF TakesSource, TakesDestination, Operands
  <2>3. i \in {"DIVS", "DIVU"} /\ (is_signed => i = "DIVS")
    BY <1>6 DEF GetAction
  <2> HIDE DEF is_signed
  <2>4. /\ r.codes["C"] = "clear" /\ "result_value" \in r.written
        /\ \E n \in 0..76 : Interrupted(m, r, 2 * n) /\ (~is_signed => n <= 66)
    BY <1>1, <2>1, <2>2, DivisionActs
  <2>5. PICK n \in 0..76 : Interrupted(m, r, 2 * n) /\ (~is_signed => n <= 66)
    BY <2>4
  <2>6. n <= 66 \/ m.cycles <= 16
    BY <2>3, <2>5 DEF Ready
  <2>7. QED
    BY <2>3, <2>4, <2>5, <2>6, InterruptedActed
<1>7. QED
  BY <1>4, <1>5, <1>6

LEMMA PrivilegedActs ==
  ASSUME NEW o, NEW i \in Names, NEW m, Ready(o, i, m),
         NEW a, a = GetAction(i),
         a \in {"MOVE_USP", "STOP", "RTE", "RTR"},
         NEW r \in Action(o, a, m)
  PROVE  Acted(i, m, r)
<1>1. /\ m \in Stuffs /\ m.frames = <<>> /\ m.outcome = "running" /\ m.cycles \in Int
      /\ m.stale = {} /\ m.codes = Start.codes /\ m.system = {}
      /\ a \in TakesSource => {"source_mode", "source_value"} \subseteq m.written
  BY ReadyStuff
<1>2. i = a
  BY DEF GetAction
<1>3. a \in NoResult \ {"BTST"}
  BY DEF NoResult
<1>4. ~IsDestinationOperandWritten(i) /\ Needs(i) = {} /\ NoModifiers(i)
  BY <1>3, ActionResults
<1>5. ASSUME Kept(m, r), r.written = m.written, r.stale = m.stale, r.frames = m.frames,
             r.outcome \in {"running", "fault"},
             r.outcome = "fault" => i \in {"RTE", "RTR"},
             r.system # {} => IsPrivileged(i),
             \E n \in 2..84 : r.cycles = 2 * n
      PROVE  Acted(i, m, r)
  <2>1. Timely(r)
    BY <1>1, <1>5 DEF Timely
  <2>2. QED
    BY <1>1, <1>4, <1>5, <2>1 DEF Acted, Framed
<1>6. PICK n \in 2..18 : m.cycles = 2 * n
  BY DEF Ready
<1>7. CASE a = "MOVE_USP"
  <2>1. r = Action_MOVE_USP(m)
    BY <1>7 DEF Action, Action_Simple
  <2>2. /\ Kept(m, r) /\ r.written = m.written /\ r.stale = m.stale /\ r.frames = m.frames
        /\ r.outcome = m.outcome /\ r.cycles = m.cycles
    BY <1>1, <2>1, SystemActs
  <2>3. n \in 2..84 /\ IsPrivileged(i)
    BY <1>2, <1>7 DEF IsPrivileged
  <2>4. QED
    BY <1>1, <1>5, <1>6, <2>2, <2>3
<1>8. CASE a = "STOP"
  <2>1. r = Action_STOP(m)
    BY <1>8 DEF Action, Action_Simple
  <2>2. "source_value" \in m.written
    BY <1>1, <1>8 DEF TakesSource
  <2>3. /\ Kept(m, r) /\ r.written = m.written /\ r.stale = m.stale /\ r.frames = m.frames
        /\ r.outcome = m.outcome /\ r.cycles = m.cycles - 4
    BY <1>1, <2>1, <2>2, SystemActs
  <2>4. m.cycles = 8 /\ IsPrivileged(i)
    BY <1>2, <1>8 DEF IsPrivileged, Ready
  <2>5. r.cycles = 2 * 2 /\ 2 \in 2..84
    BY <2>3, <2>4
  <2>6. QED
    BY <1>1, <1>5, <2>3, <2>4, <2>5
<1>9. CASE a \in {"RTE", "RTR"}
  <2>1. \/ a = "RTE" /\ r \in Action_RTE(m)
        \/ a = "RTR" /\ r \in Action_RTR(m)
    BY <1>9 DEF Action
  <2>2. /\ Kept(m, r) /\ r.written = m.written /\ r.stale = m.stale /\ r.frames = m.frames
        /\ r.outcome \in {"running", "fault"} /\ r.cycles \in {m.cycles, m.cycles + 16}
        /\ a = "RTR" => r.system = m.system
    BY <1>1, <2>1, ReturnActs
  <2>3. a = "RTE" => IsPrivileged(i)
    BY <1>2 DEF IsPrivileged
  <2>4. \E k \in 2..84 : r.cycles = 2 * k
    <3>1. n \in 2..84 /\ n + 8 \in 2..84 /\ m.cycles + 16 = 2 * (n + 8)
      BY <1>6
    <3>2. QED
      BY <1>6, <2>2, <3>1
  <2>5. QED
    BY <1>1, <1>2, <1>5, <1>9, <2>2, <2>3, <2>4
<1>10. QED
  BY <1>7, <1>8, <1>9

LEMMA AddingQuickActs ==
  ASSUME NEW o, NEW i \in Names, NEW m, Ready(o, i, m),
         NEW a, a = GetAction(i), a \in {"ADDQ", "SUBQ"},
         NEW r \in Action(o, a, m)
  PROVE  Acted(i, m, r)
<1>1. /\ m \in Stuffs /\ m.frames = <<>> /\ m.outcome = "running" /\ m.cycles \in Int
      /\ m.stale = {} /\ m.codes = Start.codes /\ m.system = {}
      /\ {"destination_value", "operation_size", "destination_mode"} \subseteq m.written
      /\ "source_mode" \notin m.written
  <2>1. a \in TakesDestination /\ a \in TakesSize
    BY DEF TakesDestination, TakesSize
  <2>2. /\ {"destination_mode", "destination_value"} \subseteq m.written
        /\ {"operation_size", "msb_bit_index"} \subseteq m.written
        /\ "source_mode" \notin m.written
    BY <2>1, ReadyStuff
  <2>3. /\ m \in Stuffs /\ m.frames = <<>> /\ m.outcome = "running" /\ m.cycles \in Int
        /\ m.stale = {} /\ m.codes = Start.codes /\ m.system = {}
    BY ReadyStuff
  <2>4. QED
    BY <2>2, <2>3
<1>2. r \in Action_Quick(o, m)
  BY DEF Action
<1>3. /\ Kept(m, r) /\ m.written \subseteq r.written
      /\ {"source_value", "result_value"} \subseteq r.written
      /\ r.codes = m.codes /\ r.frames = m.frames /\ r.system = m.system
      /\ r.outcome = m.outcome /\ r.cycles - m.cycles \in Short
      /\ ~DelayedBySource(m) => r.stale = m.stale
      /\ r.stale \subseteq m.stale \cup {"source_mode"}
  BY <1>1, <1>2, QuickActs
<1>4. r.cycles \in Int
  BY <1>3 DEF Kept, Stuffs
<1>5. Timely(r)
  BY <1>1, <1>3, <1>4, DurationsAdd
<1>6. r.stale # {} => r.stale = {"source_mode"} /\ DelayedBySource(m)
  BY <1>1, <1>3
<1>7. QED
  BY <1>1, <1>3, <1>5, <1>6 DEF Acted, Framed

(* The step of the action, of whichever instruction. *)
LEMMA EveryActionActs ==
  ASSUME NEW o \in Splits, NEW i \in Names, NEW m, Ready(o, i, m),
         NEW r \in Action(o, GetAction(i), m)
  PROVE  Acted(i, m, r)
<1> DEFINE a == GetAction(i)
<1>1. \/ a \in {"OR", "AND", "EOR", "ADD", "SUB", "ADDA", "SUBA", "CMP", "CMPA", "CMPM", "CMPI",
                "MOVEP", "MOVEA", "MOVE", "NEGX", "NEG", "NOT", "CLR", "EXT", "SWAP", "TST",
                "MOVEQ", "ADDX", "SUBX", "SCC", "MULS", "MULU", "RESET", "EXG", "NOP"}
      \/ a \in {"BTST", "BCHG", "BCLR", "BSET", "TAS", "SBCD", "ABCD", "NBCD",
                "ASD_MEMORY", "LSD_MEMORY", "ROXD_MEMORY", "ROD_MEMORY",
                "ASD_REGISTER", "LSD_REGISTER", "ROXD_REGISTER", "ROD_REGISTER"}
      \/ a \in {"LINK", "UNLK", "PEA", "RTS", "JMP", "JSR", "MOVEM", "DBCC", "BRA_SHORT",
                "BRA_WORD", "BSR_SHORT", "BSR_WORD", "BCC_SHORT", "BCC_WORD"}
      \/ a \in {"ILLEGAL", "UNIMPLEMENTED_1", "UNIMPLEMENTED_2", "TRAP", "TRAPV", "CHK",
                "DIVS", "DIVU"}
      \/ a \in {"MOVE_USP", "STOP", "RTE", "RTR"}
      \/ a \in {"ADDQ", "SUBQ"}
      \/ a = "LEA"
  <2>1. \/ a \in {"OR", "AND", "SUBQ", "SUB", "ADDQ", "ADD", "EOR", "BCHG", "BCLR", "BSET",
                 "BTST", "MOVE"}
        \/ a = i
    BY DEF GetAction
  <2>2. CASE a \in {"OR", "AND", "SUBQ", "SUB", "ADDQ", "ADD", "EOR", "BCHG", "BCLR", "BSET",
                    "BTST", "MOVE"}
    <3> HIDE DEF a
    <3>1. QED
      BY <2>2
  <2>3. CASE a = i /\ i \notin {"ORI", "ORI_TO_CCR", "ORI_TO_SR", "ANDI", "ANDI_TO_CCR", "ANDI_TO_SR",
                   "SUBAQ", "SUBI", "ADDAQ", "ADDI", "EORI", "EORI_TO_CCR", "EORI_TO_SR",
                   "BCHG_DYNAMIC", "BCHG_STATIC", "BCLR_DYNAMIC", "BCLR_STATIC", "BSET_DYNAMIC",
                   "BSET_STATIC", "BTST_DYNAMIC", "BTST_STATIC", "MOVE_FROM_SR", "MOVE_TO_CCR",
                   "MOVE_TO_SR"}
    <3> HIDE DEF a
    <3>1. QED
      BY <2>3 DEF Names
  <2>4. a = i => i \notin {"ORI", "ORI_TO_CCR", "ORI_TO_SR", "ANDI", "ANDI_TO_CCR", "ANDI_TO_SR",
                   "SUBAQ", "SUBI", "ADDAQ", "ADDI", "EORI", "EORI_TO_CCR", "EORI_TO_SR",
                   "BCHG_DYNAMIC", "BCHG_STATIC", "BCLR_DYNAMIC", "BCLR_STATIC", "BSET_DYNAMIC",
                   "BSET_STATIC", "BTST_DYNAMIC", "BTST_STATIC", "MOVE_FROM_SR", "MOVE_TO_CCR",
                   "MOVE_TO_SR"}
    BY DEF GetAction
  <2>5. QED
    BY <2>1, <2>2, <2>3, <2>4
<1> HIDE DEF a
<1>2. r \in Action(o, a, m) /\ a = GetAction(i)
  BY DEF a
<1>3. CASE a \in {"OR", "AND", "EOR", "ADD", "SUB", "ADDA", "SUBA", "CMP", "CMPA", "CMPM", "CMPI",
                  "MOVEP", "MOVEA", "MOVE", "NEGX", "NEG", "NOT", "CLR", "EXT", "SWAP", "TST",
                  "MOVEQ", "ADDX", "SUBX", "SCC", "MULS", "MULU", "RESET", "EXG", "NOP"}
  <2>1. /\ Quiet(m, r) /\ Timely(r)
        /\ a \notin NoResult => "result_value" \in r.written
    BY <1>2, <1>3, ComputingActs
  <2>2. a \notin {"ADDQ", "SUBQ", "NBCD"}
    BY <1>3
  <2>3. QED
    BY <1>2, <2>1, <2>2, AnswersActed
<1>4. CASE a = "LEA"
  <2> DEFINE k == 4 + AddressTime(o, 4, 8, 8)
             n == Action_MOVECommon(m)
  <2>1. m \in Stuffs /\ "source_value" \in m.written /\ m.frames = <<>>
    BY <1>2, <1>4, ReadyStuff DEF TakesSource
  <2>2. Quiet(m, n) /\ "result_value" \in n.written
    BY <2>1, MovesAnswer DEF Answers
  <2>3. n \in Stuffs
    BY <2>2 DEF Quiet, Kept
  <2>4. k \in {4, 6, 8, 10, 12}
    <3>1. AddressTime(o, 4, 8, 8) \in {0, 2, 4, 6, 8}
      BY AddressTimes
    <3>2. QED
      BY <3>1
  <2>5. r = Took(n, k)
    BY <1>2, <1>4 DEF Action, Action_Simple, Action_LEA
  <2> HIDE DEF k, n
  <2>6. Quiet(n, r) /\ r.cycles = k
    <3>1. k \in Int
      BY <2>4
    <3>2. QED
      BY <2>3, <2>5, <3>1, QuietSteps
  <2>7. Quiet(m, r) /\ "result_value" \in r.written
    <3>1. Quiet(m, r)
      BY <2>1, <2>2, <2>3, <2>6, QuietIsTransitive
    <3>2. n.written \subseteq r.written
      BY <2>6 DEF Quiet
    <3>3. QED
      BY <2>2, <3>1, <3>2
  <2>8. Timely(r)
    <3>1. PICK x \in 2..6 : k = 2 * x
      BY <2>4
    <3>2. x \in 2..84 /\ r.frames = <<>>
      BY <2>1, <2>7 DEF Quiet
    <3>3. QED
      BY <2>6, <3>1, <3>2 DEF Timely
  <2>9. QED
    BY <1>2, <1>4, <2>7, <2>8, AnswersActed
<1>5. CASE a # "LEA" /\ a \notin {"OR", "AND", "EOR", "ADD", "SUB", "ADDA", "SUBA", "CMP", "CMPA",
                  "CMPM", "CMPI", "MOVEP", "MOVEA", "MOVE", "NEGX", "NEG", "NOT", "CLR", "EXT",
                  "SWAP", "TST", "MOVEQ", "ADDX", "SUBX", "SCC", "MULS", "MULU", "RESET", "EXG", "NOP"}
  BY <1>1, <1>2, <1>5, CodingActs, LeavingActs, InterruptingActs, PrivilegedActs, AddingQuickActs
<1>6. QED
  BY <1>3, <1>4, <1>5

(***************************************************************************)
(* The order of the steps.                                                 *)
(***************************************************************************)

StageNames ==
  {"supervisor_check", "size", "source_address_mode", "read_source",
   "destination_address_mode", "read_destination", "action",
   "write_destination", "condition_codes"}

LEMMA Positions ==
  /\ DOMAIN Position = StageNames
  /\ Position["supervisor_check"] = 1 /\ Position["size"] = 2
  /\ Position["source_address_mode"] = 3 /\ Position["read_source"] = 4
  /\ Position["destination_address_mode"] = 5 /\ Position["read_destination"] = 6
  /\ Position["action"] = 7 /\ Position["write_destination"] = 8
  /\ Position["condition_codes"] = 9
<1>1. /\ Stages[1] = "supervisor_check" /\ Stages[2] = "size"
      /\ Stages[3] = "source_address_mode" /\ Stages[4] = "read_source"
      /\ Stages[5] = "destination_address_mode" /\ Stages[6] = "read_destination"
      /\ Stages[7] = "action" /\ Stages[8] = "write_destination"
      /\ Stages[9] = "condition_codes"
  BY DEF Stages
<1>2. 1..9 = {1, 2, 3, 4, 5, 6, 7, 8, 9}
  OBVIOUS
<1>3. {Stages[n] : n \in 1..9} = StageNames
  <2>1. \A n \in 1..9 : Stages[n] \in StageNames
    BY <1>1, <1>2 DEF StageNames
  <2>2. ASSUME NEW s \in StageNames
        PROVE  \E n \in 1..9 : s = Stages[n]
    BY <1>1, <1>2 DEF StageNames
  <2>3. QED
    BY <2>1, <2>2
<1>4. \A n, k \in 1..9 : Stages[n] = Stages[k] => n = k
  BY <1>1, <1>2
<1>5. ASSUME NEW k \in 1..9
      PROVE  Position[Stages[k]] = k
  <2>1. Position[Stages[k]] = CHOOSE n \in 1..9 : Stages[n] = Stages[k]
    BY DEF Position
  <2>2. \A n \in 1..9 : Stages[n] = Stages[k] <=> n = k
    BY <1>4
  <2> DEFINE c == CHOOSE n \in 1..9 : Stages[n] = Stages[k]
  <2>3. c \in 1..9 /\ Stages[c] = Stages[k]
    BY <2>2
  <2>4. QED
    BY <2>1, <2>2, <2>3
<1>6. DOMAIN Position = StageNames
  BY <1>3 DEF Position
<1>7. QED
  BY <1>1, <1>5, <1>6

LEMMA PositionsDiffer ==
  ASSUME NEW s \in StageNames, NEW t \in StageNames, s # t
  PROVE  Position[s] \in 1..9 /\ Position[t] \in 1..9 /\ Position[s] # Position[t]
BY Positions DEF StageNames

(***************************************************************************)
(* The inductive invariant: what the steps that were passed have left.     *)
(***************************************************************************)

(* The steps left are the last ones of the instruction. *)
Ordered(i, S) ==
  /\ S \subseteq Cases[i]
  /\ \A s \in S, t \in Cases[i] : Position[s] < Position[t] => t \in S

Passed(i, S, s) == s \in Cases[i] /\ s \notin S

Aligned(mode) == mode.type = "memory" /\ mode.size \in {2, 4} => ~mode.odd

SourceFound(i, m) ==
  /\ "source_mode" \in m.written
  /\ m.source.type \in IF GetSourceOperand(i) = "status_register" THEN {"status_register"}
                       ELSE {"register", "memory"}

SpecialRegisters == {"status_register", "condition_code_register"}

DestinationFound(i, m) ==
  /\ "destination_mode" \in m.written
  /\ m.destination.type \in IF GetDestinationOperand(i) \in SpecialRegisters
                            THEN {GetDestinationOperand(i)}
                            ELSE {"register", "memory"}
  /\ i \in {"DIVS", "DIVU"} => m.destination.type = "register"
  /\ IsDestinationOperandWritten(i) /\ m.destination.type = "memory" => m.destination.size # 0

(* The times of the addresses of source and destination. *)
Elapsed(o, i, S, m) ==
  \E a, b \in 0..8 :
    /\ m.cycles = 4 + 2 * a + 2 * b
    /\ "source_address_mode" \in S => a = 0
    /\ "destination_address_mode" \in S => b = 0
    /\ i = "DIVS" => a <= 6 /\ b = 0
    /\ i = "STOP" => b = 0
    /\ i = "STOP" /\ "source_address_mode" \notin S => a = 2
    /\ i = "MOVE" /\ o.secondary_address_mode = 4 /\ "destination_address_mode" \notin S => b >= 3

(* The extension words of source and destination. *)
Extended(S, m) ==
  \E c, d \in {0, 2, 4} :
    /\ m.extension = c + d
    /\ "source_address_mode" \in S => c = 0
    /\ "destination_address_mode" \in S => d = 0

Before(o, i, S, m) ==
  /\ m \in Stuffs /\ m.outcome = "running" /\ m.stale = {} /\ m.frames = <<>>
  /\ m.codes = Start.codes /\ m.system = {}
  /\ ~IsSourceOperandRead(i) => "source_mode" \notin m.written
  /\ Passed(i, S, "supervisor_check") => m.supervisor
  /\ Passed(i, S, "size") => {"operation_size", "msb_bit_index"} \subseteq m.written
  /\ Passed(i, S, "size") => m.operation_size = OperationSize(o, GetSize(i))
  /\ Passed(i, S, "source_address_mode") => SourceFound(i, m)
  /\ Passed(i, S, "read_source") => "source_value" \in m.written
  /\ Passed(i, S, "destination_address_mode") => DestinationFound(i, m)
  /\ Passed(i, S, "read_destination") =>
       "destination_value" \in m.written /\ Aligned(m.destination)
  /\ Elapsed(o, i, S, m)
  /\ Extended(S, m)

ToWrite(i, m) ==
  /\ {"destination_mode", "result_value"} \subseteq m.written
  /\ m.destination.type = "memory" => m.destination.size # 0
  /\ m.destination.type = "status_register" => m.supervisor
  /\ m.codes # Start.codes => Aligned(m.destination)
  /\ m.frames # <<>> => m.destination.type = "register"

ToUpdate(i, m) ==
  /\ Needs(i) \subseteq m.written
  /\ m.frames # <<>> => i \in {"DIVS", "DIVU"} /\ m.codes["C"] = "clear"

After(i, S, m) ==
  /\ m \in Stuffs
  /\ m.stale # {} =>
       m.stale = {"source_mode"} /\ GetAction(i) \in {"ADDQ", "SUBQ"} /\ DelayedBySource(m)
  /\ m.outcome # "crash"
  /\ m.outcome = "fault" /\ i \notin {"RTE", "RTR"} => m.codes = Start.codes
  /\ m.system # {} => m.supervisor
  /\ Framed(m)
  /\ Timely(m)
  /\ m.extension \in {0, 2, 4, 6, 8}
  /\ "write_destination" \in S => ToWrite(i, m)
  /\ "condition_codes" \in S => ToUpdate(i, m)

Stepping ==
  /\ opcode.raw \in Opcodes /\ opcode = SplitOpcode(opcode.raw)
  /\ instruction = DecodeOpcode(opcode.raw)
  /\ Ordered(instruction, steps)
  /\ stuff.outcome # "running" => steps = {}
  /\ "action" \in steps => Before(opcode, instruction, steps, stuff)
  /\ "action" \notin steps => After(instruction, steps, stuff)

IInv ==
  \/ instruction = "none" /\ steps = {} /\ stuff = Start
  \/ instruction # "none" /\ Stepping

(* The row of an instruction, and its steps. *)
LEMMA Row ==
  ASSUME NEW i \in Instructions
  PROVE  /\ i \in Names
         /\ Properties[i].size = GetSize(i)
         /\ Properties[i].source = GetSourceOperand(i)
         /\ Properties[i].destination = GetDestinationOperand(i)
         /\ Properties[i].action = GetAction(i)
         /\ Properties[i].modifiers["C"] = GetCarryModifier(i)
         /\ Properties[i].modifiers["V"] = GetOverflowModifier(i)
         /\ Properties[i].modifiers["Z"] = GetZeroModifier(i)
         /\ Properties[i].modifiers["N"] = GetNegativeModifier(i)
         /\ Properties[i].modifiers["X"] = GetExtendModifier(i)
<1>1. i \in Names
  BY OpcodesAssumption, DecodedInstruction DEF Instructions
<1>2. QED
  BY <1>1 DEF Properties

LEMMA Steps ==
  ASSUME NEW i \in Instructions
  PROVE  /\ Cases[i] \subseteq StageNames
         /\ "supervisor_check" \in Cases[i] <=> IsPrivileged(i)
         /\ "size" \in Cases[i] <=> GetSize(i) # "none"
         /\ "source_address_mode" \in Cases[i] <=> IsSourceOperandRead(i)
         /\ "read_source" \in Cases[i] <=> IsSourceOperandRead(i)
         /\ "destination_address_mode" \in Cases[i] <=>
              IsDestinationOperandRead(i) \/ IsDestinationOperandWritten(i)
         /\ "read_destination" \in Cases[i] <=> IsDestinationOperandRead(i)
         /\ "action" \in Cases[i]
         /\ "write_destination" \in Cases[i] <=> IsDestinationOperandWritten(i)
         /\ "condition_codes" \in Cases[i] <=> ~NoModifiers(i)
<1> DEFINE p == Properties[i]
<1>1. \A s : s \in Cases[i] <=> s \in StageNames /\ Applies(p, s)
  BY Positions DEF Cases
<1>2. /\ p.privileged = IsPrivileged(i) /\ p.size = GetSize(i)
      /\ p.source_read = IsSourceOperandRead(i)
      /\ p.destination_read = IsDestinationOperandRead(i)
      /\ p.destination_written = IsDestinationOperandWritten(i)
  BY DEF Properties
<1>3. (\E c \in ConditionCodes : p.modifiers[c] \notin Unmodified) <=> ~NoModifiers(i)
  BY Row DEF ConditionCodes, NoModifiers
<1> HIDE DEF p
<1>4. /\ Applies(p, "supervisor_check") <=> p.privileged
      /\ Applies(p, "size") <=> p.size # "none"
      /\ Applies(p, "source_address_mode") <=> p.source_read
      /\ Applies(p, "read_source") <=> p.source_read
      /\ Applies(p, "destination_address_mode") <=> p.destination_read \/ p.destination_written
      /\ Applies(p, "read_destination") <=> p.destination_read
      /\ Applies(p, "write_destination") <=> p.destination_written
      /\ Applies(p, "action")
      /\ Applies(p, "condition_codes") <=>
           \E c \in ConditionCodes : p.modifiers[c] \notin Unmodified
  BY DEF Applies
<1>5. QED
  BY <1>1, <1>2, <1>3, <1>4 DEF StageNames

(* The step taken is the first of those left, the others stay. *)
LEMMA StepsLeft ==
  ASSUME instruction \in Instructions, Ordered(instruction, steps), NEW s, At(s)
  PROVE  /\ s \in Cases[instruction] /\ s \in steps
         /\ {t \in steps : ~At(t)} = steps \ {s}
         /\ Ordered(instruction, steps \ {s})
         /\ \A t \in Cases[instruction] : t \in steps <=> Position[s] <= Position[t]
<1>1. Cases[instruction] \subseteq StageNames
  BY Steps
<1>2. s \in steps /\ steps \subseteq StageNames /\ steps \subseteq Cases[instruction]
  BY <1>1 DEF At, Ordered
<1>3. \A t \in StageNames : Position[t] \in 1..9
  BY Positions DEF StageNames
<1>4. \A t \in steps : Position[s] <= Position[t]
  BY DEF At
<1>5. \A t \in steps : At(t) <=> t = s
  <2>1. At(s)
    OBVIOUS
  <2>2. ASSUME NEW t \in steps, At(t)
        PROVE  t = s
    <3>1. Position[t] <= Position[s]
      BY <1>2, <2>2 DEF At
    <3>2. QED
      BY <1>2, <1>3, <1>4, <3>1, PositionsDiffer
  <2>3. QED
    BY <2>1, <2>2
<1>6. {t \in steps : ~At(t)} = steps \ {s}
  BY <1>5
<1>7. ASSUME NEW t \in Cases[instruction]
      PROVE  t \in steps <=> Position[s] <= Position[t]
  <2>1. Position[s] < Position[t] => t \in steps
    BY <1>2, <1>7 DEF Ordered
  <2>2. t # s => Position[s] # Position[t]
    BY <1>1, <1>2, <1>7, PositionsDiffer
  <2>3. Position[s] \in 1..9 /\ Position[t] \in 1..9
    BY <1>1, <1>2, <1>3
  <2>4. QED
    BY <1>2, <1>4, <2>1, <2>2, <2>3
<1>8. Ordered(instruction, steps \ {s})
  <2>1. ASSUME NEW u \in steps \ {s}, NEW t \in Cases[instruction], Position[u] < Position[t]
        PROVE  t \in steps \ {s}
    <3>1. t \in steps
      BY <2>1 DEF Ordered
    <3>2. Position[s] <= Position[u] /\ Position[s] \in 1..9 /\ Position[u] \in 1..9
      BY <1>2, <1>3, <1>4
    <3>3. t # s
      BY <2>1, <3>2
    <3>4. QED
      BY <3>1, <3>3
  <2>2. QED
    BY <1>2, <2>1 DEF Ordered
<1>9. QED
  BY <1>2, <1>6, <1>7, <1>8

(***************************************************************************)
(* The action, between the steps before it and those after it.             *)
(***************************************************************************)

(* The steps left are those from the one at a position on. *)
From(i, S, n) == S \subseteq Cases[i] /\ \A t \in Cases[i] : t \in S <=> n <= Position[t]

(* What the addresses of the operands cost so far. *)
LEMMA CyclesBefore ==
  ASSUME NEW o, NEW i, NEW S, NEW m, Before(o, i, S, m)
  PROVE  /\ \E n \in 2..18 : m.cycles = 2 * n
         /\ i = "DIVS" => m.cycles <= 16
         /\ i = "STOP" /\ "source_address_mode" \notin S => m.cycles = 8
         /\ i = "MOVE" /\ o.secondary_address_mode = 4 /\ "destination_address_mode" \notin S =>
              m.cycles >= 10
         /\ m.extension \in {0, 2, 4, 6, 8}
<1>1. PICK a \in 0..8, b \in 0..8 :
        /\ m.cycles = 4 + 2 * a + 2 * b
        /\ i = "DIVS" => a <= 6 /\ b = 0
        /\ i = "STOP" => b = 0
        /\ i = "STOP" /\ "source_address_mode" \notin S => a = 2
        /\ i = "MOVE" /\ o.secondary_address_mode = 4 /\ "destination_address_mode" \notin S => b >= 3
  BY DEF Before, Elapsed
<1> DEFINE n == 2 + a + b
<1>2. n \in 2..18 /\ m.cycles = 2 * n
  BY <1>1
<1>3. PICK c \in {0, 2, 4}, d \in {0, 2, 4} : m.extension = c + d
  BY DEF Before, Extended
<1>4. m.extension \in {0, 2, 4, 6, 8}
  BY <1>3
<1> HIDE DEF n
<1>5. \E k \in 2..18 : m.cycles = 2 * k
  BY <1>2
<1>6. QED
  BY <1>1, <1>4, <1>5

LEMMA DestinationRules ==
  ASSUME NEW i \in Names
  PROVE  /\ i = "MOVE_TO_SR" => GetDestinationOperand(i) = "status_register"
         /\ i = "MOVE_TO_CCR" => GetDestinationOperand(i) = "condition_code_register"
         /\ i \in {"MOVE_TO_SR", "MOVE_TO_CCR"} => IsDestinationOperandWritten(i)
         /\ GetDestinationOperand(i) = "status_register" => IsPrivileged(i)
<1>1. /\ i = "MOVE_TO_SR" => GetDestinationOperand(i) = "status_register"
      /\ i = "MOVE_TO_CCR" => GetDestinationOperand(i) = "condition_code_register"
  BY DEF GetDestinationOperand
<1>2. i \in {"MOVE_TO_SR", "MOVE_TO_CCR"} => IsDestinationOperandWritten(i)
  BY DEF IsDestinationOperandWritten, NoDestination, ReadOnly
<1>3. GetDestinationOperand(i) = "status_register" => IsPrivileged(i)
  <2>1. GetDestinationOperand(i) = "status_register" =>
          i \in {"ORI_TO_SR", "ANDI_TO_SR", "EORI_TO_SR", "MOVE_TO_SR"}
    BY DEF GetDestinationOperand, Names
  <2>2. QED
    BY <2>1 DEF IsPrivileged
<1>4. QED
  BY <1>1, <1>2, <1>3

LEMMA StopReads == IsSourceOperandRead("STOP")
BY DEF IsSourceOperandRead

(* The steps before the action make it ready. *)
LEMMA BeforeAction ==
  ASSUME NEW o, NEW i \in Instructions, NEW S, From(i, S, 7), NEW m, Before(o, i, S, m)
  PROVE  Ready(o, i, m)
<1>1. i \in Names
  BY Row
<1>2. \A t \in Cases[i] : Position[t] < 7 => Passed(i, S, t)
  BY Steps, Positions DEF From, Passed, StageNames
<1>3. /\ GetSize(i) # "none" => Passed(i, S, "size")
      /\ IsSourceOperandRead(i) =>
           Passed(i, S, "source_address_mode") /\ Passed(i, S, "read_source")
      /\ IsDestinationOperandRead(i) \/ IsDestinationOperandWritten(i) =>
           Passed(i, S, "destination_address_mode")
      /\ IsDestinationOperandRead(i) => Passed(i, S, "read_destination")
  BY <1>2, Steps, Positions
<1>4. /\ m \in Stuffs /\ m.outcome = "running" /\ m.stale = {} /\ m.frames = <<>>
      /\ m.codes = Start.codes /\ m.system = {}
      /\ ~IsSourceOperandRead(i) => "source_mode" \notin m.written
  BY DEF Before
<1>5. GetSize(i) # "none" => {"operation_size", "msb_bit_index"} \subseteq m.written
  BY <1>3 DEF Before
<1>6. IsSourceOperandRead(i) => SourceFound(i, m) /\ "source_value" \in m.written
  BY <1>3 DEF Before
<1>7. IsDestinationOperandRead(i) \/ IsDestinationOperandWritten(i) => DestinationFound(i, m)
  BY <1>3 DEF Before
<1>8. IsDestinationOperandRead(i) => "destination_value" \in m.written
  BY <1>3 DEF Before
<1>9. i = "STOP" => "source_address_mode" \notin S
  BY <1>3, StopReads DEF Passed
<1>10. i = "MOVE" => "destination_address_mode" \notin S
  <2>1. GetAction("MOVE") = "MOVE"
    BY DEF GetAction
  <2>2. i = "MOVE" => IsDestinationOperandWritten(i)
    BY <1>1, <2>1, ActionOperands
  <2>3. QED
    BY <1>3, <2>2 DEF Passed
<1>11. /\ \E n \in 2..18 : m.cycles = 2 * n
       /\ i = "DIVS" => m.cycles <= 16
       /\ i = "STOP" => m.cycles = 8
       /\ i = "MOVE" /\ o.secondary_address_mode = 4 => m.cycles >= 6
  BY <1>9, <1>10, CyclesBefore
<1>12. i \in {"MOVE_TO_SR", "MOVE_TO_CCR"} =>
         m.destination.type \in {"status_register", "condition_code_register"}
  BY <1>1, <1>7, DestinationRules DEF DestinationFound, SpecialRegisters
<1>13. QED
  BY <1>4, <1>5, <1>6, <1>7, <1>8, <1>11, <1>12 DEF Ready, SourceFound, DestinationFound

LEMMA AfterAction ==
  ASSUME NEW o, NEW i \in Instructions, NEW S, From(i, S, 7), NEW m, Before(o, i, S, m),
         NEW r, Acted(i, m, r),
         NEW T \in SUBSET S, r.outcome # "running" => T = {}
  PROVE  After(i, T, r)
<1>1. i \in Names
  BY Row
<1>2. \A t \in Cases[i] : Position[t] < 7 => Passed(i, S, t)
  BY Steps, Positions DEF From, Passed, StageNames
<1>3. /\ Kept(m, r) /\ m.written \subseteq r.written
      /\ r.stale # {} =>
           r.stale = {"source_mode"} /\ GetAction(i) \in {"ADDQ", "SUBQ"} /\ DelayedBySource(m)
      /\ r.outcome # "crash"
      /\ r.outcome = "fault" /\ i \notin {"RTE", "RTR"} => r.codes = Start.codes
      /\ r.system # {} => IsPrivileged(i)
      /\ Framed(r) /\ Timely(r)
  BY DEF Acted
<1>4. r.system # {} => r.supervisor
  <2>1. IsPrivileged(i) => Passed(i, S, "supervisor_check")
    BY <1>2, Steps, Positions
  <2>2. IsPrivileged(i) => m.supervisor
    BY <2>1 DEF Before
  <2>3. QED
    BY <1>3, <2>2 DEF Kept
<1>5. r.extension \in {0, 2, 4, 6, 8}
  BY <1>3, CyclesBefore DEF Kept
<1>6. DelayedBySource(m) => DelayedBySource(r)
  BY <1>3 DEF DelayedBySource, Kept
<1>7. T \subseteq Cases[i]
  BY DEF From
<1>8. ASSUME "write_destination" \in T
      PROVE  ToWrite(i, r)
  <2>1. IsDestinationOperandWritten(i) /\ r.outcome = "running"
    BY <1>7, <1>8, Steps
  <2>2. Passed(i, S, "destination_address_mode")
    BY <1>2, <2>1, Steps, Positions
  <2>3. DestinationFound(i, m) /\ r.destination = m.destination
    BY <1>3, <2>2 DEF Before, Kept
  <2>4. {"destination_mode", "result_value"} \subseteq r.written
    BY <1>3, <2>1, <2>3 DEF Acted, DestinationFound
  <2>5. r.destination.type = "memory" => r.destination.size # 0
    BY <2>1, <2>3 DEF DestinationFound
  <2>6. r.destination.type = "status_register" => r.supervisor
    <3>1. r.destination.type = "status_register" => GetDestinationOperand(i) = "status_register"
      BY <2>3 DEF DestinationFound, SpecialRegisters
    <3>2. GetDestinationOperand(i) = "status_register" => Passed(i, S, "supervisor_check")
      BY <1>1, <1>2, Steps, Positions, DestinationRules
    <3>3. QED
      BY <1>3, <3>1, <3>2 DEF Before, Kept
  <2>7. r.codes # Start.codes => Aligned(r.destination)
    <3>1. r.codes # Start.codes => IsDestinationOperandRead(i)
      BY <2>1 DEF Acted
    <3>2. IsDestinationOperandRead(i) => Passed(i, S, "read_destination")
      BY <1>2, Steps, Positions
    <3>3. QED
      BY <2>3, <3>1, <3>2 DEF Before
  <2>8. r.frames # <<>> => r.destination.type = "register"
    <3>1. r.frames # <<>> => i \in {"DIVS", "DIVU"}
      BY <2>1 DEF Acted
    <3>2. QED
      BY <2>3, <3>1 DEF DestinationFound
  <2>9. QED
    BY <2>4, <2>5, <2>6, <2>7, <2>8 DEF ToWrite
<1>9. ASSUME "condition_codes" \in T
      PROVE  ToUpdate(i, r)
  <2>1. ~NoModifiers(i) /\ r.outcome = "running"
    BY <1>7, <1>9, Steps
  <2>2. r.frames # <<>> => i \in {"DIVS", "DIVU"} /\ r.codes["C"] = "clear"
    BY <2>1 DEF Acted
  <2>3. Needs(i) \subseteq {"source_value", "destination_value", "result_value", "msb_bit_index"}
    BY <1>1, ActionResults
  <2>4. /\ "source_value" \in Needs(i) => "source_value" \in r.written
        /\ "result_value" \in Needs(i) => "result_value" \in r.written
    BY <2>1 DEF Acted
  <2>5. "destination_value" \in Needs(i) => "destination_value" \in r.written
    <3>1. "destination_value" \in Needs(i) => Passed(i, S, "read_destination")
      BY <1>1, <1>2, ActionResults, Steps, Positions
    <3>2. QED
      BY <1>3, <3>1 DEF Before
  <2>6. "msb_bit_index" \in Needs(i) => "msb_bit_index" \in r.written
    <3>1. "msb_bit_index" \in Needs(i) => Passed(i, S, "size")
      BY <1>1, <1>2, ActionResults, Steps, Positions
    <3>2. QED
      BY <1>3, <3>1 DEF Before
  <2>7. Needs(i) \subseteq r.written
    BY <2>3, <2>4, <2>5, <2>6
  <2>8. QED
    BY <2>2, <2>7 DEF ToUpdate
<1>10. r \in Stuffs
  BY <1>3 DEF Kept
<1>11. QED
  BY <1>3, <1>4, <1>5, <1>6, <1>8, <1>9, <1>10 DEF After

(***************************************************************************)
(* Addressing.                                                             *)
(***************************************************************************)

Sizes == {0, 1, 2, 4}

LEMMA SizeOfOperation ==
  ASSUME NEW o \in Splits, NEW i \in Names, GetSize(i) # "none"
  PROVE  /\ OperationSize(o, GetSize(i)) \in {1, 2, 4}
         /\ i = "STOP" => OperationSize(o, GetSize(i)) = 2
<1>1. GetSize(i) \in {"byte", "word", "longword", "longword_register_byte_memory", "move", "ext",
                      "standard"}
  BY DEF GetSize, Names
<1>2. \A n \in 0..3 : /\ <<1, 1, 4, 2>>[n + 1] \in {1, 2, 4}
                      /\ <<1, 2, 4, 4>>[n + 1] \in {1, 2, 4}
  OBVIOUS
<1>3. o.bits_6_and_7 \in 0..3 /\ Bits(o.raw, 12, 2) \in 0..3
  BY BitsRange DEF Splits
<1>4. ASSUME NEW rule \in {"byte", "word", "longword", "longword_register_byte_memory", "move",
                           "ext", "standard"}
      PROVE  OperationSize(o, rule) \in {1, 2, 4}
  BY <1>2, <1>3 DEF OperationSize
<1>5. OperationSize(o, "word") = 2
  BY DEF OperationSize
<1>6. GetSize("STOP") = "word"
  BY DEF GetSize
<1>7. QED
  BY <1>1, <1>4, <1>5, <1>6

(* The rules of the operands that instructions have. *)
LEMMA SourceRules ==
  ASSUME NEW i \in Names, IsSourceOperandRead(i)
  PROVE  /\ GetSourceOperand(i) \in
              SizedSources \cup {"immediate_data_byte", "immediate_data_word",
                "primary_address_mode_word", "primary_address_mode_sized",
                "memory_address_primary", "status_register"}
         /\ GetSourceOperand(i) \in SizedSources => GetSize(i) # "none"
         /\ i = "DIVS" => GetSourceOperand(i) = "primary_address_mode_word"
         /\ i = "STOP" => GetSourceOperand(i) = "immediate_data"
<1>1. GetSourceOperand(i) \in
        {"immediate_data", "data_register_secondary", "bcd_x",
         "data_register_secondary_or_primary_address_mode",
         "address_register_primary_postincrement", "primary_address_mode",
         "immediate_data_byte", "immediate_data_word", "primary_address_mode_word",
         "primary_address_mode_sized", "memory_address_primary", "status_register"}
  BY DEF GetSourceOperand, IsSourceOperandRead, Names
<1>2. GetSourceOperand(i) \in SizedSources => GetSize(i) # "none"
  BY DEF GetSourceOperand, SizedSources, GetSize, Names
<1>3. i = "DIVS" => GetSourceOperand(i) = "primary_address_mode_word"
  BY DEF GetSourceOperand
<1>4. i = "STOP" => GetSourceOperand(i) = "immediate_data"
  BY DEF GetSourceOperand
<1>5. QED
  BY <1>1, <1>2, <1>3, <1>4 DEF SizedSources

LEMMA DestinationOperandRules ==
  ASSUME NEW i \in Names, IsDestinationOperandRead(i) \/ IsDestinationOperandWritten(i)
  PROVE  /\ GetDestinationOperand(i) \in
              SizedDestinations \cup {"address_register_secondary_full", "movem", "movep",
                "condition_code_register", "status_register"}
         /\ GetDestinationOperand(i) \in SizedDestinations => GetSize(i) # "none"
         /\ IsDestinationOperandWritten(i) => GetDestinationOperand(i) \notin {"movem", "movep"}
         /\ i \in {"DIVS", "DIVU"} => GetDestinationOperand(i) = "data_register_secondary"
         /\ i = "MOVE" => GetDestinationOperand(i) = "secondary_address_mode"
         /\ i # "STOP"
<1>1. GetDestinationOperand(i) \in
        {"data_register_primary", "data_register_secondary", "address_register_secondary",
         "secondary_address_mode", "bcd_x", "data_register_secondary_or_primary_address_mode",
         "address_register_secondary_postincrement", "primary_address_mode",
         "address_register_secondary_full", "movem", "movep",
         "condition_code_register", "status_register"}
  BY DEF GetDestinationOperand, IsDestinationOperandRead, IsDestinationOperandWritten,
         NoDestination, WrittenOnly, ReadOnly, Names
<1>2. GetDestinationOperand(i) \in SizedDestinations => GetSize(i) # "none"
  BY DEF GetDestinationOperand, SizedDestinations, GetSize, Names
<1>3. GetDestinationOperand(i) \in {"movem", "movep"} => i \in {"MOVEM", "MOVEP"}
  BY DEF GetDestinationOperand, Names
<1>4. IsDestinationOperandWritten(i) => i \notin {"MOVEM", "MOVEP"}
  BY DEF IsDestinationOperandWritten, ReadOnly
<1>5. i \in {"DIVS", "DIVU"} => GetDestinationOperand(i) = "data_register_secondary"
  BY DEF GetDestinationOperand
<1>6. i = "MOVE" => GetDestinationOperand(i) = "secondary_address_mode"
  BY DEF GetDestinationOperand
<1>7. i # "STOP"
  BY DEF IsDestinationOperandRead, IsDestinationOperandWritten, NoDestination
<1>8. QED
  BY <1>1, <1>2, <1>3, <1>4, <1>5, <1>6, <1>7 DEF SizedDestinations

LEMMA AddressCosts ==
  ASSUME NEW size \in Sizes, NEW address
  PROVE  /\ \E k \in 0..8 :
              /\ AddressCycles(address, size) = 2 * k
              /\ size = 2 => k <= 6
              /\ size = 2 /\ address = "immediate" => k = 2
              /\ address = "predecrement" => k >= 3
         /\ 2 * Len(ExtensionWords(address, size)) \in {0, 2, 4}
<1> DEFINE word == CASE address \in {"indirect", "postincrement", "immediate"} -> 4
                     [] address = "predecrement" -> 6
                     [] address \in {"displacement", "pc_displacement", "absolute_short"} -> 8
                     [] address \in {"index", "pc_index"} -> 10
                     [] address = "absolute_long" -> 12
                     [] OTHER -> 0
           count == CASE address = "immediate" -> <<0, 1, 1, 1, 2>>[size + 1]
                      [] address = "absolute_long" -> 2
                      [] address \in {"absolute_short", "displacement", "index",
                                      "pc_displacement", "pc_index"} -> 1
                      [] OTHER -> 0
<1>1. /\ word \in {0, 4, 6, 8, 10, 12} /\ (address = "predecrement" => word = 6)
      /\ address = "immediate" => word = 4
  OBVIOUS
<1>2. AddressCycles(address, size) = IF word # 0 /\ size = 4 THEN word + 4 ELSE word
  BY DEF AddressCycles
<1> HIDE DEF word
<1>3. PICK h \in {0, 2, 3, 4, 5, 6} : word = 2 * h
  BY <1>1
<1> DEFINE Costs(k) == /\ AddressCycles(address, size) = 2 * k
                       /\ size = 2 => k <= 6
                       /\ size = 2 /\ address = "immediate" => k = 2
                       /\ address = "predecrement" => k >= 3
<1>4. ASSUME word # 0 /\ size = 4
      PROVE  \E k \in 0..8 : Costs(k)
  <2>1. h + 2 \in 0..8 /\ AddressCycles(address, size) = 2 * (h + 2)
    BY <1>2, <1>3, <1>4
  <2>2. address = "predecrement" => h + 2 >= 3
    BY <1>1, <1>3
  <2>3. QED
    BY <1>4, <2>1, <2>2
<1>5. ASSUME ~(word # 0 /\ size = 4)
      PROVE  \E k \in 0..8 : Costs(k)
  <2>1. h \in 0..8 /\ h <= 6 /\ AddressCycles(address, size) = 2 * h
    BY <1>2, <1>3, <1>5
  <2>2. /\ address = "predecrement" => h >= 3
        /\ address = "immediate" => h = 2
    BY <1>1, <1>3
  <2>3. QED
    BY <2>1, <2>2
<1>6. count \in {0, 1, 2}
  <2>1. <<0, 1, 1, 1, 2>>[size + 1] \in {0, 1, 2}
    BY DEF Sizes
  <2>2. QED
    BY <2>1
<1>7. ExtensionWords(address, size) = [n \in 1..count |-> address]
  BY DEF ExtensionWords
<1> HIDE DEF count
<1>8. Len([n \in 1..count |-> address]) = count
  BY <1>6
<1>9. 2 * Len(ExtensionWords(address, size)) \in {0, 2, 4}
  BY <1>6, <1>7, <1>8
<1>10. QED
  BY <1>4, <1>5, <1>9

LEMMA DecodedModes ==
  ASSUME NEW size \in Sizes, NEW address, NEW mode \in Decoded(size, address)
  PROVE  /\ mode \in Modes /\ mode.size = size
         /\ mode.type = IF IsRegister(address) THEN "register" ELSE "memory"
<1> DEFINE type == IF IsRegister(address) THEN "register" ELSE "memory"
           immediate == address = "immediate"
<1>1. PICK odd \in BOOLEAN :
        mode = [type |-> type, size |-> size, odd |-> odd, immediate |-> immediate]
  BY DEF Decoded
<1>2. type \in {"register", "memory"} /\ immediate \in BOOLEAN
  OBVIOUS
<1>3. mode.type = type /\ mode.size = size
  BY <1>1
<1> HIDE DEF type, immediate
<1>4. mode \in Modes
  BY <1>1, <1>2 DEF Modes, Sizes
<1>5. QED
  BY <1>3, <1>4 DEF type

(* An address takes time and extension words, and nothing else. *)
LEMMA Addresses ==
  ASSUME NEW m \in Stuffs, NEW size \in Sizes, NEW address,
         NEW n, n = Addressed(m, size, address)
  PROVE  /\ n \in Stuffs
         /\ n.supervisor = m.supervisor /\ n.operation_size = m.operation_size
         /\ n.source = m.source /\ n.destination = m.destination
         /\ n.written = m.written /\ n.stale = m.stale /\ n.codes = m.codes
         /\ n.frames = m.frames /\ n.system = m.system /\ n.outcome = m.outcome
         /\ \E k \in 0..8 :
              /\ n.cycles = m.cycles + 2 * k
              /\ IsRegister(address) => k = 0
              /\ size = 2 => k <= 6
              /\ size = 2 /\ address = "immediate" => k = 2
              /\ address = "predecrement" => k >= 3
         /\ \E c \in {0, 2, 4} : n.extension = m.extension + c
<1> DEFINE Same(x) == /\ x \in Stuffs
                      /\ x.supervisor = m.supervisor /\ x.operation_size = m.operation_size
                      /\ x.source = m.source /\ x.destination = m.destination
                      /\ x.written = m.written /\ x.stale = m.stale /\ x.codes = m.codes
                      /\ x.frames = m.frames /\ x.system = m.system /\ x.outcome = m.outcome
<1>1. CASE IsRegister(address)
  <2>1. n = m
    BY <1>1 DEF Addressed
  <2>2. n.cycles = m.cycles + 2 * 0 /\ n.extension = m.extension + 0
    BY <2>1 DEF Stuffs
  <2>3. address \notin {"immediate", "predecrement"}
    BY <1>1 DEF IsRegister
  <2>4. QED
    BY <1>1, <2>1, <2>2, <2>3
<1>2. CASE ~IsRegister(address)
  <2>1. PICK k \in 0..8 :
          /\ AddressCycles(address, size) = 2 * k
          /\ size = 2 => k <= 6
          /\ size = 2 /\ address = "immediate" => k = 2
          /\ address = "predecrement" => k >= 3
    BY AddressCosts
  <2> DEFINE c == 2 * Len(ExtensionWords(address, size))
             t == Timed(m, 2 * k)
             e == t.extension + c
  <2>2. c \in {0, 2, 4}
    BY AddressCosts
  <2>3. n = [t EXCEPT !.extension = e]
    BY <1>2, <2>1 DEF Addressed
  <2>4. 2 * k \in Int
    OBVIOUS
  <2>5. Quiet(m, t) /\ t.written = m.written /\ t.cycles = m.cycles + 2 * k
    BY <2>4, QuietSteps
  <2>6. Same(t) /\ t.extension = m.extension
    BY <2>5 DEF Quiet, Kept
  <2>7. e \in Int /\ e = m.extension + c
    BY <2>2, <2>6 DEF Stuffs
  <2> HIDE DEF t, c, e
  <2>8. Same(n) /\ n.cycles = t.cycles /\ n.extension = e
    <3>1. t \in Stuffs /\ e \in Int
      BY <2>6, <2>7
    <3>2. n \in Stuffs
      BY <2>3, <3>1 DEF Stuffs
    <3>3. /\ n.supervisor = t.supervisor /\ n.operation_size = t.operation_size
          /\ n.source = t.source /\ n.destination = t.destination
          /\ n.written = t.written /\ n.stale = t.stale /\ n.codes = t.codes
          /\ n.frames = t.frames /\ n.system = t.system /\ n.outcome = t.outcome
          /\ n.cycles = t.cycles /\ n.extension = e
      BY <2>3, <3>1 DEF Stuffs
    <3>4. QED
      BY <2>6, <3>2, <3>3
  <2>9. /\ \E j \in 0..8 :
             /\ n.cycles = m.cycles + 2 * j
             /\ IsRegister(address) => j = 0
             /\ size = 2 => j <= 6
             /\ size = 2 /\ address = "immediate" => j = 2
             /\ address = "predecrement" => j >= 3
        /\ \E d \in {0, 2, 4} : n.extension = m.extension + d
    BY <1>2, <2>1, <2>2, <2>5, <2>7, <2>8
  <2>10. QED
    BY <2>8, <2>9
<1>3. QED
  BY <1>1, <1>2

(***************************************************************************)
(* One step before the action.                                             *)
(***************************************************************************)

(* Fields of Stuff were written, and the instruction goes on. *)
Calm(m, r) ==
  /\ r \in Stuffs /\ r.outcome = m.outcome /\ r.stale = m.stale /\ r.frames = m.frames
  /\ r.codes = m.codes /\ r.system = m.system
  /\ m.written \subseteq r.written

(* What a step has to do, and to leave alone, for the next one. *)
LEMMA BeforeStep ==
  ASSUME NEW o, NEW i \in Instructions, NEW S, NEW s \in Cases[i], NEW m, Before(o, i, S, m),
         NEW r, Calm(m, r),
         ~IsSourceOperandRead(i) => "source_mode" \notin r.written,
         m.supervisor \/ s = "supervisor_check" => r.supervisor,
         IF s = "size"
         THEN /\ {"operation_size", "msb_bit_index"} \subseteq r.written
              /\ r.operation_size = OperationSize(o, GetSize(i))
         ELSE r.operation_size = m.operation_size,
         IF s = "source_address_mode" THEN SourceFound(i, r) ELSE r.source = m.source,
         s = "read_source" => "source_value" \in r.written,
         IF s = "destination_address_mode"
         THEN DestinationFound(i, r) /\ ~Passed(i, S, "read_destination")
         ELSE r.destination = m.destination,
         s = "read_destination" => "destination_value" \in r.written /\ Aligned(r.destination),
         Elapsed(o, i, S \ {s}, r), Extended(S \ {s}, r)
  PROVE  Before(o, i, S \ {s}, r)
<1> DEFINE T == S \ {s}
<1>1. \A t : Passed(i, T, t) => Passed(i, S, t) \/ t = s
  BY DEF Passed
<1> HIDE DEF T
<1>2. /\ r \in Stuffs /\ r.outcome = "running" /\ r.stale = {} /\ r.frames = <<>>
      /\ r.codes = Start.codes /\ r.system = {} /\ m.written \subseteq r.written
  BY DEF Before, Calm
<1>3. Passed(i, T, "supervisor_check") => r.supervisor
  BY <1>1 DEF Before
<1>4. Passed(i, T, "size") => /\ {"operation_size", "msb_bit_index"} \subseteq r.written
                              /\ r.operation_size = OperationSize(o, GetSize(i))
  <2>1. CASE s = "size"
    BY <2>1
  <2>2. CASE s # "size"
    <3>1. Passed(i, T, "size") => Passed(i, S, "size")
      BY <1>1, <2>2
    <3>2. QED
      BY <1>2, <2>2, <3>1 DEF Before
  <2>3. QED
    BY <2>1, <2>2
<1>5. Passed(i, T, "source_address_mode") => SourceFound(i, r)
  <2>1. CASE s = "source_address_mode"
    BY <2>1
  <2>2. CASE s # "source_address_mode"
    <3>1. Passed(i, T, "source_address_mode") => SourceFound(i, m)
      BY <1>1, <2>2 DEF Before
    <3>2. QED
      BY <1>2, <2>2, <3>1 DEF SourceFound
  <2>3. QED
    BY <2>1, <2>2
<1>6. Passed(i, T, "read_source") => "source_value" \in r.written
  BY <1>1, <1>2 DEF Before
<1>7. Passed(i, T, "destination_address_mode") => DestinationFound(i, r)
  <2>1. CASE s = "destination_address_mode"
    BY <2>1
  <2>2. CASE s # "destination_address_mode"
    <3>1. Passed(i, T, "destination_address_mode") => DestinationFound(i, m)
      BY <1>1, <2>2 DEF Before
    <3>2. QED
      BY <1>2, <2>2, <3>1 DEF DestinationFound
  <2>3. QED
    BY <2>1, <2>2
<1>8. Passed(i, T, "read_destination") =>
        "destination_value" \in r.written /\ Aligned(r.destination)
  <2>1. CASE s = "read_destination"
    BY <2>1
  <2>2. CASE s # "read_destination"
    <3>1. Passed(i, T, "read_destination") =>
            /\ Passed(i, S, "read_destination")
            /\ "destination_value" \in m.written /\ Aligned(m.destination)
      BY <1>1, <2>2 DEF Before
    <3>2. QED
      BY <1>2, <3>1
  <2>3. QED
    BY <2>1, <2>2
<1>9. Before(o, i, T, r)
  BY <1>2, <1>3, <1>4, <1>5, <1>6, <1>7, <1>8 DEF Before, T
<1>10. QED
  BY <1>9 DEF T

(* The steps that are not about an address take no time. *)
LEMMA TimeStands ==
  ASSUME NEW o, NEW i, NEW S, NEW m, Before(o, i, S, m),
         NEW s, s \notin {"source_address_mode", "destination_address_mode"},
         NEW r, r.cycles = m.cycles, r.extension = m.extension
  PROVE  Elapsed(o, i, S \ {s}, r) /\ Extended(S \ {s}, r)
BY DEF Before, Elapsed, Extended

(* An instruction that ends early has done nothing to the system. *)
LEMMA EndsEarly ==
  ASSUME NEW o, NEW i, NEW S, NEW m, Before(o, i, S, m),
         NEW r \in Stuffs, r.stale = {}, r.codes = Start.codes, r.system = {},
         r.outcome # "crash", r.extension = m.extension,
         \/ r.frames = <<>> /\ r.cycles = m.cycles
         \/ Len(r.frames) = 1 /\ r.frames[1] = r.codes /\ r.cycles = m.cycles + 30
  PROVE  After(i, {}, r)
<1>1. PICK n \in 2..18 : m.cycles = 2 * n
  BY CyclesBefore
<1>2. n \in 2..84
  OBVIOUS
<1>3. Timely(r)
  BY <1>1, <1>2 DEF Timely
<1>4. Framed(r)
  BY DEF Framed
<1>5. r.extension \in {0, 2, 4, 6, 8}
  BY CyclesBefore
<1>6. QED
  BY <1>3, <1>4, <1>5 DEF After

(* What holds when a step begins. *)
LEMMA Here ==
  ASSUME Stepping, NEW s, At(s)
  PROVE  /\ instruction \in Instructions /\ instruction \in Names /\ opcode \in Splits
         /\ s \in steps /\ s \in Cases[instruction] /\ s \in StageNames
         /\ From(instruction, steps, Position[s])
         /\ Position[s] \in 1..9
         /\ Position[s] <= 7 => Before(opcode, instruction, steps, stuff)
         /\ Position[s] > 7 => After(instruction, steps, stuff)
         /\ stuff.outcome = "running"
<1>1. /\ opcode.raw \in Opcodes /\ opcode = SplitOpcode(opcode.raw)
      /\ instruction = DecodeOpcode(opcode.raw)
      /\ Ordered(instruction, steps)
      /\ stuff.outcome # "running" => steps = {}
      /\ "action" \in steps => Before(opcode, instruction, steps, stuff)
      /\ "action" \notin steps => After(instruction, steps, stuff)
  BY DEF Stepping
<1>2. instruction \in Instructions /\ opcode.raw \in AllOpcodes
  BY <1>1, OpcodesAssumption DEF Instructions
<1>3. opcode \in Splits
  BY <1>1, <1>2, Split
<1>4. instruction \in Names
  BY <1>2, Row
<1>5. /\ s \in Cases[instruction] /\ s \in steps
      /\ \A t \in Cases[instruction] : t \in steps <=> Position[s] <= Position[t]
  BY <1>1, <1>2, StepsLeft
<1>6. s \in StageNames
  BY <1>2, <1>5, Steps
<1>7. Position[s] \in 1..9
  BY <1>6, Positions DEF StageNames
<1>8. "action" \in steps <=> Position[s] <= 7
  BY <1>2, <1>5, Steps, Positions
<1>9. From(instruction, steps, Position[s])
  BY <1>1, <1>5 DEF From, Ordered
<1>10. Position[s] > 7 => "action" \notin steps
  BY <1>7, <1>8
<1>11. stuff.outcome = "running"
  BY <1>1, <1>5
<1>12. QED
  BY <1>1, <1>2, <1>3, <1>4, <1>5, <1>6, <1>7, <1>8, <1>9, <1>10, <1>11

(* What a step has to leave. *)
LEMMA StepTaken ==
  ASSUME Stepping, NEW s, At(s), NEW m, Continue(m),
         m.outcome # "running" => After(instruction, {}, m),
         m.outcome = "running" =>
           IF Position[s] < 7 THEN Before(opcode, instruction, steps \ {s}, m)
           ELSE After(instruction, steps \ {s}, m)
  PROVE  Stepping' /\ instruction' = instruction
<1>1. /\ instruction \in Instructions /\ s \in Cases[instruction] /\ s \in steps
      /\ s \in StageNames /\ Position[s] \in 1..9
  BY Here
<1>2. /\ Ordered(instruction, steps)
      /\ {t \in steps : ~At(t)} = steps \ {s}
      /\ Ordered(instruction, steps \ {s})
      /\ \A t \in Cases[instruction] : t \in steps <=> Position[s] <= Position[t]
  BY <1>1, StepsLeft DEF Stepping
<1>3. /\ stuff' = m /\ instruction' = instruction /\ opcode' = opcode
      /\ steps' = IF m.outcome = "running" THEN steps \ {s} ELSE {}
  BY <1>2 DEF Continue
<1>4. "action" \in steps \ {s} <=> Position[s] < 7
  <2>1. "action" \in Cases[instruction] /\ Position["action"] = 7
    BY <1>1, Steps, Positions
  <2>2. s = "action" => Position[s] = 7
    BY <2>1
  <2>3. s # "action" => Position[s] # 7
    BY <1>1, <2>1, PositionsDiffer DEF StageNames
  <2>4. QED
    BY <1>1, <1>2, <2>1, <2>2, <2>3
<1>5. Ordered(instruction, {})
  BY DEF Ordered
<1>6. CASE m.outcome = "running"
  <2>1. /\ "action" \in steps' => Before(opcode, instruction, steps', stuff')
        /\ "action" \notin steps' => After(instruction, steps', stuff')
    BY <1>3, <1>4, <1>6
  <2>2. Ordered(instruction, steps') /\ stuff'.outcome = "running"
    BY <1>2, <1>3, <1>6
  <2>3. QED
    BY <1>3, <2>1, <2>2 DEF Stepping
<1>7. CASE m.outcome # "running"
  <2>1. /\ "action" \notin steps' /\ After(instruction, steps', stuff')
        /\ Ordered(instruction, steps') /\ steps' = {}
    BY <1>3, <1>5, <1>7
  <2>2. QED
    BY <1>3, <2>1 DEF Stepping
<1>8. QED
  BY <1>6, <1>7

LEMMA SupervisorCheckTaken ==
  ASSUME Stepping, SupervisorCheck
  PROVE  Stepping' /\ instruction' = instruction
<1> DEFINE s == "supervisor_check"
<1>1. /\ At(s)
      /\ \/ Continue([stuff EXCEPT !.supervisor = TRUE])
         \/ \E m \in Group1Or2Exception(stuff) : Continue(m)
  BY DEF SupervisorCheck
<1>2. /\ instruction \in Instructions /\ s \in Cases[instruction]
      /\ Before(opcode, instruction, steps, stuff)
  BY <1>1, Here, Positions
<1>3. /\ stuff \in Stuffs /\ stuff.outcome = "running" /\ stuff.stale = {} /\ stuff.frames = <<>>
      /\ stuff.codes = Start.codes /\ stuff.system = {}
      /\ ~IsSourceOperandRead(instruction) => "source_mode" \notin stuff.written
  BY <1>2 DEF Before
<1>4. CASE Continue([stuff EXCEPT !.supervisor = TRUE])
  <2> DEFINE m == [stuff EXCEPT !.supervisor = TRUE]
  <2>1. /\ Calm(stuff, m) /\ m.supervisor /\ m.written = stuff.written
        /\ m.operation_size = stuff.operation_size /\ m.source = stuff.source
        /\ m.destination = stuff.destination
        /\ m.cycles = stuff.cycles /\ m.extension = stuff.extension
    BY <1>3 DEF Calm, Stuffs
  <2>2. Continue(m)
    BY <1>4
  <2> HIDE DEF m
  <2>3. Elapsed(opcode, instruction, steps \ {s}, m) /\ Extended(steps \ {s}, m)
    BY <1>2, <2>1, TimeStands
  <2>4. Before(opcode, instruction, steps \ {s}, m)
    BY <1>2, <1>3, <2>1, <2>3, BeforeStep
  <2>5. m.outcome = "running"
    BY <1>3, <2>1 DEF Calm
  <2>6. QED
    BY <1>1, <2>2, <2>4, <2>5, StepTaken, Positions
<1>5. ASSUME NEW m \in Group1Or2Exception(stuff), Continue(m)
      PROVE  Stepping' /\ instruction' = instruction
  <2>1. /\ Interrupted(stuff, m, 0) /\ m.codes = stuff.codes
        /\ m.outcome \in {"exception", "halted"}
    BY <1>3, <1>5, ExceptionActs
  <2>2. /\ m \in Stuffs /\ m.extension = stuff.extension /\ m.stale = {} /\ m.system = {}
        /\ m.codes = Start.codes
    BY <1>3, <2>1 DEF Interrupted, Kept
  <2>3. \/ m.frames = <<>> /\ m.cycles = stuff.cycles
        \/ Len(m.frames) = 1 /\ m.frames[1] = m.codes /\ m.cycles = stuff.cycles + 30
    <3>1. stuff.cycles \in Int
      BY <1>3 DEF Stuffs
    <3>2. QED
      BY <2>1, <3>1 DEF Interrupted
  <2>4. After(instruction, {}, m)
    BY <1>2, <2>1, <2>2, <2>3, EndsEarly
  <2>5. QED
    BY <1>1, <1>5, <2>1, <2>4, StepTaken
<1>6. QED
  BY <1>1, <1>4, <1>5

LEMMA SetSizeTaken ==
  ASSUME Stepping, SetSize
  PROVE  Stepping' /\ instruction' = instruction
<1> DEFINE s == "size"
           size == OperationSize(opcode, Properties[instruction].size)
           w == Writes(stuff, {"operation_size", "msb_bit_index"})
           m == [w EXCEPT !.operation_size = size]
<1>1. At(s) /\ Continue(m)
  BY DEF SetSize
<1>2. /\ instruction \in Instructions /\ s \in Cases[instruction]
      /\ instruction \in Names /\ opcode \in Splits
      /\ Before(opcode, instruction, steps, stuff)
  BY <1>1, Here, Positions
<1>3. /\ stuff \in Stuffs /\ stuff.outcome = "running"
      /\ ~IsSourceOperandRead(instruction) => "source_mode" \notin stuff.written
  BY <1>2 DEF Before
<1>4. size = OperationSize(opcode, GetSize(instruction)) /\ size \in {1, 2, 4}
  BY <1>2, Row, Steps, SizeOfOperation
<1>5. /\ Quiet(stuff, w) /\ w.written = stuff.written \cup {"operation_size", "msb_bit_index"}
      /\ w.cycles = stuff.cycles
  <2>1. {"operation_size", "msb_bit_index"} \in SUBSET Fields
    BY DEF Fields
  <2>2. QED
    BY <1>3, <2>1, QuietSteps
<1> HIDE DEF w, size
<1>6. /\ Calm(w, m) /\ m.written = w.written
      /\ m.operation_size = size /\ m.source = w.source /\ m.supervisor = w.supervisor
      /\ m.destination = w.destination
      /\ m.cycles = w.cycles /\ m.extension = w.extension
  <2>1. w \in Stuffs
    BY <1>5 DEF Quiet, Kept
  <2>2. QED
    BY <1>4, <2>1 DEF Calm, Stuffs
<1> HIDE DEF m
<1>7. /\ Calm(stuff, m) /\ m.source = stuff.source /\ m.destination = stuff.destination
      /\ m.supervisor = stuff.supervisor
      /\ m.cycles = stuff.cycles /\ m.extension = stuff.extension
  BY <1>5, <1>6 DEF Calm, Quiet, Kept
<1>8. Elapsed(opcode, instruction, steps \ {s}, m) /\ Extended(steps \ {s}, m)
  BY <1>2, <1>7, TimeStands
<1>9. /\ {"operation_size", "msb_bit_index"} \subseteq m.written
      /\ m.operation_size = OperationSize(opcode, GetSize(instruction))
      /\ ~IsSourceOperandRead(instruction) => "source_mode" \notin m.written
  BY <1>3, <1>4, <1>5, <1>6
<1>10. Before(opcode, instruction, steps \ {s}, m)
  BY <1>2, <1>7, <1>8, <1>9, BeforeStep
<1>11. m.outcome = "running"
  BY <1>3, <1>7 DEF Calm
<1>12. QED
  BY <1>1, <1>10, <1>11, StepTaken, Positions

(* A value read, or an address error. *)
LEMMA Values ==
  ASSUME NEW m \in Stuffs, m.outcome = "running", NEW mode, NEW field \in Fields,
         NEW r \in Value(m, mode, field)
  PROVE  \/ r = Ends(m, "fault")
         \/ r = Writes(m, {field}) /\ Aligned(mode)
<1> DEFINE odd == mode.type = "memory" /\ mode.size \in {2, 4} /\ mode.odd
<1>1. Ends(m, "fault").outcome = "fault"
  BY EndsRunning
<1> HIDE DEF odd
<1>2. r \in Then(Access(m, odd), LAMBDA n : {Writes(n, {field})})
  BY DEF Value, odd
<1>3. CASE odd
  <2>1. Access(m, odd) = {Ends(m, "fault")}
    BY <1>3 DEF Access
  <2>2. QED
    BY <1>1, <1>2, <2>1 DEF Then
<1>4. CASE ~odd
  <2>1. Access(m, odd) = {m}
    BY <1>4 DEF Access
  <2>2. r = Writes(m, {field})
    BY <1>2, <2>1 DEF Then
  <2>3. QED
    BY <1>4, <2>2 DEF Aligned, odd
<1>5. QED
  BY <1>3, <1>4

(* An address error among the operands. *)
LEMMA FaultTaken ==
  ASSUME Stepping, NEW s, At(s), Position[s] < 7, Continue(Ends(stuff, "fault"))
  PROVE  Stepping' /\ instruction' = instruction
<1> DEFINE m == Ends(stuff, "fault")
<1>1. Before(opcode, instruction, steps, stuff)
  BY Here
<1>2. /\ stuff \in Stuffs /\ stuff.outcome = "running" /\ stuff.stale = {} /\ stuff.frames = <<>>
      /\ stuff.codes = Start.codes /\ stuff.system = {}
  BY <1>1 DEF Before
<1>3. /\ Kept(stuff, m) /\ m.outcome = "fault" /\ m.stale = {} /\ m.codes = Start.codes
      /\ m.frames = <<>> /\ m.system = {} /\ m.cycles = stuff.cycles
  BY <1>2, EndsRunning
<1> HIDE DEF m
<1>4. m \in Stuffs /\ m.extension = stuff.extension
  BY <1>3 DEF Kept
<1>5. After(instruction, {}, m)
  BY <1>1, <1>3, <1>4, EndsEarly
<1>6. QED
  BY <1>3, <1>5, StepTaken DEF m

LEMMA ReadSourceTaken ==
  ASSUME Stepping, ReadSource
  PROVE  Stepping' /\ instruction' = instruction
<1> DEFINE s == "read_source"
           w == Writes(stuff, {"source_value"})
<1>1. /\ At(s)
      /\ \E m \in Value(Reads(stuff, {"source_mode"}), stuff.source, "source_value") : Continue(m)
  BY DEF ReadSource
<1>2. /\ instruction \in Instructions /\ s \in Cases[instruction]
      /\ Before(opcode, instruction, steps, stuff)
      /\ From(instruction, steps, 4)
  BY <1>1, Here, Positions
<1>3. stuff \in Stuffs /\ stuff.outcome = "running"
  BY <1>2 DEF Before
<1>4. Passed(instruction, steps, "source_address_mode") /\ IsSourceOperandRead(instruction)
  BY <1>2, Steps, Positions DEF From, Passed
<1>5. Reads(stuff, {"source_mode"}) = stuff
  <2>1. "source_mode" \in stuff.written
    BY <1>2, <1>4 DEF Before, SourceFound
  <2>2. QED
    BY <1>3, <2>1, QuietSteps
<1>6. Continue(Ends(stuff, "fault")) \/ Continue(w)
  <2>1. "source_value" \in Fields
    BY DEF Fields
  <2>2. QED
    BY <1>1, <1>3, <1>5, <2>1, Values
<1>7. ASSUME Continue(w)
      PROVE  Stepping' /\ instruction' = instruction
  <2>1. /\ Quiet(stuff, w) /\ w.written = stuff.written \cup {"source_value"}
        /\ w.cycles = stuff.cycles
    <3>1. {"source_value"} \in SUBSET Fields
      BY DEF Fields
    <3>2. QED
      BY <1>3, <3>1, QuietSteps
  <2> HIDE DEF w
  <2>2. /\ Calm(stuff, w) /\ w.source = stuff.source /\ w.destination = stuff.destination
        /\ w.supervisor = stuff.supervisor /\ w.operation_size = stuff.operation_size
        /\ w.extension = stuff.extension
    BY <2>1 DEF Calm, Quiet, Kept
  <2>3. Elapsed(opcode, instruction, steps \ {s}, w) /\ Extended(steps \ {s}, w)
    BY <1>2, <2>1, <2>2, TimeStands
  <2>4. Before(opcode, instruction, steps \ {s}, w)
    BY <1>2, <1>4, <2>1, <2>2, <2>3, BeforeStep
  <2>5. w.outcome = "running"
    BY <1>3, <2>2 DEF Calm
  <2>6. QED
    BY <1>1, <1>7, <2>4, <2>5, StepTaken, Positions
<1>8. QED
  BY <1>1, <1>6, <1>7, FaultTaken, Positions

LEMMA ReadDestinationTaken ==
  ASSUME Stepping, ReadDestination
  PROVE  Stepping' /\ instruction' = instruction
<1> DEFINE s == "read_destination"
           w == Writes(stuff, {"destination_value"})
<1>1. /\ At(s)
      /\ \E m \in Value(Reads(stuff, {"destination_mode"}), stuff.destination,
                        "destination_value") : Continue(m)
  BY DEF ReadDestination
<1>2. /\ instruction \in Instructions /\ s \in Cases[instruction]
      /\ Before(opcode, instruction, steps, stuff)
      /\ From(instruction, steps, 6)
  BY <1>1, Here, Positions
<1>3. /\ stuff \in Stuffs /\ stuff.outcome = "running"
      /\ ~IsSourceOperandRead(instruction) => "source_mode" \notin stuff.written
  BY <1>2 DEF Before
<1>4. Passed(instruction, steps, "destination_address_mode")
  BY <1>2, Steps, Positions DEF From, Passed
<1>5. Reads(stuff, {"destination_mode"}) = stuff
  <2>1. "destination_mode" \in stuff.written
    BY <1>2, <1>4 DEF Before, DestinationFound
  <2>2. QED
    BY <1>3, <2>1, QuietSteps
<1>6. Continue(Ends(stuff, "fault")) \/ (Continue(w) /\ Aligned(stuff.destination))
  <2>1. "destination_value" \in Fields
    BY DEF Fields
  <2>2. QED
    BY <1>1, <1>3, <1>5, <2>1, Values
<1>7. ASSUME Continue(w), Aligned(stuff.destination)
      PROVE  Stepping' /\ instruction' = instruction
  <2>1. /\ Quiet(stuff, w) /\ w.written = stuff.written \cup {"destination_value"}
        /\ w.cycles = stuff.cycles
    <3>1. {"destination_value"} \in SUBSET Fields
      BY DEF Fields
    <3>2. QED
      BY <1>3, <3>1, QuietSteps
  <2> HIDE DEF w
  <2>2. /\ Calm(stuff, w) /\ w.source = stuff.source /\ w.destination = stuff.destination
        /\ w.supervisor = stuff.supervisor /\ w.operation_size = stuff.operation_size
        /\ w.extension = stuff.extension
    BY <2>1 DEF Calm, Quiet, Kept
  <2>3. Elapsed(opcode, instruction, steps \ {s}, w) /\ Extended(steps \ {s}, w)
    BY <1>2, <2>1, <2>2, TimeStands
  <2>4. Before(opcode, instruction, steps \ {s}, w)
    BY <1>2, <1>3, <1>7, <2>1, <2>2, <2>3, BeforeStep
  <2>5. w.outcome = "running"
    BY <1>3, <2>2 DEF Calm
  <2>6. QED
    BY <1>1, <1>7, <2>4, <2>5, StepTaken, Positions
<1>8. QED
  BY <1>1, <1>6, <1>7, FaultTaken, Positions

(* An operand is decoded, and the rest of Stuff is as before. *)
LEMMA SourceDecoded ==
  ASSUME NEW m \in Stuffs, NEW size \in Sizes, NEW address, NEW r \in DecodeSource(m, size, address)
  PROVE  /\ Calm(m, r) /\ r.written = m.written \cup {"source_mode"}
         /\ r.supervisor = m.supervisor /\ r.operation_size = m.operation_size
         /\ r.destination = m.destination
         /\ r.source.type = IF IsRegister(address) THEN "register" ELSE "memory"
         /\ r.source.size = size
         /\ \E k \in 0..8 :
              /\ r.cycles = m.cycles + 2 * k
              /\ IsRegister(address) => k = 0
              /\ size = 2 => k <= 6
              /\ size = 2 /\ address = "immediate" => k = 2
              /\ address = "predecrement" => k >= 3
         /\ \E c \in {0, 2, 4} : r.extension = m.extension + c
<1> DEFINE n == Addressed(m, size, address)
           w == Writes(n, {"source_mode"})
<1>1. PICK mode \in Decoded(size, address) : r = [w EXCEPT !.source = mode]
  BY DEF DecodeSource
<1>2. /\ mode \in Modes /\ mode.size = size
      /\ mode.type = IF IsRegister(address) THEN "register" ELSE "memory"
  BY DecodedModes
<1>3. n = Addressed(m, size, address)
  OBVIOUS
<1> HIDE DEF n
<1>4. /\ n \in Stuffs
      /\ n.supervisor = m.supervisor /\ n.operation_size = m.operation_size
      /\ n.source = m.source /\ n.destination = m.destination
      /\ n.written = m.written /\ n.stale = m.stale /\ n.codes = m.codes
      /\ n.frames = m.frames /\ n.system = m.system /\ n.outcome = m.outcome
  BY <1>3, Addresses
<1>5. /\ \E k \in 0..8 :
           /\ n.cycles = m.cycles + 2 * k
           /\ IsRegister(address) => k = 0
           /\ size = 2 => k <= 6
           /\ size = 2 /\ address = "immediate" => k = 2
           /\ address = "predecrement" => k >= 3
      /\ \E c \in {0, 2, 4} : n.extension = m.extension + c
  BY <1>3, Addresses
<1>6. Quiet(n, w) /\ w.written = n.written \cup {"source_mode"} /\ w.cycles = n.cycles
  <2>1. {"source_mode"} \in SUBSET Fields
    BY DEF Fields
  <2>2. QED
    BY <1>4, <2>1, QuietSteps
<1> HIDE DEF w
<1>7. w \in Stuffs
  BY <1>6 DEF Quiet, Kept
<1>8. r \in Stuffs
  BY <1>1, <1>2, <1>7 DEF Stuffs
<1>9. /\ r.supervisor = w.supervisor /\ r.operation_size = w.operation_size
      /\ r.destination = w.destination /\ r.source = mode
      /\ r.written = w.written /\ r.stale = w.stale /\ r.codes = w.codes
      /\ r.frames = w.frames /\ r.system = w.system /\ r.outcome = w.outcome
      /\ r.cycles = w.cycles /\ r.extension = w.extension
  BY <1>1, <1>7 DEF Stuffs
<1>10. Calm(m, r) /\ r.written = m.written \cup {"source_mode"}
  BY <1>4, <1>6, <1>8, <1>9 DEF Calm, Quiet, Kept
<1>11. r.cycles = n.cycles /\ r.extension = n.extension
  BY <1>6, <1>9 DEF Quiet, Kept
<1>12. /\ r.supervisor = m.supervisor /\ r.operation_size = m.operation_size
       /\ r.destination = m.destination
  BY <1>4, <1>6, <1>9 DEF Quiet, Kept
<1>13. QED
  BY <1>2, <1>5, <1>9, <1>10, <1>11, <1>12

LEMMA DestinationDecoded ==
  ASSUME NEW m \in Stuffs, NEW size \in Sizes, NEW address, NEW r \in DecodeDestination(m, size, address)
  PROVE  /\ Calm(m, r) /\ r.written = m.written \cup {"destination_mode"}
         /\ r.supervisor = m.supervisor /\ r.operation_size = m.operation_size
         /\ r.source = m.source
         /\ r.destination.type = IF IsRegister(address) THEN "register" ELSE "memory"
         /\ r.destination.size = size
         /\ \E k \in 0..8 :
              /\ r.cycles = m.cycles + 2 * k
              /\ IsRegister(address) => k = 0
              /\ size = 2 => k <= 6
              /\ size = 2 /\ address = "immediate" => k = 2
              /\ address = "predecrement" => k >= 3
         /\ \E c \in {0, 2, 4} : r.extension = m.extension + c
<1> DEFINE n == Addressed(m, size, address)
           w == Writes(n, {"destination_mode"})
<1>1. PICK mode \in Decoded(size, address) : r = [w EXCEPT !.destination = mode]
  BY DEF DecodeDestination
<1>2. /\ mode \in Modes /\ mode.size = size
      /\ mode.type = IF IsRegister(address) THEN "register" ELSE "memory"
  BY DecodedModes
<1>3. n = Addressed(m, size, address)
  OBVIOUS
<1> HIDE DEF n
<1>4. /\ n \in Stuffs
      /\ n.supervisor = m.supervisor /\ n.operation_size = m.operation_size
      /\ n.source = m.source /\ n.destination = m.destination
      /\ n.written = m.written /\ n.stale = m.stale /\ n.codes = m.codes
      /\ n.frames = m.frames /\ n.system = m.system /\ n.outcome = m.outcome
  BY <1>3, Addresses
<1>5. /\ \E k \in 0..8 :
           /\ n.cycles = m.cycles + 2 * k
           /\ IsRegister(address) => k = 0
           /\ size = 2 => k <= 6
           /\ size = 2 /\ address = "immediate" => k = 2
           /\ address = "predecrement" => k >= 3
      /\ \E c \in {0, 2, 4} : n.extension = m.extension + c
  BY <1>3, Addresses
<1>6. Quiet(n, w) /\ w.written = n.written \cup {"destination_mode"} /\ w.cycles = n.cycles
  <2>1. {"destination_mode"} \in SUBSET Fields
    BY DEF Fields
  <2>2. QED
    BY <1>4, <2>1, QuietSteps
<1> HIDE DEF w
<1>7. w \in Stuffs
  BY <1>6 DEF Quiet, Kept
<1>8. r \in Stuffs
  BY <1>1, <1>2, <1>7 DEF Stuffs
<1>9. /\ r.supervisor = w.supervisor /\ r.operation_size = w.operation_size
      /\ r.source = w.source /\ r.destination = mode
      /\ r.written = w.written /\ r.stale = w.stale /\ r.codes = w.codes
      /\ r.frames = w.frames /\ r.system = w.system /\ r.outcome = w.outcome
      /\ r.cycles = w.cycles /\ r.extension = w.extension
  BY <1>1, <1>7 DEF Stuffs
<1>10. Calm(m, r) /\ r.written = m.written \cup {"destination_mode"}
  BY <1>4, <1>6, <1>8, <1>9 DEF Calm, Quiet, Kept
<1>11. r.cycles = n.cycles /\ r.extension = n.extension
  BY <1>6, <1>9 DEF Quiet, Kept
<1>12. /\ r.supervisor = m.supervisor /\ r.operation_size = m.operation_size
       /\ r.source = m.source
  BY <1>4, <1>6, <1>9 DEF Quiet, Kept
<1>13. QED
  BY <1>2, <1>5, <1>9, <1>10, <1>11, <1>12

(* The registers that are not addressed. *)
LEMMA SourceIsSpecial ==
  ASSUME NEW m \in Stuffs, NEW type \in {"status_register"},
         NEW r, r = [Writes(m, {"source_mode"}) EXCEPT !.source.type = type]
  PROVE  /\ Calm(m, r) /\ r.written = m.written \cup {"source_mode"}
         /\ r.supervisor = m.supervisor /\ r.operation_size = m.operation_size
         /\ r.destination = m.destination /\ r.source.type = type
         /\ r.cycles = m.cycles /\ r.extension = m.extension
<1> DEFINE w == Writes(m, {"source_mode"})
           mode == [w.source EXCEPT !.type = type]
<1>1. Quiet(m, w) /\ w.written = m.written \cup {"source_mode"} /\ w.cycles = m.cycles
  <2>1. {"source_mode"} \in SUBSET Fields
    BY DEF Fields
  <2>2. QED
    BY <2>1, QuietSteps
<1>2. r = [w EXCEPT !.source = mode]
  OBVIOUS
<1> HIDE DEF w
<1>3. w \in Stuffs
  BY <1>1 DEF Quiet, Kept
<1>4. mode \in Modes /\ mode.type = type
  <2>1. w.source \in Modes
    BY <1>3 DEF Stuffs
  <2>2. QED
    BY <2>1 DEF Modes
<1> HIDE DEF mode
<1>5. r \in Stuffs
  BY <1>2, <1>3, <1>4 DEF Stuffs
<1>6. /\ r.supervisor = w.supervisor /\ r.operation_size = w.operation_size
      /\ r.destination = w.destination /\ r.source = mode
      /\ r.written = w.written /\ r.stale = w.stale /\ r.codes = w.codes
      /\ r.frames = w.frames /\ r.system = w.system /\ r.outcome = w.outcome
      /\ r.cycles = w.cycles /\ r.extension = w.extension
  BY <1>2, <1>3 DEF Stuffs
<1>7. QED
  BY <1>1, <1>4, <1>5, <1>6 DEF Calm, Quiet, Kept

SpecialDestination(m, type) ==
  [Writes(m, {"destination_mode"}) EXCEPT !.destination.type = type]

LEMMA DestinationIsSpecial ==
  ASSUME NEW m \in Stuffs, NEW type \in SpecialRegisters,
         NEW r, r = SpecialDestination(m, type)
  PROVE  /\ Calm(m, r) /\ r.written = m.written \cup {"destination_mode"}
         /\ r.supervisor = m.supervisor /\ r.operation_size = m.operation_size
         /\ r.source = m.source /\ r.destination.type = type
         /\ r.cycles = m.cycles /\ r.extension = m.extension
<1> DEFINE w == Writes(m, {"destination_mode"})
           mode == [w.destination EXCEPT !.type = type]
<1>1. Quiet(m, w) /\ w.written = m.written \cup {"destination_mode"} /\ w.cycles = m.cycles
  <2>1. {"destination_mode"} \in SUBSET Fields
    BY DEF Fields
  <2>2. QED
    BY <2>1, QuietSteps
<1>2. r = [w EXCEPT !.destination = mode]
  BY DEF SpecialDestination
<1> HIDE DEF w
<1>3. w \in Stuffs
  BY <1>1 DEF Quiet, Kept
<1>4. mode \in Modes /\ mode.type = type
  <2>1. w.destination \in Modes
    BY <1>3 DEF Stuffs
  <2>2. QED
    BY <2>1 DEF Modes, SpecialRegisters
<1> HIDE DEF mode
<1>5. r \in Stuffs
  BY <1>2, <1>3, <1>4 DEF Stuffs
<1>6. /\ r.supervisor = w.supervisor /\ r.operation_size = w.operation_size
      /\ r.source = w.source /\ r.destination = mode
      /\ r.written = w.written /\ r.stale = w.stale /\ r.codes = w.codes
      /\ r.frames = w.frames /\ r.system = w.system /\ r.outcome = w.outcome
      /\ r.cycles = w.cycles /\ r.extension = w.extension
  BY <1>2, <1>3 DEF Stuffs
<1>7. QED
  BY <1>1, <1>4, <1>5, <1>6 DEF Calm, Quiet, Kept

LEMMA SourceTime ==
  ASSUME NEW o, NEW i, NEW S, NEW m, Before(o, i, S, m), "source_address_mode" \in S,
         NEW k \in 0..8, NEW r, r.cycles = m.cycles + 2 * k,
         i = "DIVS" => k <= 6, i = "STOP" => k = 2,
         NEW c \in {0, 2, 4}, r.extension = m.extension + c
  PROVE  /\ Elapsed(o, i, S \ {"source_address_mode"}, r)
         /\ Extended(S \ {"source_address_mode"}, r)
<1>1. Elapsed(o, i, S \ {"source_address_mode"}, r)
  <2>1. PICK a \in 0..8, b \in 0..8 :
          /\ m.cycles = 4 + 2 * a + 2 * b
          /\ a = 0
          /\ "destination_address_mode" \in S => b = 0
          /\ i = "DIVS" => a <= 6 /\ b = 0
          /\ i = "STOP" => b = 0
          /\ i = "MOVE" /\ o.secondary_address_mode = 4 /\ "destination_address_mode" \notin S =>
               b >= 3
    BY DEF Before, Elapsed
  <2>2. r.cycles = 4 + 2 * k + 2 * b
    BY <2>1
  <2>3. QED
    BY <2>1, <2>2 DEF Elapsed
<1>2. Extended(S \ {"source_address_mode"}, r)
  <2>1. PICK x \in {0, 2, 4}, d \in {0, 2, 4} :
          m.extension = x + d /\ x = 0 /\ ("destination_address_mode" \in S => d = 0)
    BY DEF Before, Extended
  <2>2. r.extension = c + d
    BY <2>1
  <2>3. QED
    BY <2>1, <2>2 DEF Extended
<1>3. QED
  BY <1>1, <1>2

LEMMA DestinationTime ==
  ASSUME NEW o, NEW i, NEW S, NEW m, Before(o, i, S, m), "destination_address_mode" \in S,
         NEW k \in 0..8, NEW r, r.cycles = m.cycles + 2 * k,
         i = "DIVS" => k = 0, i # "STOP",
         i = "MOVE" /\ o.secondary_address_mode = 4 => k >= 3,
         NEW c \in {0, 2, 4}, r.extension = m.extension + c
  PROVE  /\ Elapsed(o, i, S \ {"destination_address_mode"}, r)
         /\ Extended(S \ {"destination_address_mode"}, r)
<1>1. Elapsed(o, i, S \ {"destination_address_mode"}, r)
  <2>1. PICK a \in 0..8, b \in 0..8 :
          /\ m.cycles = 4 + 2 * a + 2 * b
          /\ b = 0
          /\ "source_address_mode" \in S => a = 0
          /\ i = "DIVS" => a <= 6 /\ b = 0
    BY DEF Before, Elapsed
  <2>2. r.cycles = 4 + 2 * a + 2 * k
    BY <2>1
  <2>3. QED
    BY <2>1, <2>2 DEF Elapsed
<1>2. Extended(S \ {"destination_address_mode"}, r)
  <2>1. PICK x \in {0, 2, 4}, d \in {0, 2, 4} :
          m.extension = x + d /\ d = 0 /\ ("source_address_mode" \in S => x = 0)
    BY DEF Before, Extended
  <2>2. r.extension = x + c
    BY <2>1
  <2>3. QED
    BY <2>1, <2>2 DEF Extended
<1>3. QED
  BY <1>1, <1>2

LEMMA SourceAddressModeTaken ==
  ASSUME Stepping, SourceAddressMode
  PROVE  Stepping' /\ instruction' = instruction
<1> DEFINE s    == "source_address_mode"
           rule == GetSourceOperand(instruction)
           size == SourceSize(opcode, rule, stuff.operation_size)
           from == SourceAddress(opcode, rule)
<1>1. At(s)
  BY DEF SourceAddressMode
<1>2. /\ instruction \in Instructions /\ s \in Cases[instruction] /\ s \in steps
      /\ instruction \in Names /\ opcode \in Splits
      /\ Before(opcode, instruction, steps, stuff)
      /\ From(instruction, steps, 3)
  BY <1>1, Here, Positions
<1>3. stuff \in Stuffs /\ stuff.outcome = "running" /\ stuff.operation_size \in {1, 2, 4}
  BY <1>2 DEF Before, Stuffs
<1>4. IsSourceOperandRead(instruction)
  BY <1>2, Steps
<1>5. GetSize(instruction) # "none" =>
        /\ "operation_size" \in stuff.written
        /\ stuff.operation_size = OperationSize(opcode, GetSize(instruction))
  <2>1. GetSize(instruction) # "none" => Passed(instruction, steps, "size")
    BY <1>2, Steps, Positions DEF From, Passed
  <2>2. QED
    BY <1>2, <2>1 DEF Before
<1>6. rule \in SizedSources => Reads(stuff, {"operation_size"}) = stuff
  BY <1>2, <1>3, <1>4, <1>5, SourceRules, QuietSteps
<1>7. rule # "none"
  BY <1>2, <1>4, SourceRules DEF SizedSources
<1>8. size \in Sizes \/ rule = "status_register"
  BY <1>2, <1>3, <1>4, SourceRules DEF SourceSize, Sizes, SizedSources
<1>9. \/ /\ rule = "status_register"
         /\ Continue([Writes(stuff, {"source_mode"}) EXCEPT !.source.type = rule])
      \/ /\ rule # "status_register"
         /\ \E r \in DecodeSource(stuff, size, from) : Continue(r)
  BY <1>2, <1>6, <1>7, Row DEF SourceAddressMode
<1>10. instruction = "DIVS" => size = 2 /\ rule # "status_register"
  <2>1. instruction = "DIVS" => rule = "primary_address_mode_word"
    BY <1>2, <1>4, SourceRules
  <2>2. QED
    BY <2>1 DEF SourceSize, SizedSources
<1>11. instruction = "STOP" => size = 2 /\ from = "immediate" /\ rule # "status_register"
  <2>1. instruction = "STOP" => rule = "immediate_data" /\ stuff.operation_size = 2
    BY <1>2, <1>4, <1>5, SourceRules, SizeOfOperation DEF SizedSources
  <2>2. QED
    BY <2>1 DEF SourceSize, SourceAddress, SizedSources
<1> HIDE DEF size, from
<1>12. CASE rule = "status_register"
  <2> DEFINE r == [Writes(stuff, {"source_mode"}) EXCEPT !.source.type = rule]
  <2>1. Continue(r) /\ rule \in {"status_register"}
    BY <1>9, <1>12
  <2>2. /\ Calm(stuff, r) /\ r.written = stuff.written \cup {"source_mode"}
        /\ r.supervisor = stuff.supervisor /\ r.operation_size = stuff.operation_size
        /\ r.destination = stuff.destination /\ r.source.type = rule
        /\ r.cycles = stuff.cycles /\ r.extension = stuff.extension
    BY <1>3, <2>1, SourceIsSpecial
  <2> HIDE DEF r
  <2>3. r.cycles = stuff.cycles + 2 * 0 /\ r.extension = stuff.extension + 0
    BY <1>3, <2>2 DEF Stuffs
  <2>4. Elapsed(opcode, instruction, steps \ {s}, r) /\ Extended(steps \ {s}, r)
    BY <1>2, <1>10, <1>11, <1>12, <2>3, SourceTime
  <2>5. SourceFound(instruction, r)
    BY <1>12, <2>2 DEF SourceFound
  <2>6. Before(opcode, instruction, steps \ {s}, r)
    BY <1>2, <1>4, <2>2, <2>4, <2>5, BeforeStep
  <2>7. r.outcome = "running"
    BY <1>3, <2>2 DEF Calm
  <2>8. QED
    BY <1>1, <2>1, <2>6, <2>7, StepTaken, Positions
<1>13. CASE rule # "status_register"
  <2>1. PICK r \in DecodeSource(stuff, size, from) : Continue(r)
    BY <1>9, <1>13
  <2>2. size \in Sizes
    BY <1>8, <1>13
  <2>3. /\ Calm(stuff, r) /\ r.written = stuff.written \cup {"source_mode"}
        /\ r.supervisor = stuff.supervisor /\ r.operation_size = stuff.operation_size
        /\ r.destination = stuff.destination
        /\ r.source.type = IF IsRegister(from) THEN "register" ELSE "memory"
    BY <1>3, <2>2, SourceDecoded
  <2>4. PICK k \in 0..8 :
          /\ r.cycles = stuff.cycles + 2 * k
          /\ size = 2 => k <= 6
          /\ size = 2 /\ from = "immediate" => k = 2
    BY <1>3, <2>2, SourceDecoded
  <2>5. PICK c \in {0, 2, 4} : r.extension = stuff.extension + c
    BY <1>3, <2>2, SourceDecoded
  <2>6. Elapsed(opcode, instruction, steps \ {s}, r) /\ Extended(steps \ {s}, r)
    BY <1>2, <1>10, <1>11, <2>4, <2>5, SourceTime
  <2>7. SourceFound(instruction, r)
    BY <1>13, <2>3 DEF SourceFound
  <2>8. Before(opcode, instruction, steps \ {s}, r)
    BY <1>2, <1>4, <2>3, <2>6, <2>7, BeforeStep
  <2>9. r.outcome = "running"
    BY <1>3, <2>3 DEF Calm
  <2>10. QED
    BY <1>1, <2>1, <2>8, <2>9, StepTaken, Positions
<1>14. QED
  BY <1>12, <1>13

LEMMA DestinationAddressModeTaken ==
  ASSUME Stepping, DestinationAddressMode
  PROVE  Stepping' /\ instruction' = instruction
<1> DEFINE s    == "destination_address_mode"
           rule == GetDestinationOperand(instruction)
           size == DestinationSize(rule, stuff.operation_size)
           to   == DestinationAddress(opcode, rule)
<1>1. At(s)
  BY DEF DestinationAddressMode
<1>2. /\ instruction \in Instructions /\ s \in Cases[instruction] /\ s \in steps
      /\ instruction \in Names /\ opcode \in Splits
      /\ Before(opcode, instruction, steps, stuff)
      /\ From(instruction, steps, 5)
  BY <1>1, Here, Positions
<1>3. /\ stuff \in Stuffs /\ stuff.outcome = "running" /\ stuff.operation_size \in {1, 2, 4}
      /\ ~IsSourceOperandRead(instruction) => "source_mode" \notin stuff.written
  BY <1>2 DEF Before, Stuffs
<1>4. IsDestinationOperandRead(instruction) \/ IsDestinationOperandWritten(instruction)
  BY <1>2, Steps
<1>5. GetSize(instruction) # "none" => "operation_size" \in stuff.written
  <2>1. GetSize(instruction) # "none" => Passed(instruction, steps, "size")
    BY <1>2, Steps, Positions DEF From, Passed
  <2>2. QED
    BY <1>2, <2>1 DEF Before
<1>6. rule \in SizedDestinations => Reads(stuff, {"operation_size"}) = stuff
  BY <1>2, <1>3, <1>4, <1>5, DestinationOperandRules, QuietSteps
<1>7. rule # "none"
  BY <1>2, <1>4, DestinationOperandRules DEF SizedDestinations
<1>8. /\ size \in Sizes \/ rule \in SpecialRegisters
      /\ size # 0 \/ rule \in {"movem", "movep"} \/ rule \in SpecialRegisters
  BY <1>2, <1>3, <1>4, DestinationOperandRules
     DEF DestinationSize, Sizes, SizedDestinations, SpecialRegisters
<1>9. \/ /\ rule \in SpecialRegisters
         /\ Continue([Writes(stuff, {"destination_mode"}) EXCEPT !.destination.type = rule])
      \/ /\ rule \notin SpecialRegisters
         /\ \E r \in DecodeDestination(stuff, size, to) : Continue(r)
  BY <1>2, <1>6, <1>7, Row DEF DestinationAddressMode, SpecialRegisters, SizedDestinations
<1>10. instruction \in {"DIVS", "DIVU"} => to = "data_register" /\ rule \notin SpecialRegisters
  <2>1. instruction \in {"DIVS", "DIVU"} => rule = "data_register_secondary"
    BY <1>2, <1>4, DestinationOperandRules
  <2>2. QED
    BY <2>1 DEF DestinationAddress, SpecialRegisters
<1>11. instruction = "MOVE" /\ opcode.secondary_address_mode = 4 =>
         to = "predecrement" /\ rule \notin SpecialRegisters
  <2>1. instruction = "MOVE" => rule = "secondary_address_mode"
    BY <1>2, <1>4, DestinationOperandRules
  <2>2. QED
    BY <2>1 DEF DestinationAddress, SpecialRegisters, Secondary, EffectiveAddress
<1>12. /\ instruction # "STOP"
       /\ IsDestinationOperandWritten(instruction) => rule \notin {"movem", "movep"}
  BY <1>2, <1>4, DestinationOperandRules
<1>13. ~Passed(instruction, steps, "read_destination")
  BY <1>2, Positions DEF Passed, From
<1> HIDE DEF size, to
<1>14. CASE rule \in SpecialRegisters
  <2> DEFINE r == [Writes(stuff, {"destination_mode"}) EXCEPT !.destination.type = rule]
  <2>1. Continue(r)
    BY <1>9, <1>14
  <2>2. /\ Calm(stuff, r) /\ r.written = stuff.written \cup {"destination_mode"}
        /\ r.supervisor = stuff.supervisor /\ r.operation_size = stuff.operation_size
        /\ r.source = stuff.source /\ r.destination.type = rule
        /\ r.cycles = stuff.cycles /\ r.extension = stuff.extension
    <3>1. stuff \in Stuffs /\ rule \in SpecialRegisters
      BY <1>3, <1>14
    <3>2. r = SpecialDestination(stuff, rule)
      BY DEF SpecialDestination
    <3> HIDE DEF rule, r
    <3>3. QED
      BY <3>1, <3>2, DestinationIsSpecial
  <2> HIDE DEF r
  <2>3. r.cycles = stuff.cycles + 2 * 0 /\ r.extension = stuff.extension + 0
    BY <1>3, <2>2 DEF Stuffs
  <2>4. Elapsed(opcode, instruction, steps \ {s}, r) /\ Extended(steps \ {s}, r)
    BY <1>2, <1>10, <1>11, <1>12, <1>14, <2>3, DestinationTime
  <2>5. DestinationFound(instruction, r)
    BY <1>10, <1>14, <2>2 DEF DestinationFound, SpecialRegisters
  <2>6. Before(opcode, instruction, steps \ {s}, r)
    BY <1>2, <1>3, <1>13, <2>2, <2>4, <2>5, BeforeStep
  <2>7. r.outcome = "running"
    BY <1>3, <2>2 DEF Calm
  <2>8. QED
    BY <1>1, <2>1, <2>6, <2>7, StepTaken, Positions
<1>15. CASE rule \notin SpecialRegisters
  <2>1. PICK r \in DecodeDestination(stuff, size, to) : Continue(r)
    BY <1>9, <1>15
  <2>2. size \in Sizes
    BY <1>8, <1>15
  <2>3. /\ Calm(stuff, r) /\ r.written = stuff.written \cup {"destination_mode"}
        /\ r.supervisor = stuff.supervisor /\ r.operation_size = stuff.operation_size
        /\ r.source = stuff.source
        /\ r.destination.type = IF IsRegister(to) THEN "register" ELSE "memory"
        /\ r.destination.size = size
    BY <1>3, <2>2, DestinationDecoded
  <2>4. PICK k \in 0..8 :
          /\ r.cycles = stuff.cycles + 2 * k
          /\ IsRegister(to) => k = 0
          /\ to = "predecrement" => k >= 3
    BY <1>3, <2>2, DestinationDecoded
  <2>5. PICK c \in {0, 2, 4} : r.extension = stuff.extension + c
    BY <1>3, <2>2, DestinationDecoded
  <2>6. instruction \in {"DIVS", "DIVU"} => IsRegister(to)
    BY <1>10 DEF IsRegister
  <2>7. Elapsed(opcode, instruction, steps \ {s}, r) /\ Extended(steps \ {s}, r)
    BY <1>2, <1>11, <1>12, <2>4, <2>5, <2>6, DestinationTime
  <2>8. DestinationFound(instruction, r)
    BY <1>8, <1>12, <1>15, <2>3, <2>6 DEF DestinationFound
  <2>9. Before(opcode, instruction, steps \ {s}, r)
    BY <1>2, <1>3, <1>13, <2>3, <2>7, <2>8, BeforeStep
  <2>10. r.outcome = "running"
    BY <1>3, <2>3 DEF Calm
  <2>11. QED
    BY <1>1, <2>1, <2>9, <2>10, StepTaken, Positions
<1>16. QED
  BY <1>14, <1>15

(***************************************************************************)
(* The action, and the steps after it.                                     *)
(***************************************************************************)

LEMMA DoActionTaken ==
  ASSUME Stepping, DoAction
  PROVE  Stepping' /\ instruction' = instruction
<1> DEFINE s == "action"
<1>1. At(s)
  BY DEF DoAction
<1>2. /\ instruction \in Instructions /\ instruction \in Names /\ opcode \in Splits
      /\ Before(opcode, instruction, steps, stuff)
      /\ From(instruction, steps, 7)
  BY <1>1, Here, Positions
<1>3. PICK m \in Action(opcode, GetAction(instruction), stuff) : Continue(m)
  BY <1>2, Row DEF DoAction
<1>4. Ready(opcode, instruction, stuff)
  BY <1>2, BeforeAction
<1>5. Acted(instruction, stuff, m)
  BY <1>2, <1>4, EveryActionActs
<1>6. \A T \in SUBSET steps :
        (m.outcome # "running" => T = {}) => After(instruction, T, m)
  BY <1>2, <1>5, AfterAction
<1>7. /\ m.outcome # "running" => After(instruction, {}, m)
      /\ m.outcome = "running" => After(instruction, steps \ {s}, m)
  BY <1>6
<1>8. QED
  BY <1>1, <1>3, <1>7, StepTaken, Positions

(* What a step after the action has to leave alone. *)
LEMMA AfterStep ==
  ASSUME NEW i, NEW S, NEW m, After(i, S, m), NEW T \in SUBSET S, "write_destination" \notin T,
         NEW r, Kept(m, r), r.written = m.written, r.stale = m.stale, r.frames = m.frames,
         r.cycles = m.cycles, r.outcome # "crash",
         r.outcome = "fault" /\ i \notin {"RTE", "RTR"} => r.codes = Start.codes,
         r.system # {} => r.supervisor,
         r.frames # <<>> => r.codes = m.codes
  PROVE  After(i, T, r)
<1>1. r \in Stuffs /\ r.supervisor = m.supervisor /\ r.extension = m.extension
  BY DEF Kept
<1>2. r.stale # {} =>
        r.stale = {"source_mode"} /\ GetAction(i) \in {"ADDQ", "SUBQ"} /\ DelayedBySource(r)
  BY DEF After, Kept, DelayedBySource
<1>3. Framed(r)
  BY DEF After, Framed
<1>4. Timely(r)
  BY DEF After, Timely
<1>5. "condition_codes" \in T => ToUpdate(i, r)
  <2>1. "condition_codes" \in T => ToUpdate(i, m)
    BY DEF After
  <2>2. QED
    BY <2>1 DEF ToUpdate
<1>6. r.extension \in {0, 2, 4, 6, 8}
  BY <1>1 DEF After
<1>7. QED
  BY <1>1, <1>2, <1>3, <1>4, <1>5, <1>6 DEF After

LEMMA WriteDestinationTaken ==
  ASSUME Stepping, WriteDestination
  PROVE  Stepping' /\ instruction' = instruction
<1> DEFINE s == "write_destination"
           mode == stuff.destination
           f == Ends(stuff, "fault")
           g == SetStatusRegister(stuff)
           c == Sets(stuff, ConditionCodes, "computed")
<1>1. At(s)
  BY DEF WriteDestination
<1>2. /\ instruction \in Instructions /\ s \in steps
      /\ After(instruction, steps, stuff) /\ stuff.outcome = "running"
  BY <1>1, Here, Positions
<1>3. stuff \in Stuffs /\ ToWrite(instruction, stuff) /\ mode \in Modes
  BY <1>2 DEF After, Stuffs
<1>4. Reads(stuff, {"destination_mode", "result_value"}) = stuff
  BY <1>3, QuietSteps DEF ToWrite
<1>5. mode.type = "memory" => mode.size # 0
  BY <1>3 DEF ToWrite
<1>6. \/ Continue(stuff)
      \/ Continue(f) /\ mode.type = "memory" /\ mode.size # 1 /\ mode.odd
      \/ Continue(g) /\ mode.type = "status_register"
      \/ Continue(c) /\ mode.type = "condition_code_register"
  BY <1>4, <1>5 DEF WriteDestination, Access
<1>7. stuff.system # {} => stuff.supervisor
  BY <1>2 DEF After
<1>8. Kept(stuff, stuff)
  BY <1>3 DEF Kept
<1> DEFINE T == steps \ {s}
<1>9. T \in SUBSET steps /\ s \notin T
  OBVIOUS
<1> HIDE DEF T, mode
<1>10. CASE Continue(stuff)
  <2>1. After(instruction, T, stuff)
    BY <1>2, <1>7, <1>8, <1>9, AfterStep
  <2>2. QED
    BY <1>1, <1>2, <1>10, <2>1, StepTaken, Positions DEF T
<1>11. CASE Continue(f) /\ mode.type = "memory" /\ mode.size # 1 /\ mode.odd
  <2>1. /\ Kept(stuff, f) /\ f.outcome = "fault" /\ f.written = stuff.written
        /\ f.stale = stuff.stale /\ f.codes = stuff.codes /\ f.frames = stuff.frames
        /\ f.system = stuff.system /\ f.cycles = stuff.cycles
    BY <1>3, EndsRunning
  <2> HIDE DEF f
  <2>2. ~Aligned(mode)
    BY <1>3, <1>5, <1>11 DEF Aligned, Modes
  <2>3. stuff.codes = Start.codes
    BY <1>3, <2>2 DEF ToWrite, mode
  <2>4. f.system # {} => f.supervisor
    BY <1>7, <2>1 DEF Kept
  <2>5. After(instruction, {}, f)
    BY <1>2, <2>1, <2>3, <2>4, AfterStep
  <2>6. QED
    BY <1>1, <1>11, <2>1, <2>5, StepTaken
<1>12. mode.type # "register" => stuff.frames = <<>>
  BY <1>3 DEF ToWrite, mode
<1>13. CASE Continue(g) /\ mode.type = "status_register"
  <2>1. /\ Kept(stuff, g) /\ g.written = stuff.written /\ g.stale = stuff.stale
        /\ g.frames = stuff.frames /\ g.outcome = stuff.outcome /\ g.cycles = stuff.cycles
    BY <1>3, StatusRegisterSet
  <2> HIDE DEF g
  <2>2. g.supervisor
    BY <1>3, <1>13, <2>1 DEF ToWrite, Kept, mode
  <2>3. g.frames = <<>>
    BY <1>12, <1>13, <2>1
  <2>4. After(instruction, T, g)
    BY <1>2, <1>9, <2>1, <2>2, <2>3, AfterStep
  <2>5. QED
    BY <1>1, <1>2, <1>13, <2>1, <2>4, StepTaken, Positions DEF T
<1>14. CASE Continue(c) /\ mode.type = "condition_code_register"
  <2>1. /\ Kept(stuff, c) /\ c.written = stuff.written /\ c.stale = stuff.stale
        /\ c.frames = stuff.frames /\ c.system = stuff.system
        /\ c.outcome = stuff.outcome /\ c.cycles = stuff.cycles
    BY <1>3, SetsCodes
  <2> HIDE DEF c
  <2>2. c.system # {} => c.supervisor
    BY <1>7, <2>1 DEF Kept
  <2>3. c.frames = <<>>
    BY <1>12, <1>14, <2>1
  <2>4. After(instruction, T, c)
    BY <1>2, <1>9, <2>1, <2>2, <2>3, AfterStep
  <2>5. QED
    BY <1>1, <1>2, <1>14, <2>1, <2>4, StepTaken, Positions DEF T
<1>15. QED
  BY <1>6, <1>10, <1>11, <1>13, <1>14 DEF mode

LEMMA DivisionModifiers ==
  ASSUME NEW i \in {"DIVS", "DIVU"}
  PROVE  /\ GetCarryModifier(i) = "clear"
         /\ GetOverflowModifier(i) \in Unmodified /\ GetZeroModifier(i) \in Unmodified
         /\ GetNegativeModifier(i) \in Unmodified /\ GetExtendModifier(i) \in Unmodified
<1>1. GetCarryModifier(i) = "clear"
  BY DEF GetCarryModifier
<1>2. GetOverflowModifier(i) \in Unmodified /\ GetZeroModifier(i) \in Unmodified
  BY DEF GetOverflowModifier, GetZeroModifier, Unmodified
<1>3. GetNegativeModifier(i) \in Unmodified /\ GetExtendModifier(i) \in Unmodified
  BY DEF GetNegativeModifier, GetExtendModifier, Unmodified
<1>4. QED
  BY <1>1, <1>2, <1>3

LEMMA UpdateConditionCodesTaken ==
  ASSUME Stepping, UpdateConditionCodes
  PROVE  Stepping' /\ instruction' = instruction
<1> DEFINE s == "condition_codes"
           modifiers == Properties[instruction].modifiers
           read == UNION {ModifierReads(modifiers[x]) : x \in ConditionCodes}
           code(x) == CASE modifiers[x] \in Unmodified -> stuff.codes[x]
                        [] modifiers[x] \in {"clear", "cleared"} -> "clear"
                        [] OTHER -> "computed"
           codes == [x \in ConditionCodes |-> code(x)]
           m == [stuff EXCEPT !.codes = codes]
<1>1. At(s) /\ Continue([Reads(stuff, read) EXCEPT !.codes = codes])
  BY DEF UpdateConditionCodes
<1>2. /\ instruction \in Instructions /\ s \in steps
      /\ After(instruction, steps, stuff) /\ stuff.outcome = "running"
      /\ From(instruction, steps, 9)
  BY <1>1, Here, Positions
<1>3. /\ stuff \in Stuffs /\ ToUpdate(instruction, stuff) /\ stuff.codes \in CodeValues
      /\ stuff.system # {} => stuff.supervisor
  BY <1>2 DEF After, Stuffs
<1>4. read = Needs(instruction)
  BY <1>2, Row DEF Needs, ConditionCodes
<1>5. Reads(stuff, read) = stuff
  BY <1>3, <1>4, QuietSteps DEF ToUpdate
<1>6. codes \in CodeValues
  BY <1>3 DEF CodeValues
<1>7. stuff.frames # <<>> => codes = stuff.codes
  <2>1. SUFFICES ASSUME stuff.frames # <<>>
                 PROVE  codes = stuff.codes
    OBVIOUS
  <2>2. instruction \in {"DIVS", "DIVU"} /\ stuff.codes["C"] = "clear"
    BY <1>3, <2>1 DEF ToUpdate
  <2>3. /\ modifiers["C"] = "clear"
        /\ modifiers["V"] \in Unmodified /\ modifiers["Z"] \in Unmodified
        /\ modifiers["N"] \in Unmodified /\ modifiers["X"] \in Unmodified
    BY <1>2, <2>2, Row, DivisionModifiers
  <2> HIDE DEF modifiers
  <2>4. code("C") = "clear"
    BY <2>3 DEF Unmodified
  <2>5. \A x \in ConditionCodes : code(x) = stuff.codes[x]
    <3>1. \A x \in {"V", "Z", "N", "X"} : modifiers[x] \in Unmodified
      BY <2>3
    <3>2. ASSUME NEW x, modifiers[x] \in Unmodified
          PROVE  code(x) = stuff.codes[x]
      BY <3>2 DEF Unmodified
    <3>3. ConditionCodes = {"C", "V", "Z", "N", "X"}
      BY DEF ConditionCodes
    <3> HIDE DEF code
    <3>4. QED
      BY <2>2, <2>4, <3>1, <3>2, <3>3
  <2> HIDE DEF code
  <2>6. stuff.codes = [x \in ConditionCodes |-> stuff.codes[x]]
    BY <1>3 DEF CodeValues
  <2>7. QED
    BY <2>5, <2>6
<1>8. Continue(m)
  BY <1>1, <1>5
<1> HIDE DEF codes
<1>9. /\ Kept(stuff, m) /\ m.written = stuff.written /\ m.stale = stuff.stale
      /\ m.frames = stuff.frames /\ m.cycles = stuff.cycles /\ m.outcome = stuff.outcome
      /\ m.system = stuff.system /\ m.codes = codes
  BY <1>3, <1>6 DEF Kept, Stuffs
<1> HIDE DEF m
<1>10. m.system # {} => m.supervisor
  BY <1>3, <1>9 DEF Kept
<1>11. "write_destination" \notin steps \ {s}
  BY <1>2, Positions DEF From
<1>12. After(instruction, steps \ {s}, m)
  <2> DEFINE T == steps \ {s}
  <2>1. T \in SUBSET steps /\ "write_destination" \notin T
    BY <1>11
  <2> HIDE DEF T
  <2>2. After(instruction, T, m)
    BY <1>2, <1>7, <1>9, <1>10, <2>1, AfterStep
  <2>3. QED
    BY <2>2 DEF T
<1>13. QED
  BY <1>1, <1>2, <1>8, <1>9, <1>12, StepTaken, Positions

LEMMA FetchTaken ==
  ASSUME Fetch
  PROVE  Stepping' /\ instruction' # "none"
<1>1. PICK raw \in Opcodes :
        /\ opcode' = SplitOpcode(raw) /\ instruction' = DecodeOpcode(raw)
        /\ steps' = Cases[DecodeOpcode(raw)] /\ stuff' = Start
  BY DEF Fetch
<1> DEFINE i == DecodeOpcode(raw)
           o == SplitOpcode(raw)
           S == Cases[i]
<1>2. i \in Instructions
  BY DEF Instructions
<1>3. i \in Names
  BY <1>2, Row
<1>4. o.raw = raw
  BY DEF SplitOpcode
<1> HIDE DEF i, o
<1>5. Start \in Stuffs
  <2>1. Undecoded \in Modes
    BY DEF Undecoded, Modes
  <2>2. [x \in ConditionCodes |-> "start"] \in CodeValues
    BY DEF CodeValues
  <2>3. QED
    BY <2>1, <2>2 DEF Start, Stuffs
<1>6. \A s : ~Passed(i, S, s)
  BY DEF Passed
<1>7. Ordered(i, S)
  BY DEF Ordered
<1>8. "action" \in S
  BY <1>2, Steps
<1>9. /\ i = "STOP" => "source_address_mode" \in S
      /\ i = "MOVE" => "destination_address_mode" \in S
  <2>1. GetAction("MOVE") = "MOVE"
    BY DEF GetAction
  <2>2. i = "MOVE" => IsDestinationOperandWritten(i)
    BY <1>3, <2>1, ActionOperands
  <2>3. QED
    BY <1>2, <2>2, StopReads, Steps
<1> HIDE DEF S
<1>10. Elapsed(o, i, S, Start)
  <2>1. Start.cycles = 4 + 2 * 0 + 2 * 0 /\ 0 \in 0..8
    BY DEF Start
  <2>2. QED
    BY <1>9, <2>1 DEF Elapsed
<1>11. Extended(S, Start)
  <2>1. Start.extension = 0 + 0
    BY DEF Start
  <2>2. QED
    BY <2>1 DEF Extended
<1>12. /\ Start.outcome = "running" /\ Start.stale = {} /\ Start.frames = <<>>
       /\ Start.system = {} /\ Start.written = {}
  BY DEF Start
<1>13. Before(o, i, S, Start)
  BY <1>5, <1>6, <1>10, <1>11, <1>12 DEF Before
<1>14. opcode' = o /\ instruction' = i /\ steps' = S /\ stuff' = Start
  BY <1>1 DEF i, o, S
<1>15. Stepping'
  <2>1. opcode'.raw \in Opcodes
    BY <1>4, <1>14
  <2>2. opcode' = SplitOpcode(opcode'.raw) /\ instruction' = DecodeOpcode(opcode'.raw)
    BY <1>4, <1>14 DEF o, i
  <2>3. QED
    BY <1>7, <1>8, <1>12, <1>13, <1>14, <2>1, <2>2 DEF Stepping
<1>16. i # "none"
  BY <1>3 DEF Names
<1>17. QED
  BY <1>14, <1>15, <1>16

(***************************************************************************)
(* The invariant, and what follows from it.                                *)
(***************************************************************************)

LEMMA Inductive == Spec => []IInv
<1>1. Init => IInv
  BY DEF Init, IInv
<1>2. IInv /\ [Next]_vars => IInv'
  <2> SUFFICES ASSUME IInv, [Next]_vars
               PROVE  IInv'
    OBVIOUS
  <2>1. CASE Fetch
    BY <2>1, FetchTaken DEF IInv
  <2>2. ASSUME NEW s, At(s)
        PROVE  instruction # "none" /\ Stepping
    BY <2>2 DEF IInv, At
  <2>3. ASSUME Stepping' /\ instruction' = instruction, instruction # "none"
        PROVE  IInv'
    BY <2>3 DEF IInv
  <2>4. CASE SupervisorCheck
    BY <2>2, <2>3, <2>4, SupervisorCheckTaken DEF SupervisorCheck
  <2>5. CASE SetSize
    BY <2>2, <2>3, <2>5, SetSizeTaken DEF SetSize
  <2>6. CASE SourceAddressMode
    BY <2>2, <2>3, <2>6, SourceAddressModeTaken DEF SourceAddressMode
  <2>7. CASE ReadSource
    BY <2>2, <2>3, <2>7, ReadSourceTaken DEF ReadSource
  <2>8. CASE DestinationAddressMode
    BY <2>2, <2>3, <2>8, DestinationAddressModeTaken DEF DestinationAddressMode
  <2>9. CASE ReadDestination
    BY <2>2, <2>3, <2>9, ReadDestinationTaken DEF ReadDestination
  <2>10. CASE DoAction
    BY <2>2, <2>3, <2>10, DoActionTaken DEF DoAction
  <2>11. CASE WriteDestination
    BY <2>2, <2>3, <2>11, WriteDestinationTaken DEF WriteDestination
  <2>12. CASE UpdateConditionCodes
    BY <2>2, <2>3, <2>12, UpdateConditionCodesTaken DEF UpdateConditionCodes
  <2>13. CASE Retire
    BY <2>13 DEF Retire, Done, IInv
  <2>14. CASE UNCHANGED vars
    BY <2>14 DEF vars, IInv, Stepping
  <2>15. QED
    BY <2>1, <2>4, <2>5, <2>6, <2>7, <2>8, <2>9, <2>10, <2>11, <2>12, <2>13, <2>14 DEF Next
<1>3. QED
  BY <1>1, <1>2, PTL DEF Spec

(* In each state, the instruction has not begun, is before its action, or
   after it. *)
LEMMA WhereItIs ==
  ASSUME IInv
  PROVE  \/ stuff = Start /\ ~Done
         \/ /\ steps # {}
            /\ stuff.stale = {} /\ stuff.codes = Start.codes /\ stuff.system = {}
            /\ stuff.frames = <<>> /\ stuff.outcome = "running"
         \/ After(instruction, steps, stuff)
<1>1. CASE instruction = "none"
  BY <1>1 DEF IInv, Done, Stepping
<1>2. CASE instruction # "none" /\ "action" \in steps
  BY <1>2 DEF IInv, Stepping, Before
<1>3. CASE instruction # "none" /\ "action" \notin steps
  BY <1>3 DEF IInv, Stepping
<1>4. QED
  BY <1>1, <1>2, <1>3

LEMMA StartIsFresh ==
  /\ Start.stale = {} /\ Start.system = {} /\ Start.frames = <<>> /\ Start.outcome = "running"
  /\ Len(Start.frames) = 0 /\ DOMAIN Start.frames = {}
BY DEF Start

(* No step of any instruction reads a field of Stuff that no step before   *)
(* it has written: what the generator strings together out of five tables  *)
(* and the actions is defined, but for the one case of ADDQ and SUBQ.      *)
THEOREM DefinedHolds == Spec => []DefinedBeforeUse
<1>1. IInv => DefinedBeforeUse
  BY WhereItIs, StartIsFresh DEF DefinedBeforeUse, After, DelayedBySource
<1>2. QED
  BY <1>1, Inductive, PTL

(* An instruction that an address error stops leaves the condition codes   *)
(* as it found them, whatever its operands are.                            *)
THEOREM FaultHolds == Spec => []FaultKeepsConditionCodes
<1>1. IInv => FaultKeepsConditionCodes
  BY WhereItIs, StartIsFresh DEF FaultKeepsConditionCodes, After
<1>2. QED
  BY <1>1, Inductive, PTL

(* An instruction pushes at most one frame, with the condition codes it    *)
(* ends with: what microcode does after CHK or a division trapped changes  *)
(* none of them.                                                           *)
THEOREM FramesHold == Spec => []FramesHoldFinalCodes
<1>1. ASSUME stuff.frames = <<>> PROVE FramesHoldFinalCodes
  <2>1. Len(stuff.frames) = 0 /\ DOMAIN stuff.frames = {}
    BY <1>1
  <2>2. QED
    BY <2>1 DEF FramesHoldFinalCodes
<1>2. ASSUME After(instruction, steps, stuff) PROVE FramesHoldFinalCodes
  <2>1. CASE stuff.frames = <<>>
    BY <1>1, <2>1
  <2>2. CASE Len(stuff.frames) = 1 /\ stuff.frames[1] = stuff.codes
    <3>1. stuff.frames \in Seq(CodeValues)
      BY <1>2 DEF After, Stuffs
    <3>2. DOMAIN stuff.frames = 1..1
      BY <2>2, <3>1
    <3>3. QED
      BY <2>2, <3>2 DEF FramesHoldFinalCodes
  <2>3. QED
    BY <1>2, <2>1, <2>2 DEF After, Framed
<1>3. IInv => FramesHoldFinalCodes
  BY <1>1, <1>2, WhereItIs, StartIsFresh
<1>4. QED
  BY <1>3, Inductive, PTL

(* No opcode changes the status register, the user stack pointer or the    *)
(* stopped state unless the supervisor check let it pass.                  *)
THEOREM UserHolds == Spec => []UserKeepsSystem
<1>1. IInv => UserKeepsSystem
  BY WhereItIs, StartIsFresh DEF UserKeepsSystem, After
<1>2. QED
  BY <1>1, Inductive, PTL

(* Microcode never calls the null function that would write an operand of  *)
(* size 0: the tables give no instruction that writes such an operand.     *)
THEOREM WritableHolds == Spec => []OperandsWritable
<1>1. IInv => OperandsWritable
  BY WhereItIs, StartIsFresh DEF OperandsWritable, After
<1>2. QED
  BY <1>1, Inductive, PTL

(* Every instruction takes from 4 to 168 cycles, an even number, before    *)
(* those of its exception, and skips up to four words: what the execution  *)
(* loop of Clown68000 is parameterised by.                                 *)
THEOREM TimingIsBounded == Spec => []TimingHolds
<1>1. ASSUME After(instruction, steps, stuff), Done PROVE TimingHolds
  <2>1. PICK n \in 2..84 :
          \/ stuff.frames = <<>> /\ stuff.cycles = 2 * n
          \/ Len(stuff.frames) = 1 /\ stuff.cycles = 2 * n + 30
    BY <1>1 DEF After, Timely
  <2>2. stuff.cycles - ExceptionDuration * Len(stuff.frames) = 2 * n
    <3>1. CASE stuff.frames = <<>> /\ stuff.cycles = 2 * n
      BY <3>1 DEF ExceptionDuration
    <3>2. CASE Len(stuff.frames) = 1 /\ stuff.cycles = 2 * n + 30
      BY <3>2 DEF ExceptionDuration
    <3>3. QED
      BY <2>1, <3>1, <3>2
  <2>3. 2 * n \in 4..MaxDuration
    BY DEF MaxDuration
  <2>4. stuff.cycles % 2 = 0
    <3>1. stuff.cycles = 2 * n \/ stuff.cycles = 2 * (n + 15)
      BY <2>1
    <3>2. (2 * n) % 2 = 0 /\ (2 * (n + 15)) % 2 = 0
      OBVIOUS
    <3>3. QED
      BY <3>1, <3>2
  <2>5. stuff.extension \in {0, 2, 4, 6, 8}
    BY <1>1 DEF After
  <2>6. QED
    BY <2>2, <2>3, <2>4, <2>5 DEF TimingHolds
<1>2. IInv => TimingHolds
  <2>1. ~Done => TimingHolds
    BY DEF TimingHolds
  <2>2. steps # {} => ~Done
    BY DEF Done
  <2>3. QED
    BY <1>1, <2>1, <2>2, WhereItIs
<1>3. QED
  BY <1>2, Inductive, PTL

=============================================================================
