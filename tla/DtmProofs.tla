----------------------------- MODULE DtmProofs ------------------------------
(***************************************************************************)
(* Proofs about Dtm for any number of harts, any memory and chunks of any  *)
(* length: commands are never given too early, a call leaves nothing       *)
(* behind, programs find their registers as they left them, a reset starts *)
(* every hart, and chunks are the memory that HTIF is written for.         *)
(***************************************************************************)
EXTENDS Dtm, TLAPS

(* Places: the steps of each procedure and the calls that reach it.        *)
HaltSteps   == {"activate", "haltreq", "halted", "unhalt"}
ResumeSteps == {"resumereq", "resumed", "unresume", "off"}
RunSteps    == {"program", "first", "second", "command", "idle", "read", "check", "result"}

ChunkRuns == {"save_s0", "save_s1", "set_s0", "set_s1", "word", "restore_s0", "restore_s1"}
Autos     == {"auto_on", "auto_off"}
Runs      == ChunkRuns \cup {"probe128", "probe64", "fence", "csr"}
Locs      == Runs \cup Autos \cup {"halt", "resume", "return", "none"}

PlaceOK ==
    /\ loc \in Locs
    /\ step \in HaltSteps \cup ResumeSteps \cup RunSteps \cup {"auto", "return", "none"}
    /\ step \in HaltSteps => loc \in {"halt", "fence", "csr"}
    /\ step \in ResumeSteps => loc \in {"resume", "fence", "csr"}
    /\ step \in RunSteps => loc \in Runs
    /\ step = "auto" => loc \in Autos
    /\ step = "return" <=> loc = "return"
    /\ step = "none" <=> loc = "none"
    /\ step \in {"first", "second"} => Given(loc)
    /\ step = "read" => Taken(loc)
    /\ step = "result" => loc = "csr"

ChunkKinds == {"read", "write", "clear"}
ChunkCall == /\ call.addr \in Nat /\ call.len \in Nat \ {0}
             /\ call.kind = "write" => \A k \in 0 .. call.len - 1 : call.data[k] \in Word

CallOK ==
    /\ loc = "none" <=> call = NoCall
    /\ running \in BOOLEAN /\ count \in Nat
    /\ call # NoCall =>
         /\ call.kind \in ChunkKinds \cup {"start", "reset"}
         /\ call.kind \in ChunkKinds => ChunkCall
         /\ running <=> call.kind # "start"
         /\ call.kind = "start" => loc \in {"halt", "probe128", "probe64", "resume", "return"}
         /\ call.kind = "reset" => loc \in {"fence", "csr", "return"} /\ count \in Harts
         /\ call.kind \in ChunkKinds => loc \in ChunkRuns \cup Autos \cup {"halt", "resume", "return"}
         /\ loc = "set_s1" => call.kind # "read"
         /\ loc \in Autos => call.kind = "write"
         /\ call.kind = "write" /\ loc = "auto_on" => call.len > 1
         /\ loc \in {"save_s0", "save_s1", "set_s0", "set_s1", "auto_on"} => count = 1
         /\ call.kind \in ChunkKinds /\ loc = "halt" => count = 1
         /\ loc = "word" => count \in 1 .. LastWord
    /\ call = NoCall => running

(* The state of the machine.                                               *)
Commands == [write : BOOLEAN, reg : {"x0", "s0", "s1"}, post : BOOLEAN, size : {64, 128}]
Modules  == [active : BOOLEAN, haltreq : BOOLEAN, sel : Harts, data : Word,
             prog : Moving \cup {"none", "fence", "csr"}, cmd : Commands,
             busy : BOOLEAN, cmderr : Nat, auto : BOOLEAN]
HartStates == [st : {"running", "halted"}, resumereq : BOOLEAN, ack : BOOLEAN,
               s0 : Word, s1 : Word, own : Word \X Word, pc : Word]

TypesOK == /\ dm \in Modules
           /\ hart \in [Harts -> HartStates]
           /\ mem \in [Addr -> Word]
           /\ saved \in [s0 : Word, s1 : Word]
           /\ err \in Nat

(* What halt and resume have done at each step of the host.                *)
Free(h) == hart[h].st = "running" /\ ~hart[h].resumereq
OthersFree == \A h \in Harts \ {Hart} : Free(h)
AllFree == \A h \in Harts : Free(h)

Held == dm.active /\ dm.sel = Hart /\ hart[Hart].st = "halted" /\ ~hart[Hart].resumereq /\ OthersFree

Holding ==
    /\ step \in {"activate", "return", "none"} => AllFree /\ ~dm.haltreq
    /\ step \in {"haltreq", "unresume", "off"} => AllFree /\ ~dm.haltreq /\ dm.active
    /\ step = "halted" => /\ dm.active /\ dm.haltreq /\ dm.sel = Hart
                          /\ ~hart[Hart].resumereq /\ OthersFree
    /\ step = "unhalt" => Held /\ dm.haltreq
    /\ step \in RunSteps \cup {"auto", "resumereq"} => Held /\ ~dm.haltreq
    /\ step = "resumed" => /\ dm.active /\ ~dm.haltreq /\ dm.sel = Hart /\ OthersFree
                           /\ \/ Free(Hart)
                              \/ hart[Hart].st = "halted" /\ hart[Hart].resumereq /\ ~hart[Hart].ack

(* Commands run only while the host waits for them, and what is left of a  *)
(* command that failed is an error that the host is about to report.       *)
MayFail == {"probe128", "set_s0", "set_s1", "word"}
AutoOn  == loc = "auto_off" \/ (loc = "word" /\ call.kind = "write")

Commanding ==
    /\ dm.auto <=> AutoOn
    /\ dm.busy => /\ step = "idle" /\ dm.cmderr = 0
                  /\ loc # "word" => dm.cmd = CommandAt(loc)
    /\ dm.cmderr \in {0, 2, 3}
    /\ dm.cmderr # 0 => step \in {"idle", "read", "check"} /\ loc \in MayFail
    /\ err = IF step \in {"read", "check"} THEN dm.cmderr ELSE 0

(* s0 and s1 of the hart that is held, while they are borrowed.            *)
Before  == {"halt", "probe128", "probe64", "save_s0", "save_s1", "fence", "csr", "resume"}
Kept(h) == <<hart[h].s0, hart[h].s1>> = hart[h].own
S0Saved == \/ loc = "save_s0" /\ step = "check"
           \/ loc \in ChunkRuns \cup Autos /\ loc # "save_s0"
S1Saved == \/ loc = "save_s1" /\ step = "check"
           \/ loc \in ChunkRuns \cup Autos /\ loc \notin {"save_s0", "save_s1"}

(* A command at l has been given a value: the first half, all of it, and   *)
(* the command is over.                                                    *)
Passing(l, v) == /\ loc = l /\ step = "second" => dm.data[1] = v[1]
                 /\ loc = l /\ (step = "command" \/ (step = "idle" /\ dm.busy)) => dm.data = v
Over(l) == loc = l /\ (step \in {"check", "result"} \cup ResumeSteps \/ (step = "idle" /\ ~dm.busy))
Answered == step = "read" \/ (step = "idle" /\ ~dm.busy)

Borrowing ==
    /\ \A h \in Harts : hart[h].st = "running" \/ loc \in Before => Kept(h)
    /\ loc = "save_s0" /\ Answered => dm.data = hart[0].s0
    /\ loc = "save_s1" /\ Answered => dm.data = hart[0].s1
    /\ S0Saved => saved.s0 = hart[0].own[1]
    /\ S1Saved => saved.s1 = hart[0].own[2]
    /\ Passing("restore_s0", saved.s0) /\ Passing("restore_s1", saved.s1)
    /\ Over("restore_s0") \/ loc = "restore_s1" => hart[0].s0 = hart[0].own[1]
    /\ Over("restore_s1") => hart[0].s1 = hart[0].own[2]

(* The harts that a reset has sent to the entry point.                     *)
Started(h) == h < count \/ (h = count /\ (Over("csr") \/ loc = "return"))

Resetting ==
    /\ loc \in {"fence", "csr"} /\ step \in {"first", "second", "command"} => dm.prog = loc
    /\ loc \in {"fence", "csr"} /\ step = "idle" /\ dm.busy => dm.prog = loc
    /\ Passing("csr", Entry)
    /\ call # NoCall /\ call.kind = "reset" =>
          /\ \A h \in Harts : Started(h) => hart[h].pc = Entry
          /\ loc = "return" => count = num_harts - 1

IInv == PlaceOK /\ CallOK /\ TypesOK /\ Holding /\ Commanding /\ Borrowing /\ Resetting
-----------------------------------------------------------------------------
(* What the tables say.                                                    *)
LEMMA Programs ==
    /\ \A l \in Locs : Program(l) \in Moving \cup {"none", "fence", "csr"}
    /\ \A l \in {"fence", "csr"} : Program(l) = l
    /\ \A l \in Runs \ {"set_s0", "set_s1", "fence", "csr"} : Program(l) = "none"
    /\ Program("set_s0") = IF call.kind = "read" THEN "load" ELSE IF call.kind = "write" THEN "store" ELSE "none"
    /\ Program("set_s1") = IF call.kind = "clear" THEN "clear" ELSE "none"
BY Zenon DEF Program, Moving, Runs, ChunkRuns

LEMMA Values ==
    /\ loc = "restore_s0" => Value = saved.s0
    /\ loc = "restore_s1" => Value = saved.s1
    /\ loc = "csr" => Value = Entry
    /\ loc = "set_s0" => Value = <<call.addr, 0>>
    /\ loc = "set_s1" /\ call.kind = "write" => Value = call.data[0]
    /\ loc = "set_s1" /\ call.kind = "clear" => Value = <<call.addr + call.len, 0>>
    /\ loc = "word" => Value = call.data[count]
BY Zenon DEF Value

LEMMA ValueType == ASSUME PlaceOK, CallOK, TypesOK, Given(loc) PROVE Value \in Word
BY Values, WordAssumption DEF PlaceOK, CallOK, TypesOK, ChunkCall, ChunkKinds, Word, Given,
                              Runs, ChunkRuns, LastWord

LEMMA CommandTypes == ASSUME NEW l \in Locs PROVE CommandAt(l) \in Commands
BY DEF CommandAt, Command, Commands

LEMMA CommandFields ==
    ASSUME NEW l
    PROVE  /\ CommandAt(l).write <=> l \in {"set_s0", "set_s1", "restore_s0", "restore_s1", "fence", "csr"}
           /\ CommandAt(l).post => l \in {"set_s0", "set_s1", "word", "fence", "csr"}
           /\ l \in {"fence", "csr"} => CommandAt(l).post /\ CommandAt(l).reg = "x0"
           /\ l \in {"save_s0", "restore_s0"} => CommandAt(l).reg = "s0"
           /\ l \in {"save_s1", "restore_s1"} => CommandAt(l).reg = "s1"
           /\ CommandAt(l).size = 128 => l = "probe128"
<1>1. CommandAt(l).write <=> l \in {"set_s0", "set_s1", "restore_s0", "restore_s1", "fence", "csr"}
  BY DEF CommandAt, Command
<1>2. CommandAt(l).post <=> \/ l \in {"set_s1", "fence", "csr"}
                            \/ l = "set_s0" /\ call.kind = "read"
                            \/ l = "word" /\ count < call.len
  BY DEF CommandAt, Command
<1>3. CommandAt(l).reg = IF l \in {"fence", "csr"} THEN "x0"
                         ELSE IF l \in {"save_s1", "set_s1", "word", "restore_s1"} THEN "s1" ELSE "s0"
  BY DEF CommandAt, Command
<1>4. CommandAt(l).size = IF l = "probe128" THEN 128 ELSE 64
  BY DEF CommandAt, Command
<1> QED BY <1>1, <1>2, <1>3, <1>4

(* A chunk by what it is made of.                                          *)
LEMMA ChunkData ==
    ASSUME NEW c \in Chunks
    PROVE  /\ c.kind \in ChunkKinds /\ c.addr \in Nat /\ c.len \in Nat \ {0}
           /\ c.data = [k \in 0 .. c.len - 1 |-> c.data[k]]
           /\ c.kind = "read" => \A k \in 0 .. c.len - 1 : c.data[k] = Unread
           /\ c.kind = "write" => \A k \in 0 .. c.len - 1 : c.data[k] = Mark(c.addr + k)
           /\ c.kind = "clear" => \A k \in 0 .. c.len - 1 : c.data[k] = Zero
<1>1. PICK a \in First, n \in 1 .. MaxLen :
         \/ c = Chunk("read", a, n, LAMBDA b : Unread)
         \/ c = Chunk("write", a, n, Mark)
         \/ c = Chunk("clear", a, n, LAMBDA b : Zero)
  <2> DEFINE T(a, n) == {Chunk("read", a, n, LAMBDA b : Unread), Chunk("write", a, n, Mark),
                         Chunk("clear", a, n, LAMBDA b : Zero)}
  <2>1. Chunks = UNION {T(a, n) : a \in First, n \in 1 .. MaxLen}
    BY DEF Chunks
  <2>2. \E a \in First, n \in 1 .. MaxLen : c \in T(a, n)
    <3> HIDE DEF T
    <3> QED BY <2>1
  <2> QED BY <2>2
<1>2. a \in Nat /\ n \in Nat \ {0}
  BY AddrAssumption
<1>3. CASE c = Chunk("read", a, n, LAMBDA b : Unread)
  <2>1. c.kind = "read" /\ c.addr = a /\ c.len = n /\ c.data = [k \in 0 .. n - 1 |-> Unread]
    BY <1>3 DEF Chunk
  <2> QED BY <1>2, <2>1 DEF ChunkKinds
<1>4. CASE c = Chunk("write", a, n, Mark)
  <2>1. c.kind = "write" /\ c.addr = a /\ c.len = n /\ c.data = [k \in 0 .. n - 1 |-> Mark(a + k)]
    BY <1>4 DEF Chunk
  <2> QED BY <1>2, <2>1 DEF ChunkKinds
<1>5. CASE c = Chunk("clear", a, n, LAMBDA b : Zero)
  <2>1. c.kind = "clear" /\ c.addr = a /\ c.len = n /\ c.data = [k \in 0 .. n - 1 |-> Zero]
    BY <1>5 DEF Chunk
  <2> QED BY <1>2, <2>1 DEF ChunkKinds
<1> QED BY <1>1, <1>3, <1>4, <1>5

LEMMA ChunkTypes == ASSUME NEW c \in Chunks
                    PROVE /\ c.kind \in ChunkKinds /\ c.addr \in Nat /\ c.len \in Nat \ {0}
                          /\ c.kind = "write" => \A k \in 0 .. c.len - 1 : c.data[k] \in Word
<1>1. c.kind \in ChunkKinds /\ c.addr \in Nat /\ c.len \in Nat \ {0}
  BY ChunkData
<1>2. c.kind = "write" => \A k \in 0 .. c.len - 1 : c.data[k] = Mark(c.addr + k)
  BY ChunkData
<1>3. ASSUME NEW a \in Nat PROVE Mark(a) \in Word
  BY DEF Word, Mark
<1>4. ASSUME c.kind = "write", NEW k \in 0 .. c.len - 1 PROVE c.data[k] \in Word
  <2>1. c.addr + k \in Nat
    BY <1>1, <1>4
  <2>2. c.data[k] = Mark(c.addr + k)
    BY <1>2, <1>4
  <2> QED BY <1>3, <2>1, <2>2
<1> QED BY <1>1, <1>4

LEMMA HartType == ASSUME CallOK PROVE call # NoCall => Hart \in Harts
BY HartAssumption DEF CallOK, Hart, Harts

(* What the accesses to the debug module do to it.                         *)
SameBut(d, e) == /\ e.data = d.data /\ e.prog = d.prog /\ e.cmd = d.cmd /\ e.busy = d.busy
                 /\ e.cmderr = d.cmderr /\ e.auto = d.auto

LEMMA ControlledModule ==
    ASSUME NEW d \in Modules, NEW q \in BOOLEAN, NEW h \in Harts
    PROVE  /\ Controlled(d, q, h) \in Modules
           /\ SameBut(d, Controlled(d, q, h))
           /\ Controlled(d, q, h).active
BY DEF Controlled, Modules, SameBut

LEMMA HaltRequested == ASSUME NEW d \in Modules, NEW h \in Harts, d.active
                       PROVE  Controlled(d, TRUE, h).haltreq /\ Controlled(d, TRUE, h).sel = h
BY DEF Controlled, Modules

LEMMA NotRequested == ASSUME NEW d \in Modules, NEW h \in Harts, d.active \/ ~d.haltreq
                      PROVE  /\ ~Controlled(d, FALSE, h).haltreq
                             /\ d.active => Controlled(d, FALSE, h).sel = h
BY DEF Controlled, Modules

LEMMA HartChanges ==
    ASSUME NEW f \in [Harts -> HartStates], NEW h \in Harts
    PROVE  /\ [f EXCEPT ![h].st = "halted"] \in [Harts -> HartStates]
           /\ [f EXCEPT ![h].st = "running", ![h].resumereq = FALSE, ![h].ack = TRUE] \in [Harts -> HartStates]
           /\ [f EXCEPT ![h].resumereq = TRUE, ![h].ack = FALSE] \in [Harts -> HartStates]
           /\ \A r \in RegFile : [f EXCEPT ![h].s0 = r[1], ![h].s1 = r[2], ![h].own = r] \in [Harts -> HartStates]
<1>1. f[h] \in HartStates
  OBVIOUS
<1> DEFINE a == [f[h] EXCEPT !.st = "halted"]
           b == [f[h] EXCEPT !.st = "running", !.resumereq = FALSE, !.ack = TRUE]
           c == [f[h] EXCEPT !.resumereq = TRUE, !.ack = FALSE]
           e(r) == [f[h] EXCEPT !.s0 = r[1], !.s1 = r[2], !.own = r]
<1>2. a \in HartStates /\ b \in HartStates /\ c \in HartStates
  BY <1>1 DEF HartStates
<1>3. \A r \in RegFile : e(r) \in HartStates
  BY <1>1, WordAssumption DEF HartStates
<1> QED BY <1>2, <1>3

LEMMA Files == \A r \in RegFile : r \in Word \X Word /\ r = <<r[1], r[2]>>
BY WordAssumption

LEMMA Initially == Init => IInv
<1> SUFFICES ASSUME Init PROVE IInv
  OBVIOUS
<1>0. Hart = 0 /\ 0 \in Harts
  BY HartAssumption DEF Init, Hart, Harts, Starting
<1>1. PlaceOK /\ CallOK
  BY HartAssumption, CallAssumption DEF Init, PlaceOK, CallOK, Starting, HaltSteps, ResumeSteps,
                                        RunSteps, Locs, Runs, ChunkRuns, Autos, ChunkKinds
<1>2. TypesOK
  <2>1. DmReset \in Modules
    BY <1>0 DEF DmReset, Modules, Commands, Command, Word, Zero
  <2>2. \A r \in RegFile : HartInit(r) \in HartStates
    BY WordAssumption DEF HartInit, HartStates
  <2>3. hart \in [Harts -> HartStates]
    BY <2>2 DEF Init
  <2> QED BY <2>1, <2>3 DEF Init, TypesOK, Word, Zero
<1>3. \A h \in Harts : Free(h) /\ Kept(h)
  <2> TAKE h \in Harts
  <2>1. PICK r \in RegFile : hart[h] = HartInit(r)
    BY DEF Init
  <2>2. r = <<r[1], r[2]>>
    BY WordAssumption
  <2> QED BY <2>1, <2>2 DEF HartInit, Free, Kept
<1>4. Holding /\ Commanding
  BY <1>3 DEF Init, Holding, Commanding, AllFree, DmReset, RunSteps, ResumeSteps, AutoOn
<1>5. Borrowing /\ Resetting
  BY <1>3 DEF Init, Borrowing, Resetting, Passing, Over, S0Saved, S1Saved, ChunkRuns, Autos,
              Starting
<1> QED BY <1>1, <1>2, <1>4, <1>5 DEF IInv

LEMMA ZeroHart == 0 \in Harts
BY HartAssumption DEF Harts

(* A chunk's procedures work on hart 0, which they hold.                   *)
LEMMA Borrowed ==
    ASSUME IInv, loc \in ChunkRuns \cup Autos
    PROVE  /\ Hart = 0 /\ call # NoCall /\ call.kind \in ChunkKinds
           /\ step \in RunSteps \cup {"auto"} /\ Held /\ ~dm.haltreq
<1>1. step \in RunSteps \cup {"auto"}
  BY DEF IInv, PlaceOK, ChunkRuns, Autos, HaltSteps, ResumeSteps
<1>2. call # NoCall /\ call.kind \in ChunkKinds /\ Hart = 0
  BY DEF IInv, CallOK, ChunkRuns, Autos, ChunkKinds, Hart
<1> QED BY <1>1, <1>2 DEF IInv, Holding

LEMMA HaltHartStep == ASSUME IInv, NEW h \in Harts, HaltHart(h) PROVE IInv'
<1> USE DEF HaltHart, hostVars, place
<1>1. step = "halted" /\ h = Hart /\ Hart' = Hart
  BY DEF IInv, PlaceOK, Holding, HaltSteps, ResumeSteps, RunSteps, Hart, Held
<1>2. PlaceOK' /\ CallOK'
  BY DEF IInv, PlaceOK, CallOK, Given, Taken, ChunkCall, LastWord
<1>3. TypesOK'
  BY HartChanges DEF IInv, TypesOK
<1>4. /\ \A k \in Harts \ {h} : hart'[k] = hart[k]
      /\ hart'[h].st = "halted" /\ hart'[h].resumereq = hart[h].resumereq
      /\ \A k \in Harts : Kept(k)' = Kept(k) /\ hart'[k].own = hart[k].own /\ hart'[k].pc = hart[k].pc
  BY DEF IInv, TypesOK, Kept, HartStates
<1>5. Holding'
  BY <1>1, <1>4 DEF IInv, Holding, OthersFree, AllFree, Free, Held, HaltSteps, ResumeSteps,
                    RunSteps
<1>6. Commanding'
  BY DEF IInv, Commanding, AutoOn, CommandAt
<1>7. Borrowing'
  BY <1>1, <1>4 DEF IInv, Borrowing, S0Saved, S1Saved, Passing, Over, Answered, PlaceOK,
                    HaltSteps, RunSteps, ResumeSteps
<1>8. Resetting'
  BY <1>4 DEF IInv, Resetting, Started, Passing, Over
<1> QED BY <1>2, <1>3, <1>5, <1>6, <1>7, <1>8 DEF IInv

LEMMA ResumeHartStep == ASSUME IInv, NEW h \in Harts, ResumeHart(h) PROVE IInv'
<1> USE DEF ResumeHart, hostVars, place
<1>1. step = "resumed" /\ h = Hart /\ Hart' = Hart
  BY DEF IInv, PlaceOK, Holding, HaltSteps, ResumeSteps, RunSteps, Hart, Held, OthersFree,
         AllFree, Free
<1>2. PlaceOK' /\ CallOK'
  BY DEF IInv, PlaceOK, CallOK, Given, Taken, ChunkCall, LastWord
<1>3. TypesOK'
  BY HartChanges DEF IInv, TypesOK
<1>4. /\ \A k \in Harts \ {h} : hart'[k] = hart[k]
      /\ hart'[h].st = "running" /\ hart'[h].resumereq = FALSE
      /\ hart'[h].s0 = hart[h].s0 /\ hart'[h].s1 = hart[h].s1
      /\ \A k \in Harts : Kept(k)' = Kept(k) /\ hart'[k].own = hart[k].own /\ hart'[k].pc = hart[k].pc
  BY DEF IInv, TypesOK, Kept, HartStates
<1>5. Holding'
  <2>1. Hart \in Harts /\ step' = "resumed" /\ dm' = dm
    BY <1>1
  <2>2. dm.active /\ ~dm.haltreq /\ dm.sel = Hart /\ OthersFree
    BY <1>1 DEF IInv, Holding
  <2>3. Free(Hart)'
    BY <1>1, <1>4 DEF Free
  <2>4. OthersFree'
    <3>1. \A k \in Harts \ {Hart} : Free(k) /\ hart'[k] = hart[k]
      BY <1>1, <1>4, <2>2 DEF OthersFree
    <3> QED BY <1>1, <3>1 DEF OthersFree, Free
  <2> QED BY <1>1, <2>1, <2>2, <2>3, <2>4 DEF Holding, RunSteps
<1>6. Commanding'
  BY DEF IInv, Commanding, AutoOn, CommandAt
<1>7. Borrowing'
  <2>1. loc \in Before
    BY <1>1 DEF IInv, PlaceOK, ResumeSteps, Before
  <2>2. loc \notin ChunkRuns \cup Autos
    BY <1>1, Borrowed DEF RunSteps
  <2> QED BY <1>1, <1>4, <2>1, <2>2 DEF IInv, Borrowing, S0Saved, S1Saved, Passing, Over,
                                        Answered, Before, ChunkRuns
<1>8. Resetting'
  <2>1. UNCHANGED <<call, loc, step, count, dm>> /\ \A k \in Harts : hart'[k].pc = hart[k].pc
    BY <1>4
  <2> QED BY <2>1 DEF IInv, Resetting, Started, Passing, Over
<1> QED BY <1>2, <1>3, <1>5, <1>6, <1>7, <1>8 DEF IInv

LEMMA ProgramStepStep == ASSUME IInv, NEW h \in Harts, ProgramStep(h) PROVE IInv'
<1>1. UNCHANGED <<call, loc, step, count, saved, err, got, running, dm, moved>>
  BY DEF ProgramStep, hostVars, place
<1>2. PlaceOK' /\ CallOK'
  BY <1>1 DEF IInv, PlaceOK, CallOK, Given, Taken, ChunkCall, LastWord
<1>3. hart' = hart \/ \E r \in RegFile : hart' = [hart EXCEPT ![h].s0 = r[1], ![h].s1 = r[2], ![h].own = r]
  BY DEF ProgramStep
<1>4. TypesOK'
  <2>1. Stored \in Word
    BY DEF Stored, Word
  <2>2. mem' \in [Addr -> Word]
    BY <2>1 DEF ProgramStep, IInv, TypesOK
  <2>3. hart' \in [Harts -> HartStates]
    <3>1. hart \in [Harts -> HartStates]
      BY DEF IInv, TypesOK
    <3>2. ASSUME NEW r \in RegFile, hart' = [hart EXCEPT ![h].s0 = r[1], ![h].s1 = r[2], ![h].own = r]
          PROVE hart' \in [Harts -> HartStates]
      BY <3>1, <3>2, HartChanges
    <3> QED BY <1>3, <3>1, <3>2
  <2> QED BY <1>1, <2>2, <2>3 DEF IInv, TypesOK
<1>5. /\ \A k \in Harts \ {h} : hart'[k] = hart[k]
      /\ \A k \in Harts : /\ hart'[k].st = hart[k].st /\ hart'[k].resumereq = hart[k].resumereq
                          /\ hart'[k].ack = hart[k].ack /\ hart'[k].pc = hart[k].pc
                          /\ Free(k)' <=> Free(k)
      /\ hart'[h] = hart[h] \/ Kept(h)'
  <2>1. CASE UNCHANGED hart
    BY <2>1 DEF Free
  <2>2. ASSUME NEW r \in RegFile, hart' = [hart EXCEPT ![h].s0 = r[1], ![h].s1 = r[2], ![h].own = r]
        PROVE <1>5!:
    BY <2>2, Files DEF IInv, TypesOK, HartStates, Kept, Free
  <2> QED BY <1>3, <2>1, <2>2
<1>6. Hart' = Hart /\ hart[h].st = "running"
  BY <1>1 DEF Hart, ProgramStep
<1>7. Holding'
  <2>1. (OthersFree' <=> OthersFree) /\ (AllFree' <=> AllFree)
    BY <1>5, <1>6 DEF OthersFree, AllFree
  <2>2. call # NoCall => /\ hart'[Hart'].st = hart[Hart].st /\ hart'[Hart'].ack = hart[Hart].ack
                         /\ hart'[Hart'].resumereq = hart[Hart].resumereq
                         /\ Free(Hart)' <=> Free(Hart)
    BY <1>5, <1>6, HartType DEF IInv
  <2>3. step \notin {"none"} => call # NoCall
    BY DEF IInv, PlaceOK, CallOK
  <2> QED BY <1>1, <2>1, <2>2, <2>3, <1>6 DEF IInv, Holding, Held, RunSteps
<1>8. Commanding'
  BY <1>1 DEF IInv, Commanding, AutoOn, CommandAt
<1>9. Borrowing'
  <2>1. \A k \in Harts : hart'[k].st = "running" \/ loc \in Before => Kept(k)'
    BY <1>5 DEF IInv, Borrowing, Kept
  <2>2. loc \in ChunkRuns \cup Autos => hart'[0] = hart[0]
    BY <1>5, <1>6, Borrowed, ZeroHart DEF Held
  <2> QED BY <1>1, <2>1, <2>2 DEF IInv, Borrowing, S0Saved, S1Saved, Passing, Over, Answered,
                                  ChunkRuns
<1>10. Resetting'
  BY <1>1, <1>5 DEF IInv, Resetting, Started, Passing, Over
<1> QED BY <1>2, <1>4, <1>7, <1>8, <1>9, <1>10 DEF IInv

(* The host's steps.                                                       *)
LEMMA HaltStep == ASSUME IInv, Halt PROVE IInv'
<1>1. UNCHANGED <<call, running, mem, moved, saved, err, got, hart>> /\ call # NoCall
  BY DEF Halt, Silent, Access, IInv, PlaceOK, CallOK
<1>2. Hart \in Harts /\ dm \in Modules
  BY <1>1, HartType DEF IInv, TypesOK
<1>3. ASSUME dm' \in Modules PROVE TypesOK'
  BY <1>1, <1>3 DEF IInv, TypesOK
<1>4. ASSUME step \in {"activate", "haltreq", "halted"}, loc' = loc, count' = count,
             SameBut(dm, dm'), dm' \in Modules,
             step' \in {"haltreq", "halted", "unhalt"}, Holding'
      PROVE  IInv'
  <2>1. PlaceOK' /\ CallOK'
    BY <1>1, <1>4 DEF IInv, PlaceOK, CallOK, ChunkCall, LastWord, HaltSteps, ResumeSteps,
                      RunSteps
  <2>2. Commanding'
    BY <1>1, <1>4 DEF IInv, Commanding, AutoOn, CommandAt, SameBut
  <2>3. loc \in {"halt", "fence", "csr"}
    BY <1>4 DEF IInv, PlaceOK, HaltSteps
  <2>4. Borrowing'
    BY <1>1, <1>4, <2>3 DEF IInv, Borrowing, S0Saved, S1Saved, Passing, Over, Answered, Before,
                            ChunkRuns, Autos, Kept
  <2>5. Resetting'
    BY <1>1, <1>4, <2>3 DEF IInv, Resetting, Passing, Over, Started, ResumeSteps
  <2> QED BY <1>3, <1>4, <2>1, <2>2, <2>4, <2>5 DEF IInv
<1>5. CASE step = "activate"
  <2>1. dm' = Controlled(dm, FALSE, 0) /\ step' = "haltreq" /\ loc' = loc /\ count' = count
    BY <1>5 DEF Halt, Activated, Go
  <2>2. /\ dm' \in Modules /\ SameBut(dm, dm') /\ dm'.active /\ ~dm'.haltreq
    BY <2>1, <1>2, <1>5, ZeroHart, ControlledModule, NotRequested DEF IInv, Holding
  <2>3. Holding'
    BY <1>1, <1>5, <2>1, <2>2 DEF IInv, Holding, AllFree, Free, RunSteps
  <2> QED BY <1>4, <1>5, <2>1, <2>2, <2>3
<1>6. CASE step = "haltreq"
  <2>1. dm' = Controlled(dm, TRUE, Hart) /\ step' = "halted" /\ loc' = loc /\ count' = count
    BY <1>6 DEF Halt, Go
  <2>2. /\ dm' \in Modules /\ SameBut(dm, dm') /\ dm'.active /\ dm'.haltreq /\ dm'.sel = Hart
    BY <2>1, <1>2, <1>6, ControlledModule, HaltRequested DEF IInv, Holding
  <2>3. Holding'
    BY <1>1, <1>2, <1>6, <2>1, <2>2 DEF IInv, Holding, AllFree, Free, OthersFree, RunSteps, Hart
  <2> QED BY <1>4, <1>6, <2>1, <2>2, <2>3
<1>7. CASE step = "halted"
  <2>1. dm' = dm /\ hart[dm.sel].st = "halted" /\ step' = "unhalt" /\ loc' = loc /\ count' = count
    BY <1>7 DEF Halt, Go
  <2>2. dm' \in Modules /\ SameBut(dm, dm')
    BY <2>1, <1>2 DEF SameBut
  <2>3. Holding'
    BY <1>1, <1>7, <2>1, <2>2 DEF IInv, Holding, Held, Free, OthersFree, RunSteps, Hart
  <2> QED BY <1>4, <1>7, <2>1, <2>2, <2>3
<1>8. CASE step = "unhalt"
  <2>1. /\ dm' = Controlled(dm, FALSE, Hart) /\ count' = count
        /\ IF loc = "halt" THEN Continue ELSE step' = RunStart(loc) /\ loc' = loc
    BY <1>8 DEF Halt, Go, Continue
  <2>2. /\ dm' \in Modules /\ SameBut(dm, dm') /\ dm'.active /\ ~dm'.haltreq /\ dm'.sel = Hart
    BY <2>1, <1>2, <1>8, ControlledModule, NotRequested DEF IInv, Holding, Held
  <2>3. loc \in {"halt", "fence", "csr"}
    BY <1>8 DEF IInv, PlaceOK, HaltSteps
  <2>4. \/ loc = "halt" /\ call.kind = "start" /\ loc' = "probe128" /\ step' = "command"
        \/ loc = "halt" /\ call.kind # "start" /\ loc' = "save_s0" /\ step' = "command"
        \/ loc \in {"fence", "csr"} /\ loc' = loc /\ step' = "program"
    BY <2>1, <2>3, Programs DEF Continue, Enter, Start, RunStart, Following, Given, Runs,
                                ChunkRuns
  <2>5. PlaceOK' /\ CallOK'
    BY <1>1, <2>1, <2>4 DEF IInv, PlaceOK, CallOK, ChunkKinds, ChunkCall, HaltSteps,
                            ResumeSteps, RunSteps, Runs, ChunkRuns, Autos, Locs
  <2>6. Hart' = Hart
    BY <1>1, <2>1 DEF Hart
  <2>7. Holding'
    BY <1>1, <1>8, <2>2, <2>4, <2>6 DEF IInv, Holding, Held, OthersFree, Free, RunSteps
  <2>8. Commanding'
    BY <1>1, <1>8, <2>2, <2>3, <2>4 DEF IInv, Commanding, AutoOn, MayFail, SameBut
  <2>9. Borrowing'
    BY <1>1, <2>3, <2>4 DEF IInv, Borrowing, S0Saved, S1Saved, Passing, Over, Answered, Before,
                            ChunkRuns, Autos, Kept
  <2>10. Resetting'
    BY <1>1, <1>8, <2>1, <2>3, <2>4 DEF IInv, CallOK, Resetting, Passing, Over, Started,
                                        ResumeSteps
  <2> QED BY <1>3, <2>2, <2>5, <2>7, <2>8, <2>9, <2>10 DEF IInv
<1> QED BY <1>5, <1>6, <1>7, <1>8 DEF Halt

LEMMA ResumeStep == ASSUME IInv, Resume PROVE IInv'
<1>1. UNCHANGED <<call, running, mem, moved, saved, err, got>> /\ call # NoCall
  BY DEF Resume, Silent, Access, IInv, PlaceOK, CallOK
<1>2. Hart \in Harts /\ dm \in Modules /\ hart \in [Harts -> HartStates]
  BY <1>1, HartType DEF IInv, TypesOK
<1>3. step \in ResumeSteps /\ loc \in {"resume", "fence", "csr"}
  BY DEF Resume, IInv, PlaceOK, ResumeSteps
<1>4. ASSUME step' \in ResumeSteps, loc' = loc, count' = count, SameBut(dm, dm'), dm' \in Modules,
             hart' \in [Harts -> HartStates], Holding',
             \A h \in Harts : /\ Kept(h)' = Kept(h) /\ hart'[h].own = hart[h].own
                              /\ hart'[h].pc = hart[h].pc
      PROVE  IInv'
  <2>1. PlaceOK' /\ CallOK'
    BY <1>1, <1>3, <1>4 DEF IInv, PlaceOK, CallOK, ChunkCall, LastWord, HaltSteps, ResumeSteps,
                            RunSteps
  <2>2. TypesOK'
    BY <1>1, <1>4 DEF IInv, TypesOK
  <2>3. Commanding'
    BY <1>1, <1>3, <1>4 DEF IInv, Commanding, AutoOn, CommandAt, SameBut, ResumeSteps
  <2>4. Borrowing'
    BY <1>1, <1>3, <1>4 DEF IInv, Borrowing, S0Saved, S1Saved, Passing, Over, Answered, Before,
                            ChunkRuns, Autos
  <2>5. Resetting'
    BY <1>1, <1>3, <1>4 DEF IInv, Resetting, Passing, Over, Started, ResumeSteps
  <2> QED BY <1>4, <2>1, <2>2, <2>3, <2>4, <2>5 DEF IInv
<1>5. CASE step = "resumereq"
  <2>1. Held /\ ~dm.haltreq /\ dm.active
    BY <1>5 DEF IInv, Holding, Held
  <2>2. /\ dm' = Controlled(dm, FALSE, Hart) /\ step' = "resumed" /\ loc' = loc /\ count' = count
        /\ hart' = [hart EXCEPT ![Hart].resumereq = TRUE, ![Hart].ack = FALSE]
    BY <1>5, <2>1 DEF Resume, Go
  <2>3. /\ dm' \in Modules /\ SameBut(dm, dm') /\ dm'.active /\ ~dm'.haltreq /\ dm'.sel = Hart
    <3>1. dm' = Controlled(dm, FALSE, Hart)
      BY <2>2
    <3> QED BY <1>2, <2>1, <3>1, ControlledModule, NotRequested
  <2>4. hart' \in [Harts -> HartStates]
    BY <1>2, <2>2, HartChanges
  <2>5. /\ \A h \in Harts \ {Hart} : hart'[h] = hart[h]
        /\ hart'[Hart].st = hart[Hart].st /\ hart'[Hart].resumereq /\ ~hart'[Hart].ack
        /\ \A h \in Harts : /\ Kept(h)' = Kept(h) /\ hart'[h].own = hart[h].own
                            /\ hart'[h].pc = hart[h].pc
    BY <1>2, <2>2 DEF Kept, HartStates
  <2>6. Hart' = Hart
    BY <1>1, <2>2 DEF Hart
  <2>7. Holding'
    <3>1. OthersFree'
      BY <2>1, <2>5, <2>6 DEF Held, OthersFree, Free
    <3>2. hart'[Hart].st = "halted" /\ hart'[Hart].resumereq /\ ~hart'[Hart].ack
      BY <2>1, <2>5 DEF Held
    <3> QED BY <2>2, <2>3, <2>6, <3>1, <3>2 DEF Holding, RunSteps
  <2> QED BY <1>4, <2>2, <2>3, <2>4, <2>5, <2>7 DEF ResumeSteps
<1>6. CASE step = "resumed"
  <2>1. dm' = dm /\ hart' = hart /\ hart[dm.sel].ack /\ step' = "unresume" /\ loc' = loc /\ count' = count
    BY <1>6 DEF Resume, Go, ResumeSeen
  <2>2. Free(Hart)
    BY <1>6, <2>1 DEF IInv, Holding
  <2>3. AllFree
    BY <1>6, <2>2 DEF IInv, Holding, OthersFree, AllFree
  <2>4. Holding'
    BY <1>6, <2>1, <2>3 DEF IInv, Holding, AllFree, Free, RunSteps
  <2> QED BY <1>2, <1>4, <2>1, <2>4 DEF ResumeSteps, Kept, SameBut
<1>7. CASE step = "unresume"
  <2>1. dm' = Controlled(dm, FALSE, Hart) /\ hart' = hart /\ step' = "off" /\ loc' = loc /\ count' = count
    BY <1>7 DEF Resume, Go
  <2>2. /\ dm' \in Modules /\ SameBut(dm, dm') /\ dm'.active /\ ~dm'.haltreq
    BY <1>2, <1>7, <2>1, ControlledModule, NotRequested DEF IInv, Holding
  <2>3. Holding'
    BY <1>7, <2>1, <2>2 DEF IInv, Holding, AllFree, Free, RunSteps
  <2> QED BY <1>2, <1>4, <2>1, <2>2, <2>3 DEF ResumeSteps, Kept
<1>8. CASE step = "off"
  <2>1. /\ dm' = (IF running THEN DmReset ELSE dm) /\ hart' = hart
        /\ \/ loc = "resume" /\ loc' = "return" /\ step' = "return" /\ count' = count
           \/ loc = "fence" /\ loc' = "csr" /\ step' = "activate" /\ count' = count
           \/ loc = "csr" /\ loc' = "fence" /\ step' = "activate" /\ count' = count + 1 /\ count + 1 < num_harts
           \/ loc = "csr" /\ loc' = "return" /\ step' = "return" /\ count' = count /\ count + 1 = num_harts
    BY <1>8 DEF Resume, Resumed, Continue, Enter, Start, Following
  <2>2. dm' \in Modules /\ ~dm'.haltreq /\ ~dm'.busy /\ ~dm'.auto /\ dm'.cmderr = 0
    <3>1. DmReset \in Modules
      BY ZeroHart DEF DmReset, Modules, Commands, Command, Word, Zero
    <3>2. ~dm.haltreq /\ ~dm.busy /\ ~dm.auto /\ dm.cmderr = 0
      BY <1>3, <1>8 DEF IInv, Holding, Commanding, AutoOn
    <3> QED BY <1>2, <2>1, <3>1, <3>2 DEF DmReset
  <2>3. AllFree
    BY <1>8 DEF IInv, Holding
  <2>4. count' \in Int /\ (call.kind = "reset" => count \in Harts /\ count' \in Harts)
    BY <1>1, <1>3, <2>1, HartAssumption DEF IInv, CallOK, Harts
  <2>5. PlaceOK' /\ CallOK'
    BY <1>1, <2>1, <2>4 DEF IInv, PlaceOK, CallOK, ChunkKinds, ChunkCall, HaltSteps,
                            ResumeSteps, RunSteps, Runs, ChunkRuns, Autos, Locs
  <2>6. TypesOK'
    BY <1>1, <2>1, <2>2 DEF IInv, TypesOK
  <2>7. Holding'
    BY <2>1, <2>2, <2>3 DEF Holding, AllFree, Free, RunSteps
  <2>8. Commanding'
    BY <1>1, <1>8, <2>1, <2>2 DEF IInv, Commanding, AutoOn
  <2>9. Borrowing'
    BY <1>1, <1>3, <2>1 DEF IInv, Borrowing, S0Saved, S1Saved, Passing, Over, Answered, Before,
                            ChunkRuns, Autos, Kept
  <2>10. Resetting'
    <3>1. \A h \in Harts : Started(h)' /\ call.kind = "reset" => Started(h)
      BY <1>3, <1>8, <2>1, <2>4 DEF Started, Over, ResumeSteps, Harts, IInv, CallOK
    <3>2. call.kind = "reset" => \A h \in Harts : Started(h)' => hart'[h].pc = Entry
      BY <1>1, <2>1, <3>1 DEF IInv, Resetting
    <3>3. call.kind = "reset" /\ loc' = "return" => count' = num_harts - 1
      BY <1>1, <1>3, <2>1, <2>4, HartAssumption DEF IInv, CallOK
    <3> QED BY <1>1, <2>1, <3>2, <3>3 DEF Resetting, Passing
  <2> QED BY <2>5, <2>6, <2>7, <2>8, <2>9, <2>10 DEF IInv
<1> QED BY <1>3, <1>5, <1>6, <1>7, <1>8 DEF ResumeSteps

(* run_abstract_command: the hart is held throughout.                      *)
LEMMA Attached ==
    ASSUME IInv, step \in RunSteps \cup {"auto"}
    PROVE  /\ dm \in Modules /\ dm.active /\ ~dm.haltreq /\ hart[dm.sel].st = "halted"
           /\ call # NoCall /\ loc \in Runs \cup Autos
           /\ step # "idle" => ~dm.busy
           /\ step \notin {"idle", "read", "check"} => dm.cmderr = 0 /\ err = 0
BY DEF IInv, PlaceOK, CallOK, TypesOK, Holding, Held, Commanding, Autos, RunSteps, Runs,
       ChunkRuns

LEMMA HoldingKept ==
    ASSUME IInv, step \in RunSteps \cup {"auto"}, step' \in RunSteps \cup {"auto", "resumereq"},
           Hart' = Hart,
           \A h \in Harts : hart'[h].st = hart[h].st /\ hart'[h].resumereq = hart[h].resumereq,
           dm'.active = dm.active, dm'.haltreq = dm.haltreq, dm'.sel = dm.sel
    PROVE  Holding'
<1>1. Held /\ ~dm.haltreq /\ call # NoCall
  BY Attached DEF IInv, Holding
<1>2. Hart \in Harts
  BY <1>1, HartType DEF IInv
<1>3. Held'
  BY <1>1, <1>2 DEF Held, OthersFree, Free
<1> QED BY <1>1, <1>3 DEF Holding, RunSteps

(* What each access does to the module.                                    *)
LEMMA Data ==
    ASSUME NEW d \in Modules, NEW v \in Word
    PROVE  /\ [d EXCEPT !.data[1] = v[1]] \in Modules /\ [d EXCEPT !.data[2] = v[2]] \in Modules
           /\ [d EXCEPT !.data[1] = v[1]].data = <<v[1], d.data[2]>>
           /\ [d EXCEPT !.data[2] = v[2]].data = <<d.data[1], v[2]>>
           /\ v = <<v[1], v[2]>>
BY DEF Modules, Word

LEMMA CommandedModule ==
    ASSUME NEW d \in Modules, NEW c \in Commands, d.cmderr = 0, hart[d.sel].st = "halted"
    PROVE  /\ Commanded(d, c) \in Modules
           /\ Commanded(d, c).data = d.data /\ Commanded(d, c).prog = d.prog
           /\ Commanded(d, c).auto = d.auto /\ Commanded(d, c).active = d.active
           /\ Commanded(d, c).haltreq = d.haltreq /\ Commanded(d, c).sel = d.sel
           /\ \/ c.size = 64 /\ Commanded(d, c).cmderr = 0 /\ Commanded(d, c).busy /\ Commanded(d, c).cmd = c
              \/ c.size = 128 /\ Commanded(d, c).cmderr = 2 /\ Commanded(d, c).busy = d.busy
<1>1. CASE c.size = 128
  <2>1. Commanded(d, c) = [d EXCEPT !.cmderr = 2]
    BY <1>1 DEF Commanded, Failed
  <2> QED BY <1>1, <2>1 DEF Modules
<1>2. CASE c.size = 64
  <2>1. Commanded(d, c) = [d EXCEPT !.busy = TRUE, !.cmd = c]
    BY <1>2 DEF Commanded, Failed
  <2>2. Commanded(d, c) \in Modules
    BY <2>1 DEF Modules
  <2>3. Commanded(d, c).busy /\ Commanded(d, c).cmd = c
    BY <2>1 DEF Modules
  <2> QED BY <1>2, <2>1, <2>2, <2>3 DEF Modules
<1> QED BY <1>1, <1>2 DEF Commands

LEMMA ProgramWritten ==
    ASSUME IInv, WriteProgram
    PROVE  /\ step = "program" /\ step' = (IF Given(loc) THEN "first" ELSE "command") /\ loc \in Runs
           /\ UNCHANGED <<call, loc, count, running, mem, moved, saved, err, got, hart>>
           /\ dm' \in Modules /\ dm'.prog = Program(loc)
           /\ dm'.data = dm.data /\ dm'.auto = dm.auto /\ dm'.active = dm.active
           /\ dm'.haltreq = dm.haltreq /\ dm'.sel = dm.sel /\ dm'.cmderr = dm.cmderr
           /\ dm'.busy = dm.busy /\ dm'.cmd = dm.cmd
<1>1. /\ step = "program" /\ step' = (IF Given(loc) THEN "first" ELSE "command")
      /\ UNCHANGED <<call, loc, count, running, mem, moved, saved, err, got, hart>>
  BY DEF WriteProgram, Go, Silent, Access
<1>2. dm' = [dm EXCEPT !.prog = Program(loc)] /\ loc \in Runs /\ dm \in Modules
  BY <1>1, Attached DEF WriteProgram, Accessed, RunSteps, Autos, IInv, PlaceOK
<1>3. Program(loc) \in Moving \cup {"none", "fence", "csr"}
  BY Programs DEF IInv, PlaceOK
<1> QED BY <1>1, <1>2, <1>3 DEF Modules

LEMMA WriteProgramStep == ASSUME IInv, WriteProgram PROVE IInv'
<1>1. /\ step = "program" /\ step' \in {"first", "command"} /\ (step' = "first" <=> Given(loc))
      /\ UNCHANGED <<call, loc, count, running, mem, moved, saved, err, got, hart>>
  BY ProgramWritten
<1>2. dm'.data = dm.data /\ loc \in Runs
  BY ProgramWritten
<1>3. /\ dm' \in Modules /\ dm'.prog = Program(loc) /\ dm'.auto = dm.auto /\ dm'.active = dm.active
      /\ dm'.haltreq = dm.haltreq /\ dm'.sel = dm.sel /\ dm'.cmderr = dm.cmderr /\ dm'.busy = dm.busy
  BY ProgramWritten
<1>4. PlaceOK' /\ CallOK'
  BY <1>1 DEF IInv, PlaceOK, CallOK, ChunkCall, LastWord, HaltSteps, ResumeSteps, RunSteps,
              Given
<1>5. TypesOK'
  BY <1>1, <1>3 DEF IInv, TypesOK
<1>6. Holding'
  BY <1>1, <1>3, HoldingKept DEF RunSteps, Hart
<1>7. Commanding'
  BY <1>1, <1>3, Attached DEF IInv, Commanding, AutoOn, RunSteps
<1>8. Borrowing'
  BY <1>1, <1>2 DEF IInv, Borrowing, S0Saved, S1Saved, Passing, Over, Answered, Kept, Given,
                    Runs, ChunkRuns, ResumeSteps
<1>9. Resetting'
  BY <1>1, <1>2, <1>3, Programs DEF IInv, Resetting, Passing, Over, Started, Given, ResumeSteps
<1> QED BY <1>4, <1>5, <1>6, <1>7, <1>8, <1>9 DEF IInv

LEMMA DataWritten ==
    ASSUME IInv, WriteData
    PROVE  /\ step \in {"first", "second"} /\ Given(loc) /\ loc \in Runs
           /\ UNCHANGED <<call, loc, count, running, mem, moved, saved, err, got, hart>>
           /\ dm' \in Modules /\ dm'.prog = dm.prog /\ dm'.auto = dm.auto /\ dm'.active = dm.active
           /\ dm'.haltreq = dm.haltreq /\ dm'.sel = dm.sel
           /\ dm'.data = IF step = "first" <=> loc = "word" THEN <<dm.data[1], Value[2]>>
                                                            ELSE <<Value[1], dm.data[2]>>
           /\ Value = <<Value[1], Value[2]>>
           /\ step' = IF step = "first" THEN "second" ELSE IF loc = "word" THEN "idle" ELSE "command"
           /\ ~(step = "second" /\ loc = "word") =>
                  dm'.cmderr = dm.cmderr /\ dm'.busy = dm.busy /\ dm'.cmd = dm.cmd
           /\ step = "second" /\ loc = "word" =>
                  \/ dm.cmd.size = 64 /\ dm'.cmderr = 0 /\ dm'.busy /\ dm'.cmd = dm.cmd
                  \/ dm.cmd.size = 128 /\ dm'.cmderr = 2 /\ ~dm'.busy
<1>1. /\ step \in {"first", "second"} /\ Given(loc) /\ loc \in Runs
      /\ UNCHANGED <<call, loc, count, running, mem, moved, saved, err, got, hart>>
  BY DEF WriteData, WriteHalf, Go, Silent, Access, IInv, PlaceOK, RunSteps
<1>2. /\ dm \in Modules /\ dm.active /\ ~dm.busy /\ dm.cmderr = 0 /\ err = 0
      /\ hart[dm.sel].st = "halted" /\ call # NoCall
  BY <1>1, Attached DEF RunSteps
<1>3. Value \in Word
  BY <1>1, ValueType DEF IInv
<1>4. dm.auto <=> loc = "word"
  BY <1>1 DEF IInv, Commanding, AutoOn, Given
<1> DEFINE low  == [dm EXCEPT !.data[1] = Value[1]]
           high == [dm EXCEPT !.data[2] = Value[2]]
<1>5. /\ low \in Modules /\ high \in Modules /\ Value = <<Value[1], Value[2]>>
      /\ low.data = <<Value[1], dm.data[2]>> /\ high.data = <<dm.data[1], Value[2]>>
  BY <1>2, <1>3, Data
<1>6. ASSUME NEW d \in {low, high}
      PROVE  /\ d.prog = dm.prog /\ d.auto = dm.auto /\ d.active = dm.active /\ d.haltreq = dm.haltreq
             /\ d.sel = dm.sel /\ d.cmderr = dm.cmderr /\ d.busy = dm.busy /\ d.cmd = dm.cmd
  BY <1>2 DEF Modules
<1>7. \/ step = "first" /\ loc # "word" /\ dm' = low /\ step' = "second"
      \/ step = "first" /\ loc = "word" /\ dm' = high /\ step' = "second"
      \/ step = "second" /\ loc # "word" /\ dm' = high /\ step' = "command"
      \/ step = "second" /\ loc = "word" /\ dm' = Commanded(low, low.cmd) /\ step' = "idle"
  BY <1>1, <1>2, <1>4, <1>6 DEF WriteData, WriteHalf, Halves, Accessed, Touched, Go
<1> HIDE DEF low, high
<1>8. dm' \in Modules /\ dm'.prog = dm.prog /\ dm'.auto = dm.auto /\ dm'.active = dm.active
      /\ dm'.haltreq = dm.haltreq /\ dm'.sel = dm.sel
  <2>1. low.cmd \in Commands /\ low.cmderr = 0 /\ hart[low.sel].st = "halted" /\ ~low.busy
    BY <1>2, <1>5, <1>6 DEF Modules
  <2> QED BY <1>5, <1>6, <1>7, <2>1, CommandedModule
<1>9. CASE step = "second" /\ loc = "word"
  <2>1. /\ low.cmd \in Commands /\ low.cmderr = 0 /\ hart[low.sel].st = "halted" /\ ~low.busy
        /\ low.cmd = dm.cmd
    BY <1>2, <1>5, <1>6 DEF Modules
  <2>2. dm' = Commanded(low, low.cmd) /\ step' = "idle"
    BY <1>7, <1>9
  <2>3. dm'.data = low.data
    BY <1>5, <2>1, <2>2, CommandedModule
  <2>4. \/ dm.cmd.size = 64 /\ dm'.cmderr = 0 /\ dm'.busy /\ dm'.cmd = dm.cmd
        \/ dm.cmd.size = 128 /\ dm'.cmderr = 2 /\ ~dm'.busy
    BY <1>5, <2>1, <2>2, CommandedModule
  <2> QED BY <1>1, <1>5, <1>8, <1>9, <2>2, <2>3, <2>4
<1>10. CASE ~(step = "second" /\ loc = "word")
  BY <1>1, <1>5, <1>6, <1>7, <1>8, <1>10
<1> QED BY <1>9, <1>10

LEMMA WriteDataStep == ASSUME IInv, WriteData PROVE IInv'
<1>1. /\ step \in {"first", "second"} /\ Given(loc) /\ loc \in Runs
      /\ UNCHANGED <<call, loc, count, running, mem, moved, saved, err, got, hart>>
  BY DataWritten
<1>2. ~dm.busy /\ dm.cmderr = 0 /\ err = 0 /\ call # NoCall
  BY <1>1, Attached DEF RunSteps
<1>4. dm.auto <=> loc = "word"
  BY <1>1 DEF IInv, Commanding, AutoOn, Given
<1>7. step' = IF step = "first" THEN "second" ELSE IF loc = "word" THEN "idle" ELSE "command"
  BY DataWritten
<1>8. /\ dm' \in Modules /\ dm'.prog = dm.prog /\ dm'.auto = dm.auto /\ dm'.active = dm.active
      /\ dm'.haltreq = dm.haltreq /\ dm'.sel = dm.sel
      /\ dm'.cmderr \in {0, 2} /\ (dm'.cmderr = 2 \/ dm'.busy => step = "second" /\ loc = "word")
      /\ dm'.busy => dm'.cmderr = 0
  BY <1>2, DataWritten
<1>10. PlaceOK' /\ CallOK'
  BY <1>1, <1>7 DEF IInv, PlaceOK, CallOK, ChunkCall, LastWord, HaltSteps, ResumeSteps,
                    RunSteps, Given
<1>11. TypesOK'
  BY <1>1, <1>8 DEF IInv, TypesOK
<1>12. Holding'
  BY <1>1, <1>7, <1>8, HoldingKept DEF RunSteps, Hart
<1>13. Commanding'
  BY <1>1, <1>2, <1>4, <1>7, <1>8 DEF IInv, Commanding, AutoOn, MayFail
<1>14. \A l \in {"restore_s0", "restore_s1", "csr"} : loc = l =>
          /\ step' = "second" => dm'.data[1] = Value[1]
          /\ step' = "command" /\ dm.data[1] = Value[1] => dm'.data = Value
          /\ step' # "idle"
  BY <1>1, <1>7, DataWritten
<1>15. Borrowing'
  BY <1>1, <1>7, <1>14, Values DEF IInv, Borrowing, S0Saved, S1Saved, Passing, Over, Answered,
                                   Kept, Given, Runs, ChunkRuns, ResumeSteps
<1>16. Resetting'
  BY <1>1, <1>7, <1>8, <1>14, Values DEF IInv, Resetting, Passing, Over, Started, ResumeSteps,
                                         Given
<1> QED BY <1>10, <1>11, <1>12, <1>13, <1>15, <1>16 DEF IInv

LEMMA CommandWritten ==
    ASSUME IInv, WriteCommand
    PROVE  /\ step = "command" /\ step' = "idle" /\ loc \in Runs
           /\ UNCHANGED <<call, loc, count, running, mem, moved, saved, err, got, hart>>
           /\ dm' \in Modules /\ dm'.data = dm.data /\ dm'.prog = dm.prog /\ dm'.auto = dm.auto
           /\ dm'.active = dm.active /\ dm'.haltreq = dm.haltreq /\ dm'.sel = dm.sel
           /\ \/ dm'.cmderr = 0 /\ dm'.busy /\ dm'.cmd = CommandAt(loc)
              \/ dm'.cmderr = 2 /\ ~dm'.busy /\ loc = "probe128"
<1>1. /\ step = "command" /\ step' = "idle" /\ loc \in Runs
      /\ UNCHANGED <<call, loc, count, running, mem, moved, saved, err, got, hart>>
  BY DEF WriteCommand, Go, Silent, Access, IInv, PlaceOK, RunSteps
<1>2. /\ dm \in Modules /\ dm.active /\ ~dm.busy /\ dm.cmderr = 0 /\ err = 0 /\ hart[dm.sel].st = "halted"
      /\ call # NoCall
  BY <1>1, Attached DEF RunSteps
<1>3. dm' = Commanded(dm, CommandAt(loc)) /\ CommandAt(loc) \in Commands
  BY <1>1, <1>2, CommandTypes DEF WriteCommand, Accessed, Locs
<1>4. /\ dm' \in Modules /\ dm'.data = dm.data /\ dm'.prog = dm.prog /\ dm'.auto = dm.auto
      /\ dm'.active = dm.active /\ dm'.haltreq = dm.haltreq /\ dm'.sel = dm.sel
      /\ \/ dm'.cmderr = 0 /\ dm'.busy /\ dm'.cmd = CommandAt(loc)
         \/ dm'.cmderr = 2 /\ ~dm'.busy /\ loc = "probe128"
  <2>1. /\ dm' \in Modules /\ dm'.data = dm.data /\ dm'.prog = dm.prog /\ dm'.auto = dm.auto
        /\ dm'.active = dm.active /\ dm'.haltreq = dm.haltreq /\ dm'.sel = dm.sel
    BY <1>2, <1>3, CommandedModule
  <2>2. \/ CommandAt(loc).size = 64 /\ dm'.cmderr = 0 /\ dm'.busy /\ dm'.cmd = CommandAt(loc)
        \/ CommandAt(loc).size = 128 /\ dm'.cmderr = 2 /\ dm'.busy = dm.busy
    BY <1>2, <1>3, CommandedModule
  <2>3. CommandAt(loc).size = 128 => loc = "probe128"
    BY CommandFields
  <2> QED BY <1>2, <2>1, <2>2, <2>3
<1> QED BY <1>1, <1>4

LEMMA WriteCommandStep == ASSUME IInv, WriteCommand PROVE IInv'
<1>1. /\ step = "command" /\ step' = "idle" /\ loc \in Runs
      /\ UNCHANGED <<call, loc, count, running, mem, moved, saved, err, got, hart>>
  BY CommandWritten
<1>2. call # NoCall /\ err = 0
  BY <1>1, Attached DEF RunSteps
<1>4. /\ dm' \in Modules /\ dm'.data = dm.data /\ dm'.prog = dm.prog /\ dm'.auto = dm.auto
      /\ dm'.active = dm.active /\ dm'.haltreq = dm.haltreq /\ dm'.sel = dm.sel
      /\ \/ dm'.cmderr = 0 /\ dm'.busy /\ dm'.cmd = CommandAt(loc)
         \/ dm'.cmderr = 2 /\ ~dm'.busy /\ loc = "probe128"
  BY CommandWritten
<1>5. PlaceOK' /\ CallOK'
  BY <1>1 DEF IInv, PlaceOK, CallOK, ChunkCall, LastWord, HaltSteps, ResumeSteps, RunSteps
<1>6. TypesOK'
  BY <1>1, <1>4 DEF IInv, TypesOK
<1>7. Holding'
  BY <1>1, <1>4, HoldingKept DEF RunSteps, Hart
<1>8. Commanding'
  <2>1. CommandAt(loc)' = CommandAt(loc)
    BY <1>1 DEF CommandAt
  <2> QED BY <1>1, <1>2, <1>4, <2>1 DEF IInv, Commanding, AutoOn, MayFail
<1>9. Borrowing'
  BY <1>1, <1>4 DEF IInv, Borrowing, S0Saved, S1Saved, Passing, Over, Answered, Kept,
                    ResumeSteps
<1>10. Resetting'
  BY <1>1, <1>4 DEF IInv, Resetting, Passing, Over, Started, ResumeSteps
<1> QED BY <1>5, <1>6, <1>7, <1>8, <1>9, <1>10 DEF IInv

LEMMA CommandAwaited ==
    ASSUME IInv, AwaitIdle
    PROVE  /\ step = "idle" /\ ~dm.busy /\ err' = dm.cmderr /\ loc \in Runs /\ call # NoCall
           /\ IF Taken(loc) THEN step' = "read" ELSE step' = "check"
           /\ UNCHANGED <<call, loc, count, running, mem, moved, saved, got, dm, hart>>
BY Attached DEF AwaitIdle, CommandOver, Go, Access, IInv, PlaceOK, RunSteps

LEMMA AwaitIdleStep == ASSUME IInv, AwaitIdle PROVE IInv'
<1>1. /\ step = "idle" /\ ~dm.busy /\ err' = dm.cmderr /\ loc \in Runs /\ call # NoCall
      /\ IF Taken(loc) THEN step' = "read" ELSE step' = "check"
      /\ UNCHANGED <<call, loc, count, running, mem, moved, saved, got, dm, hart>>
  BY CommandAwaited
<1>2. PlaceOK' /\ CallOK'
  BY <1>1 DEF IInv, PlaceOK, CallOK, ChunkCall, LastWord, HaltSteps, ResumeSteps, RunSteps,
              Taken
<1>3. TypesOK'
  BY <1>1 DEF IInv, TypesOK, Modules
<1>4. Holding'
  BY <1>1, HoldingKept DEF RunSteps, Hart
<1>5. Commanding'
  BY <1>1 DEF IInv, Commanding, AutoOn, MayFail
<1>6. Borrowing'
  BY <1>1 DEF IInv, Borrowing, S0Saved, S1Saved, Passing, Over, Answered, Kept, ResumeSteps,
              Taken
<1>7. Resetting'
  BY <1>1 DEF IInv, Resetting, Passing, Over, Started, ResumeSteps
<1> QED BY <1>2, <1>3, <1>4, <1>5, <1>6, <1>7 DEF IInv

LEMMA DataRead ==
    ASSUME IInv, ReadData
    PROVE  /\ step = "read" /\ step' = "check" /\ Taken(loc) /\ loc \in Runs /\ call # NoCall
           /\ saved' = (IF loc = "save_s0" THEN [saved EXCEPT !.s0 = dm.data]
                        ELSE IF loc = "save_s1" THEN [saved EXCEPT !.s1 = dm.data] ELSE saved)
           /\ got' = (IF loc = "word" THEN Append(got, dm.data) ELSE got)
           /\ UNCHANGED <<call, loc, count, running, mem, moved, err, hart, dm>>
<1>1. step = "read" /\ Taken(loc) /\ loc \in Runs /\ ~dm.auto
  BY DEF ReadData, IInv, PlaceOK, RunSteps, Commanding, AutoOn, Taken
<1>2. dm' = dm /\ call # NoCall
  BY <1>1, Attached DEF ReadData, Accessed, Touched, RunSteps
<1> QED BY <1>1, <1>2 DEF ReadData, Go, Access

LEMMA ReadDataStep == ASSUME IInv, ReadData PROVE IInv'
<1>1. /\ step = "read" /\ step' = "check" /\ Taken(loc) /\ loc \in Runs
      /\ saved' = (IF loc = "save_s0" THEN [saved EXCEPT !.s0 = dm.data]
                   ELSE IF loc = "save_s1" THEN [saved EXCEPT !.s1 = dm.data] ELSE saved)
      /\ UNCHANGED <<call, loc, count, running, mem, moved, err, hart>>
  BY DataRead
<1>2. dm' = dm /\ call # NoCall
  BY DataRead
<1>3. PlaceOK' /\ CallOK'
  BY <1>1 DEF IInv, PlaceOK, CallOK, ChunkCall, LastWord, HaltSteps, ResumeSteps, RunSteps
<1>4. TypesOK'
  BY <1>1, <1>2 DEF IInv, TypesOK, Modules
<1>5. Holding'
  BY <1>1, <1>2, HoldingKept DEF RunSteps, Hart
<1>6. Commanding'
  BY <1>1, <1>2 DEF IInv, Commanding, AutoOn, MayFail
<1>7. Borrowing'
  <2>1. loc \in {"save_s0", "save_s1"} => Kept(0)
    BY ZeroHart DEF IInv, Borrowing, Before
  <2>2. loc = "save_s0" => saved'.s0 = hart[0].own[1]
    BY <1>1, <2>1 DEF IInv, Borrowing, Answered, Kept, TypesOK
  <2>3. loc = "save_s1" => saved'.s1 = hart[0].own[2] /\ saved'.s0 = saved.s0
    BY <1>1, <2>1 DEF IInv, Borrowing, Answered, Kept, TypesOK
  <2> QED BY <1>1, <1>2, <2>2, <2>3 DEF IInv, Borrowing, S0Saved, S1Saved, Passing, Over,
                                        Answered, Kept, ResumeSteps, Taken, ChunkRuns
<1>8. Resetting'
  BY <1>1, <1>2 DEF IInv, Resetting, Passing, Over, Started, ResumeSteps, Taken
<1> QED BY <1>3, <1>4, <1>5, <1>6, <1>7, <1>8 DEF IInv

(* Where the host goes after a command or after autoexec has changed.      *)
Advance ==
    \/ loc = "probe128" /\ loc' = "probe64" /\ step' = "command"
    \/ loc = "probe64" /\ loc' = "resume" /\ step' = "resumereq"
    \/ loc = "save_s0" /\ loc' = "save_s1" /\ step' = "command"
    \/ loc = "save_s1" /\ loc' = "set_s0" /\ step' = (IF call.kind = "clear" THEN "first" ELSE "program")
    \/ loc = "set_s0" /\ call.kind = "read" /\ loc' = "word" /\ step' = "command"
    \/ loc = "set_s0" /\ call.kind # "read" /\ loc' = "set_s1"
       /\ step' = (IF call.kind = "clear" THEN "program" ELSE "first")
    \/ loc = "set_s1" /\ call.kind = "write" /\ call.len > 1 /\ loc' = "auto_on" /\ step' = "auto"
    \/ loc = "set_s1" /\ ~(call.kind = "write" /\ call.len > 1) /\ loc' = "restore_s0" /\ step' = "first"
    \/ loc = "auto_off" /\ loc' = "restore_s0" /\ step' = "first"
    \/ loc = "auto_on" /\ loc' = "word" /\ step' = "first"
    \/ loc = "word" /\ call.kind = "write" /\ loc' = "auto_off" /\ step' = "auto"
    \/ loc = "word" /\ call.kind # "write" /\ loc' = "restore_s0" /\ step' = "first"
    \/ loc = "restore_s0" /\ loc' = "restore_s1" /\ step' = "first"
    \/ loc = "restore_s1" /\ loc' = "resume" /\ step' = "resumereq"

LEMMA Advances == ASSUME IInv, loc \in (Runs \cup Autos) \ {"fence", "csr"}, Continue
                  PROVE  Advance /\ count' = count
<1>1. loc' = Following[loc] /\ step' = Start(loc') /\ count' = count
  BY DEF Continue, Enter
<1>2. /\ \A l \in {"probe64", "save_s1"} : Start(l) = "command"
      /\ Start("word") = (IF call.kind = "write" THEN "first" ELSE "command")
      /\ \A l \in {"restore_s0", "restore_s1"} : Start(l) = "first"
      /\ Start("set_s0") = IF call.kind \in {"read", "write"} THEN "program" ELSE "first"
      /\ Start("set_s1") = IF call.kind = "clear" THEN "program" ELSE "first"
      /\ \A l \in Autos : Start(l) = "auto"
      /\ Start("resume") = "resumereq"
  BY Programs DEF Start, RunStart, Given, Runs, ChunkRuns, Autos
<1>3. /\ loc = "auto_on" => call.kind = "write"
      /\ loc \in {"save_s1", "set_s0"} => call.kind \in ChunkKinds
  BY DEF IInv, CallOK, PlaceOK, Autos
<1> QED BY <1>1, <1>2, <1>3 DEF Following, Advance, Runs, ChunkRuns, Autos, ChunkKinds

LEMMA ErrorChecked ==
    ASSUME IInv, CheckError
    PROVE  /\ step = "check" /\ loc \in Runs /\ call # NoCall /\ err' = 0
           /\ UNCHANGED <<call, running, mem, moved, saved, got, hart>>
           /\ dm' \in Modules /\ dm'.cmderr = 0 /\ dm'.data = dm.data /\ dm'.prog = dm.prog
           /\ dm'.auto = dm.auto /\ dm'.active = dm.active /\ dm'.haltreq = dm.haltreq
           /\ dm'.sel = dm.sel /\ dm'.cmd = dm.cmd /\ ~dm'.busy
           /\ \/ loc' = loc /\ count' = count /\ loc = "fence" /\ step' = "resumereq"
              \/ loc' = loc /\ count' = count /\ loc = "csr" /\ step' = "result"
              \/ /\ loc = "word" /\ loc' = loc /\ count' = count + 1 /\ count < LastWord
                 /\ step' = IF call.kind = "write" THEN "first" ELSE "command"
              \/ /\ Advance /\ count' = count /\ loc \notin {"auto_on", "auto_off"}
                 /\ loc = "word" => ~(count < LastWord)
<1>1. /\ step = "check" /\ loc \in Runs /\ call # NoCall /\ err' = 0
      /\ UNCHANGED <<call, running, mem, moved, saved, got, hart>>
  BY Attached DEF CheckError, Access, IInv, PlaceOK, RunSteps
<1>2. /\ dm' \in Modules /\ dm'.cmderr = 0 /\ dm'.data = dm.data /\ dm'.prog = dm.prog
      /\ dm'.auto = dm.auto /\ dm'.active = dm.active /\ dm'.haltreq = dm.haltreq /\ dm'.sel = dm.sel
      /\ ~dm'.busy /\ dm'.cmd = dm.cmd
  <2>1. dm \in Modules /\ err = dm.cmderr /\ ~dm.busy
    BY <1>1, Attached DEF IInv, Commanding, RunSteps
  <2> QED BY <2>1 DEF CheckError, Die, Modules
<1>3. \/ loc = "fence" /\ step' = "resumereq" /\ loc' = loc /\ count' = count
      \/ loc = "csr" /\ step' = "result" /\ loc' = loc /\ count' = count
      \/ loc = "word" /\ count < LastWord /\ loc' = loc /\ step' = RunStart("word") /\ count' = count + 1
      \/ loc \notin {"fence", "csr"} /\ (loc = "word" => ~(count < LastWord)) /\ Continue
  BY DEF CheckError, Go, Enter, Start
<1>4. \/ loc' = loc /\ count' = count /\ loc = "fence" /\ step' = "resumereq"
      \/ loc' = loc /\ count' = count /\ loc = "csr" /\ step' = "result"
      \/ /\ loc = "word" /\ loc' = loc /\ count' = count + 1 /\ count < LastWord
         /\ step' = IF call.kind = "write" THEN "first" ELSE "command"
      \/ /\ Advance /\ count' = count /\ loc \notin {"auto_on", "auto_off"}
         /\ loc = "word" => ~(count < LastWord)
  BY <1>1, <1>3, Advances, Programs DEF RunStart, Given, Runs, ChunkRuns, Autos
<1> QED BY <1>1, <1>2, <1>4

LEMMA CheckErrorStep == ASSUME IInv, CheckError PROVE IInv'
<1>1. /\ step = "check" /\ loc \in Runs /\ call # NoCall /\ err' = 0
      /\ UNCHANGED <<call, running, mem, moved, saved, got, hart>>
  BY ErrorChecked
<1>2. /\ dm' \in Modules /\ dm'.cmderr = 0 /\ dm'.data = dm.data /\ dm'.prog = dm.prog
      /\ dm'.auto = dm.auto /\ dm'.active = dm.active /\ dm'.haltreq = dm.haltreq /\ dm'.sel = dm.sel
      /\ ~dm'.busy
  BY ErrorChecked
<1>4. \/ loc' = loc /\ count' = count /\ loc = "fence" /\ step' = "resumereq"
      \/ loc' = loc /\ count' = count /\ loc = "csr" /\ step' = "result"
      \/ /\ loc = "word" /\ loc' = loc /\ count' = count + 1 /\ count < LastWord
         /\ step' = IF call.kind = "write" THEN "first" ELSE "command"
      \/ Advance /\ count' = count /\ loc \notin {"auto_on", "auto_off"}
  BY ErrorChecked
<1>5. PlaceOK' /\ CallOK'
  BY <1>1, <1>4 DEF Advance, IInv, PlaceOK, CallOK, ChunkKinds, ChunkCall, LastWord, HaltSteps,
                    ResumeSteps, RunSteps, Runs, ChunkRuns, Autos, Locs, Given
<1>6. TypesOK'
  BY <1>1, <1>2 DEF IInv, TypesOK
<1>7. Holding'
  <2>1. step' \in RunSteps \cup {"auto", "resumereq"}
    BY <1>4 DEF Advance, RunSteps
  <2>2. Hart' = Hart
    BY <1>1, <1>4 DEF Hart, IInv, CallOK, ChunkRuns, Autos
  <2> QED BY <1>1, <1>2, <2>1, <2>2, HoldingKept DEF RunSteps
<1>8. Commanding'
  BY <1>1, <1>2, <1>4 DEF Advance, IInv, Commanding, AutoOn, MayFail
<1>9. Borrowing'
  <2>1. loc = "restore_s1" => \A h \in Harts : Kept(h)
    <3>1. hart[0].own = <<hart[0].own[1], hart[0].own[2]>>
      BY ZeroHart DEF IInv, TypesOK, HartStates
    <3>2. loc = "restore_s1" => Kept(0)
      BY <1>1, <3>1 DEF IInv, Borrowing, Over, Kept
    <3>3. loc = "restore_s1" => \A h \in Harts \ {0} : hart[h].st = "running"
      BY Borrowed DEF Held, OthersFree, Free, ChunkRuns
    <3> QED BY <3>2, <3>3 DEF IInv, Borrowing
  <2>2. \A h \in Harts : hart'[h].st = "running" \/ loc' \in Before => Kept(h)'
    <3>1. loc' \in Before => loc \in Before \/ loc = "restore_s1"
      BY <1>4 DEF Advance, Before
    <3> QED BY <1>1, <2>1, <3>1 DEF IInv, Borrowing, Kept
  <2> QED BY <1>1, <1>2, <1>4, <2>2 DEF Advance, IInv, Borrowing, S0Saved, S1Saved, Passing,
                                        Over, Answered, ResumeSteps, ChunkRuns, Autos
<1>10. Resetting'
  BY <1>1, <1>2, <1>4 DEF Advance, IInv, CallOK, Resetting, Passing, Over, Started, ResumeSteps
<1> QED BY <1>5, <1>6, <1>7, <1>8, <1>9, <1>10 DEF IInv

LEMMA ReadResultStep == ASSUME IInv, ReadResult PROVE IInv'
<1>1. /\ step = "result" /\ step' = "resumereq" /\ loc = "csr"
      /\ UNCHANGED <<call, loc, count, running, mem, moved, saved, got, err, hart>>
  BY DEF ReadResult, Go, Silent, Access, IInv, PlaceOK
<1>2. dm' = dm /\ call # NoCall
  <2>1. ~dm.auto
    BY <1>1 DEF IInv, Commanding, AutoOn
  <2> QED BY <1>1, <2>1, Attached DEF ReadResult, Accessed, Touched, RunSteps
<1>3. PlaceOK' /\ CallOK'
  BY <1>1 DEF IInv, PlaceOK, CallOK, ChunkCall, LastWord, HaltSteps, ResumeSteps, RunSteps
<1>4. TypesOK'
  BY <1>1, <1>2 DEF IInv, TypesOK, Modules
<1>5. Holding'
  BY <1>1, <1>2, HoldingKept DEF RunSteps, Hart
<1>6. Commanding'
  BY <1>1, <1>2 DEF IInv, Commanding, AutoOn, MayFail
<1>7. Borrowing'
  BY <1>1, <1>2 DEF IInv, Borrowing, S0Saved, S1Saved, Passing, Over, Answered, Kept,
                    ResumeSteps
<1>8. Resetting'
  BY <1>1, <1>2 DEF IInv, Resetting, Passing, Over, Started, ResumeSteps
<1> QED BY <1>3, <1>4, <1>5, <1>6, <1>7, <1>8 DEF IInv

LEMMA AutoSet ==
    ASSUME IInv, SetAuto
    PROVE  /\ step = "auto" /\ loc \in Autos /\ call # NoCall
           /\ UNCHANGED <<call, running, mem, moved, saved, got, err, hart, count>>
           /\ dm' \in Modules /\ dm'.cmderr = dm.cmderr /\ dm'.data = dm.data /\ dm'.prog = dm.prog
           /\ (dm'.auto <=> loc = "auto_on") /\ dm'.active = dm.active /\ dm'.haltreq = dm.haltreq
           /\ dm'.sel = dm.sel /\ dm'.busy = dm.busy /\ dm'.cmd = dm.cmd
           /\ \/ loc = "auto_on" /\ loc' = "word"
              \/ loc = "auto_off" /\ loc' = "restore_s0"
           /\ step' = "first"
<1>1. /\ step = "auto" /\ loc \in Autos /\ call # NoCall
      /\ UNCHANGED <<call, running, mem, moved, saved, got, err, hart>>
  BY Attached DEF SetAuto, Silent, Access, IInv, PlaceOK
<1>2. /\ dm' \in Modules /\ dm'.cmderr = dm.cmderr /\ dm'.data = dm.data /\ dm'.prog = dm.prog
      /\ (dm'.auto <=> loc = "auto_on") /\ dm'.active = dm.active /\ dm'.haltreq = dm.haltreq
      /\ dm'.sel = dm.sel /\ dm'.busy = dm.busy /\ dm'.cmd = dm.cmd
  <2>1. dm' = [dm EXCEPT !.auto = (loc = "auto_on")] /\ dm \in Modules
    BY <1>1, Attached DEF SetAuto, Accessed
  <2> QED BY <2>1 DEF Modules
<1>3. /\ count' = count
      /\ \/ loc = "auto_on" /\ loc' = "word"
         \/ loc = "auto_off" /\ loc' = "restore_s0"
      /\ step' = "first"
  BY <1>1, Advances DEF SetAuto, Advance, Autos, Runs, ChunkRuns
<1> QED BY <1>1, <1>2, <1>3

LEMMA SetAutoStep == ASSUME IInv, SetAuto PROVE IInv'
<1>1. /\ step = "auto" /\ loc \in Autos /\ call # NoCall
      /\ UNCHANGED <<call, running, mem, moved, saved, got, err, hart>>
  BY AutoSet
<1>2. /\ dm' \in Modules /\ dm'.cmderr = dm.cmderr /\ dm'.data = dm.data /\ dm'.prog = dm.prog
      /\ (dm'.auto <=> loc = "auto_on") /\ dm'.active = dm.active /\ dm'.haltreq = dm.haltreq
      /\ dm'.sel = dm.sel /\ dm'.busy = dm.busy
  BY AutoSet
<1>3. /\ count' = count
      /\ \/ loc = "auto_on" /\ loc' = "word"
         \/ loc = "auto_off" /\ loc' = "restore_s0"
      /\ step' = "first"
  BY AutoSet
<1>4. PlaceOK' /\ CallOK'
  BY <1>1, <1>3 DEF IInv, PlaceOK, CallOK, ChunkKinds, ChunkCall, LastWord, HaltSteps,
                    ResumeSteps, RunSteps, Runs, ChunkRuns, Autos, Locs, Given
<1>5. TypesOK'
  BY <1>1, <1>2 DEF IInv, TypesOK
<1>6. Holding'
  <2>1. Hart' = Hart
    BY <1>1, Borrowed DEF Hart, ChunkKinds
  <2> QED BY <1>1, <1>2, <1>3, <2>1, HoldingKept DEF RunSteps
<1>7. Commanding'
  BY <1>1, <1>2, <1>3 DEF IInv, CallOK, Commanding, AutoOn, MayFail
<1>8. Borrowing'
  BY <1>1, <1>2, <1>3 DEF IInv, Borrowing, S0Saved, S1Saved, Passing, Over, Answered, Before,
                          Kept, ResumeSteps, ChunkRuns, Autos
<1>9. Resetting'
  BY <1>1, <1>2, <1>3 DEF IInv, CallOK, Resetting, Passing, Over, Started, ResumeSteps, Autos
<1> QED BY <1>4, <1>5, <1>6, <1>7, <1>8, <1>9 DEF IInv

LEMMA EndStep == ASSUME IInv, End PROVE IInv'
<1>1. /\ step = "return" /\ loc = "return" /\ loc' = "none" /\ step' = "none" /\ count' = 0
      /\ call' = NoCall /\ running' = TRUE /\ saved' = [s0 |-> Zero, s1 |-> Zero]
      /\ UNCHANGED <<err, dm, hart, mem>>
  BY DEF End, At
<1>2. PlaceOK' /\ CallOK'
  BY <1>1 DEF PlaceOK, CallOK, HaltSteps, ResumeSteps, RunSteps, Locs
<1>3. TypesOK'
  BY <1>1 DEF IInv, TypesOK, Modules, Word, Zero
<1>4. Holding'
  BY <1>1 DEF IInv, Holding, AllFree, Free, RunSteps
<1>5. Commanding'
  BY <1>1 DEF IInv, Commanding, AutoOn
<1>6. Borrowing' /\ Resetting'
  BY <1>1 DEF IInv, Borrowing, Resetting, S0Saved, S1Saved, Passing, Over, Before, Kept,
              ChunkRuns, Autos
<1> QED BY <1>2, <1>3, <1>4, <1>5, <1>6 DEF IInv

LEMMA BeginStep == ASSUME IInv, NEW c \in Calls, Begin(c) PROVE IInv'
<1>1. /\ call = NoCall /\ call' = c /\ c # NoCall /\ loc = "none" /\ step = "none" /\ running
      /\ step' = "activate"
      /\ IF c.kind = "reset" THEN loc' = "fence" /\ count' = 0 ELSE loc' = "halt" /\ count' = 1
      /\ UNCHANGED <<saved, err, got, running, dm, hart, mem, moved>>
  BY CallAssumption DEF Begin, Enter, Start, IInv, CallOK, PlaceOK
<1>2. c \in Chunks \/ c.kind = "reset"
  BY DEF Calls
<1>3. PlaceOK' /\ CallOK'
  BY <1>1, <1>2, ChunkTypes, ZeroHart DEF PlaceOK, CallOK, ChunkKinds, ChunkCall, HaltSteps,
                                          ResumeSteps, RunSteps, Runs, Autos, Locs
<1>4. TypesOK'
  BY <1>1 DEF IInv, TypesOK
<1>5. Holding'
  BY <1>1 DEF IInv, Holding, AllFree, Free, RunSteps
<1>6. Commanding'
  BY <1>1 DEF IInv, Commanding, AutoOn
<1>7. Borrowing'
  <2>1. \A h \in Harts : Kept(h)
    BY <1>1 DEF IInv, Borrowing, Holding, AllFree, Free
  <2> QED BY <1>1, <2>1 DEF Borrowing, S0Saved, S1Saved, Passing, Over, Answered, ChunkRuns,
                            Autos, Kept
<1>8. Resetting'
  BY <1>1, ZeroHart DEF Resetting, Passing, Over, Started, ResumeSteps, Harts
<1> QED BY <1>3, <1>4, <1>5, <1>6, <1>7, <1>8 DEF IInv

(* The debug module performs a command.                                    *)
LEMMA EndedModule ==
    ASSUME NEW e \in {0, 3}, NEW out \in Word, dm \in Modules, dm.cmderr = 0, Ended(e, out)
    PROVE  /\ dm' \in Modules /\ dm'.cmderr = e /\ ~dm'.busy /\ dm'.data = out
           /\ dm'.prog = dm.prog /\ dm'.auto = dm.auto /\ dm'.active = dm.active
           /\ dm'.haltreq = dm.haltreq /\ dm'.sel = dm.sel /\ dm'.cmd = dm.cmd
<1>1. dm' = IF e = 0 THEN [dm EXCEPT !.busy = FALSE, !.data = out]
            ELSE [[dm EXCEPT !.busy = FALSE, !.data = out] EXCEPT !.cmderr = e]
  BY DEF Ended, Failed, Modules
<1>2. CASE e = 0
  BY <1>1, <1>2 DEF Modules
<1>3. CASE e = 3
  BY <1>1, <1>3 DEF Modules
<1> QED BY <1>2, <1>3

LEMMA TransferredHart ==
    ASSUME NEW g \in HartStates, NEW c \in Commands, dm.data \in Word
    PROVE  /\ Transferred(g, c) \in HartStates /\ Out(g, c) \in Word
           /\ Transferred(g, c).st = g.st /\ Transferred(g, c).resumereq = g.resumereq
           /\ Transferred(g, c).own = g.own /\ Transferred(g, c).pc = g.pc
           /\ Transferred(g, c).ack = g.ack
           /\ ~c.write \/ c.reg = "x0" => Transferred(g, c) = g
           /\ c.write /\ c.reg = "s0" => Transferred(g, c).s0 = dm.data /\ Transferred(g, c).s1 = g.s1
           /\ c.write /\ c.reg = "s1" => Transferred(g, c).s1 = dm.data /\ Transferred(g, c).s0 = g.s0
BY DEF Transferred, Out, HartStates, Commands

LEMMA SteppedHart ==
    ASSUME NEW h \in HartStates
    PROVE  /\ [h EXCEPT !.s0[1] = @ + 1] \in HartStates
           /\ \A w \in Word : [[h EXCEPT !.s0[1] = @ + 1] EXCEPT !.s1 = w] \in HartStates
<1>1. [h.s0 EXCEPT ![1] = @ + 1] \in Word
  BY DEF HartStates, Word
<1> QED BY <1>1 DEF HartStates

LEMMA PerformStep == ASSUME IInv, Perform PROVE IInv'
<1>1. /\ step = "idle" /\ dm.busy /\ dm.cmderr = 0 /\ err = 0 /\ dm \in Modules /\ call # NoCall
      /\ UNCHANGED <<call, loc, step, count, running, saved, err, got>>
  BY Attached DEF Perform, hostVars, place, IInv, Commanding, RunSteps
<1>2. /\ loc \in Runs /\ Held /\ dm.sel = Hart /\ Hart \in Harts /\ Hart' = Hart
  BY <1>1, HartType DEF IInv, PlaceOK, Holding, Held, Hart, RunSteps
<1>3. /\ dm.data \in Word /\ dm.cmd \in Commands /\ dm.sel \in Harts
      /\ hart \in [Harts -> HartStates] /\ mem \in [Addr -> Word] /\ hart[dm.sel] \in HartStates
  BY <1>1 DEF Modules, IInv, TypesOK
<1> DEFINE h   == Transferred(hart[dm.sel], dm.cmd)
           out == Out(hart[dm.sel], dm.cmd)
<1>4. /\ h \in HartStates /\ out \in Word /\ h.st = hart[dm.sel].st
      /\ h.resumereq = hart[dm.sel].resumereq /\ h.own = hart[dm.sel].own /\ h.pc = hart[dm.sel].pc
  BY <1>3, TransferredHart
<1>5. Out(h, dm.cmd) = out
  BY DEF Out, Transferred
<1> DEFINE Same == /\ dm'.prog = dm.prog /\ dm'.auto = dm.auto /\ dm'.active = dm.active
                   /\ dm'.haltreq = dm.haltreq /\ dm'.sel = dm.sel /\ dm'.cmd = dm.cmd
           Result(g) ==
             /\ hart' = [hart EXCEPT ![dm.sel] = g] /\ g \in HartStates
             /\ g.st = h.st /\ g.resumereq = h.resumereq /\ g.own = h.own
             /\ dm' \in Modules /\ Same /\ mem' \in [Addr -> Word]
             /\ dm'.busy => dm'.cmderr = 0 /\ dm.cmd.post /\ dm.prog = "clear"
             /\ \/ dm'.cmderr = 0
                \/ dm'.cmderr = 3 /\ dm.cmd.post /\ dm.prog \in Moving
             /\ ~dm.cmd.post => g = h /\ dm'.data = out
             /\ dm.cmd.post /\ dm.prog = "fence" => g = hart[dm.sel]
             /\ dm.cmd.post /\ dm.prog = "csr" => g.pc = out /\ g.s0 = h.s0 /\ g.s1 = h.s1
             /\ dm.cmd.post /\ dm.prog # "csr" => g.pc = h.pc
<1> HIDE DEF h, out
<1>6. \E g : Result(g)
  <2>1. CASE ~dm.cmd.post
    <3>1. Ended(0, out) /\ hart' = [hart EXCEPT ![dm.sel] = h] /\ mem' = mem
      BY <1>5, <2>1 DEF Perform, h, out
    <3>2. Result(h)
      BY <1>1, <1>3, <1>4, <2>1, <3>1, EndedModule
    <3> QED BY <3>2
  <2>2. CASE dm.cmd.post
    <3>1. RunProgram(h, out)
      BY <1>5, <2>2 DEF Perform, h, out
    <3>2. CASE dm.prog \in Moving /\ ~Mapped(h.s0)
      <4>1. Ended(3, out) /\ hart' = [hart EXCEPT ![dm.sel] = h] /\ mem' = mem
        BY <3>1, <3>2 DEF RunProgram, Moving
      <4>2. Result(h)
        BY <1>1, <1>3, <1>4, <2>2, <3>2, <4>1, EndedModule DEF Moving
      <4> QED BY <4>2
    <3>3. CASE dm.prog \in Moving /\ Mapped(h.s0)
      <4> DEFINE stepped == [h EXCEPT !.s0[1] = @ + 1]
      <4>1. stepped \in HartStates /\ \A w \in Word : [stepped EXCEPT !.s1 = w] \in HartStates
        BY <1>4, SteppedHart
      <4>2. stepped.st = h.st /\ stepped.resumereq = h.resumereq /\ stepped.own = h.own /\ stepped.pc = h.pc
        BY <1>4 DEF HartStates
      <4>3. h.s0[1] \in Addr /\ mem[h.s0[1]] \in Word
        BY <1>3, <3>3 DEF Mapped
      <4>4. CASE dm.prog = "load"
        <5> DEFINE g == [stepped EXCEPT !.s1 = mem[h.s0[1]]]
        <5>1. Ended(0, out) /\ hart' = [hart EXCEPT ![dm.sel] = g] /\ mem' = mem
          BY <3>1, <3>3, <4>4 DEF RunProgram
        <5>2. g \in HartStates /\ g.st = h.st /\ g.resumereq = h.resumereq /\ g.own = h.own /\ g.pc = h.pc
          BY <4>1, <4>2, <4>3 DEF HartStates
        <5> HIDE DEF g
        <5>3. Result(g)
          BY <1>1, <1>3, <1>4, <2>2, <4>4, <5>1, <5>2, EndedModule
        <5> QED BY <5>3
      <4>5. CASE dm.prog \in {"store", "clear"}
        <5>1. /\ hart' = [hart EXCEPT ![dm.sel] = stepped]
              /\ mem' = [mem EXCEPT ![h.s0[1]] = IF dm.prog = "store" THEN h.s1 ELSE Zero]
              /\ Ended(0, out) \/ (dm' = dm /\ dm.prog = "clear")
          BY <3>1, <3>3, <4>5 DEF RunProgram
        <5>2. mem' \in [Addr -> Word]
          BY <1>3, <1>4, <4>3, <5>1 DEF HartStates, Zero, Word
        <5> HIDE DEF stepped
        <5>3. Result(stepped)
          BY <1>1, <1>3, <1>4, <2>2, <4>1, <4>2, <4>5, <5>1, <5>2, EndedModule
        <5> QED BY <5>3
      <4> QED BY <3>3, <4>4, <4>5 DEF Moving
    <3>4. CASE dm.prog = "csr"
      <4> DEFINE g == [h EXCEPT !.pc = out]
      <4>1. Ended(0, h.pc) /\ hart' = [hart EXCEPT ![dm.sel] = g] /\ mem' = mem
        BY <3>1, <3>4 DEF RunProgram, Moving
      <4>2. /\ g \in HartStates /\ g.st = h.st /\ g.resumereq = h.resumereq /\ g.own = h.own /\ g.pc = out
            /\ g.s0 = h.s0 /\ g.s1 = h.s1 /\ h.pc \in Word
        BY <1>4 DEF HartStates
      <4> HIDE DEF g
      <4>3. Result(g)
        BY <1>1, <1>3, <1>4, <2>2, <3>4, <4>1, <4>2, EndedModule
      <4> QED BY <4>3
    <3>5. CASE dm.prog = "fence"
      <4>1. Ended(0, out) /\ hart' = hart /\ mem' = mem
        BY <3>1, <3>5 DEF RunProgram, Moving
      <4>2. hart' = [hart EXCEPT ![dm.sel] = hart[dm.sel]]
        BY <1>3, <4>1
      <4>3. Result(hart[dm.sel])
        BY <1>1, <1>3, <1>4, <2>2, <3>5, <4>1, <4>2, EndedModule
      <4> QED BY <4>3
    <3> QED BY <3>1, <3>2, <3>3, <3>4, <3>5 DEF RunProgram, Moving
  <2> QED BY <2>1, <2>2
<1>7. PICK g : Result(g)
  BY <1>6
<1>8. hart'[Hart] = g /\ \A k \in Harts \ {Hart} : hart'[k] = hart[k]
  BY <1>2, <1>3, <1>7
<1>9. /\ loc \in {"probe128", "probe64", "save_s0", "save_s1"} =>
            ~dm.cmd.post /\ h = hart[Hart]
      /\ loc = "save_s0" => out = hart[Hart].s0
      /\ loc = "save_s1" => out = hart[Hart].s1
      /\ loc = "restore_s0" => ~dm.cmd.post /\ h.s0 = dm.data /\ out = dm.data
      /\ loc = "restore_s1" => ~dm.cmd.post /\ h.s1 = dm.data /\ h.s0 = hart[Hart].s0 /\ out = dm.data
      /\ loc \in {"fence", "csr"} => dm.cmd.post /\ h = hart[Hart] /\ out = dm.data /\ dm.prog = loc
  <2>1. loc # "word" => dm.cmd = CommandAt(loc)
    BY <1>1 DEF IInv, Commanding
  <2>2. loc \in {"fence", "csr"} => dm.prog = loc
    BY <1>1 DEF IInv, Resetting
  <2>3. loc \in {"save_s0", "save_s1", "probe128", "probe64", "restore_s0", "restore_s1", "fence", "csr"} =>
          /\ dm.cmd.post <=> loc \in {"fence", "csr"}
          /\ dm.cmd.write <=> loc \in {"restore_s0", "restore_s1", "fence", "csr"}
          /\ loc \in {"save_s0", "restore_s0"} => dm.cmd.reg = "s0"
          /\ loc \in {"save_s1", "restore_s1"} => dm.cmd.reg = "s1"
          /\ loc \in {"fence", "csr"} => dm.cmd.reg = "x0"
    BY <2>1, CommandFields
  <2> QED BY <1>2, <1>3, <2>2, <2>3, TransferredHart DEF h, out, Out
<1>10. PlaceOK' /\ CallOK'
  BY <1>1 DEF IInv, PlaceOK, CallOK, ChunkCall, LastWord, Given, Taken
<1>11. TypesOK'
  BY <1>1, <1>3, <1>7 DEF IInv, TypesOK
<1>12. Holding'
  <2>1. \A k \in Harts : hart'[k].st = hart[k].st /\ hart'[k].resumereq = hart[k].resumereq
    BY <1>2, <1>4, <1>7, <1>8
  <2> QED BY <1>1, <1>2, <1>7, <2>1, HoldingKept DEF RunSteps
<1>13. Commanding'
  <2>1. dm.cmd.post /\ dm.prog \in Moving => loc \in MayFail
    <3>1. loc # "word" => dm.cmd = CommandAt(loc)
      BY <1>1 DEF IInv, Commanding
    <3> QED BY <1>2, <1>9, <3>1, CommandFields DEF MayFail, Moving
  <2>2. CommandAt(loc)' = CommandAt(loc)
    BY <1>1 DEF CommandAt
  <2> QED BY <1>1, <1>7, <2>1, <2>2 DEF IInv, Commanding, AutoOn
<1>14. Borrowing'
  <2>1. loc \in ChunkRuns \cup Autos => Hart = 0
    BY Borrowed
  <2>2. \A k \in Harts : hart'[k].st = "running" \/ loc \in Before => Kept(k)'
    <3>1. loc \in Before => Kept(Hart)'
      <4>1. loc \in Before => g.s0 = hart[Hart].s0 /\ g.s1 = hart[Hart].s1
        BY <1>2, <1>7, <1>9 DEF Before, Runs, ChunkRuns
      <4> QED BY <1>2, <1>4, <1>7, <1>8, <4>1 DEF IInv, Borrowing, Kept
    <3>2. hart'[Hart].st # "running"
      BY <1>2, <1>4, <1>7, <1>8 DEF Held
    <3> QED BY <1>2, <1>8, <3>1, <3>2 DEF IInv, Borrowing, Kept
  <2>3. hart'[Hart].own = hart[Hart].own
    BY <1>2, <1>4, <1>7, <1>8
  <2>4. loc \in {"save_s0", "save_s1", "restore_s0", "restore_s1"} =>
            ~dm'.busy /\ g = h /\ dm'.data = out
    BY <1>7, <1>9
  <2>5. loc \in {"restore_s0", "restore_s1"} => dm.data = IF loc = "restore_s0" THEN saved.s0 ELSE saved.s1
    BY <1>1 DEF IInv, Borrowing, Passing
  <2>6. loc = "save_s0" => dm'.data = hart'[0].s0
    BY <1>8, <1>9, <2>1, <2>4 DEF ChunkRuns
  <2>7. loc = "save_s1" => dm'.data = hart'[0].s1
    BY <1>8, <1>9, <2>1, <2>4 DEF ChunkRuns
  <2>8. loc = "restore_s0" => hart'[0].s0 = hart'[0].own[1]
    BY <1>8, <1>9, <2>1, <2>3, <2>4, <2>5 DEF IInv, Borrowing, S0Saved, ChunkRuns
  <2>9. loc = "restore_s1" => hart'[0].s1 = hart'[0].own[2] /\ hart'[0].s0 = hart'[0].own[1]
    BY <1>8, <1>9, <2>1, <2>3, <2>4, <2>5 DEF IInv, Borrowing, S1Saved, ChunkRuns
  <2>10. loc \in ChunkRuns \cup Autos => hart'[0].own = hart[0].own
    BY <2>1, <2>3
  <2> QED BY <1>1, <2>2, <2>4, <2>6, <2>7, <2>8, <2>9, <2>10
          DEF IInv, Borrowing, S0Saved, S1Saved, Passing, Over, Answered, ResumeSteps, ChunkRuns
<1>15. Resetting'
  <2>1. loc = "csr" => dm.data = Entry
    BY <1>1 DEF IInv, Resetting, Passing
  <2>2. loc \in {"fence", "csr"} => ~dm'.busy
    BY <1>7, <1>9
  <2>3. call.kind = "reset" => \A k \in Harts : Started(k)' => hart'[k].pc = Entry
    <3>1. call.kind = "reset" => Hart = count /\ loc \in {"fence", "csr"} /\ count \in Nat
      BY <1>1, <1>2 DEF Hart, IInv, CallOK, Runs, ChunkRuns
    <3>2. loc = "fence" => g.pc = hart[Hart].pc
      BY <1>2, <1>4, <1>7, <1>9
    <3>3. loc = "csr" => g.pc = Entry
      BY <1>7, <1>9, <2>1
    <3>4. call.kind = "reset" => \A k \in Harts : Started(k)' => Started(k) \/ (loc = "csr" /\ k = Hart)
      BY <1>1, <3>1 DEF Started, Over
    <3>5. call.kind = "reset" => \A k \in Harts : Started(k) => hart[k].pc = Entry
      BY <1>1 DEF IInv, Resetting
    <3> QED BY <1>8, <3>1, <3>2, <3>3, <3>4, <3>5
  <2> QED BY <1>1, <1>7, <1>9, <2>2, <2>3 DEF IInv, Resetting, Passing
<1> QED BY <1>10, <1>11, <1>12, <1>13, <1>14, <1>15 DEF IInv

-----------------------------------------------------------------------------
LEMMA StutterStep ==
    ASSUME IInv, UNCHANGED <<call, loc, step, count, running, dm, hart, mem, moved, saved, err, got>>
    PROVE  IInv'
<1>1. PlaceOK' /\ CallOK'
  BY DEF IInv, PlaceOK, CallOK, Given, Taken, ChunkCall, LastWord
<1>2. TypesOK'
  BY DEF IInv, TypesOK
<1>3. Holding'
  BY DEF IInv, Holding, AllFree, Held, OthersFree, Free, Hart
<1>4. Commanding'
  BY DEF IInv, Commanding, AutoOn, CommandAt
<1>5. Borrowing'
  BY DEF IInv, Borrowing, Kept, Answered, S0Saved, S1Saved, Passing, Over
<1>6. Resetting'
  BY DEF IInv, Resetting, Started, Passing, Over
<1> QED BY <1>1, <1>2, <1>3, <1>4, <1>5, <1>6 DEF IInv

LEMMA Inductive == IInv /\ [Next]_vars => IInv'
<1> SUFFICES ASSUME IInv, [Next]_vars PROVE IInv'
  OBVIOUS
<1>1. ASSUME NEW c \in Calls, Begin(c) PROVE IInv'
  BY <1>1, BeginStep
<1>2. CASE HostStep
  BY <1>2, HaltStep, ResumeStep, WriteProgramStep, WriteDataStep, WriteCommandStep,
     AwaitIdleStep,
     ReadDataStep, CheckErrorStep, ReadResultStep, SetAutoStep, EndStep DEF HostStep
<1>3. CASE Perform
  BY <1>3, PerformStep
<1>4. ASSUME NEW h \in Harts, HaltHart(h) \/ ResumeHart(h) \/ ProgramStep(h) PROVE IInv'
  BY <1>4, HaltHartStep, ResumeHartStep, ProgramStepStep
<1>5. CASE UNCHANGED vars
  BY <1>5, StutterStep DEF vars, hostVars, place
<1> QED BY <1>1, <1>2, <1>3, <1>4, <1>5 DEF Next

LEMMA Invariant == Spec => []IInv
BY Initially, Inductive, PTL DEF Spec

(* Everything has its type: no command, register or word of memory is ever *)
(* something else than a word.                                             *)
THEOREM TypeCorrect == Spec => []TypesOK
<1>1. IInv => TypesOK
  BY DEF IInv
<1> QED BY <1>1, Invariant, PTL

(* The host never goes on before a command is through, and never gives one *)
(* for a hart that runs: the errors busy and not halted do not happen.     *)
THEOREM CommandsInTime == Spec => []NeverTooEarly
<1>1. IInv => NeverTooEarly
  BY DEF IInv, Commanding, NeverTooEarly
<1> QED BY <1>1, Invariant, PTL

(* A call leaves every hart running and the debug module without command,  *)
(* error, autoexec or halt request, whatever failed in it.                 *)
THEOREM QuietCorrect == Spec => []QuietBetweenCalls
<1>1. IInv => QuietBetweenCalls
  BY DEF IInv, PlaceOK, CallOK, Holding, AllFree, Free, Commanding, AutoOn, QuietBetweenCalls
<1> QED BY <1>1, Invariant, PTL

(* A program that runs finds s0 and s1 as it left them.                    *)
THEOREM RegistersCorrect == Spec => []RegistersKept
<1>1. IInv => RegistersKept
  BY DEF IInv, Borrowing, Kept, RegistersKept
<1> QED BY <1>1, Invariant, PTL

(* A reset sends every hart to the entry point before it returns.          *)
THEOREM ResetCorrect == Spec => ResetStarts
<1> DEFINE Done == call # NoCall /\ call' = NoCall /\ call.kind = "reset"
                      => \A h \in Harts : hart[h].pc = Entry /\ hart[h].st = "running"
<1>1. IInv /\ [Next]_vars => Done
  <2> SUFFICES ASSUME IInv, [Next]_vars, call # NoCall, call' = NoCall, call.kind = "reset"
               PROVE  \A h \in Harts : hart[h].pc = Entry /\ hart[h].st = "running"
    OBVIOUS
  <2>1. End
    BY DEF Next, Begin, HostStep, Halt, Resume, WriteProgram, WriteData, WriteHalf,
           WriteCommand, AwaitIdle,
           ReadData, CheckError, ReadResult, SetAuto, Silent, Access, Perform, HaltHart, ResumeHart,
           ProgramStep, hostVars, vars
  <2>2. loc = "return" /\ step = "return" /\ count = num_harts - 1
    BY <2>1 DEF End, At, IInv, Resetting
  <2>3. \A h \in Harts : Started(h)
    BY <2>2, HartAssumption DEF Started, Harts
  <2> QED BY <2>2, <2>3 DEF IInv, Resetting, Holding, AllFree, Free
<1>2. IInv /\ [Next]_vars => [Done]_vars
  BY <1>1
<1> QED BY <1>2, Invariant, PTL DEF Spec, ResetStarts

-----------------------------------------------------------------------------
(* The memory.  The programs point at the next word, and have moved the    *)
(* words before it; of a chunk that runs off the memory, up to there.      *)
Pointing   == hart[0].s0 = <<call.addr + Len(moved), 0>>
Covered(n) == /\ Len(moved) <= n
              /\ Len(moved) < n => call.addr + Len(moved) \notin Addr

(* How many words the host has had moved at its place.                     *)
Expected ==
    IF loc \in {"halt", "save_s0", "save_s1"} THEN 0
    ELSE IF loc = "set_s0" THEN IF call.kind = "read" /\ Over("set_s0") THEN 1 ELSE 0
    ELSE IF loc = "set_s1" /\ ~Over("set_s1") THEN 0
    ELSE IF loc \in {"set_s1", "auto_on"} /\ call.kind = "write" THEN 1
    ELSE IF loc = "word" /\ ~Over("word") /\ step # "read" THEN count
    ELSE IF loc = "word" /\ count < call.len THEN count + 1
    ELSE call.len

Looping == call.kind = "clear" /\ loc = "set_s1" /\ step = "idle" /\ dm.busy
Counting == IF Looping THEN Len(moved) < call.len ELSE Covered(Expected)

(* From its setting to its restoring s0 points at the next word.           *)
Aiming == Over("set_s0") \/ loc \in {"set_s1", "auto_on", "word"} => Pointing

(* What the host hands over with a command is what the program needs.      *)
Limit == IF call.kind = "write" THEN call.data[0] ELSE <<call.addr + call.len, 0>>
Handing ==
    /\ Passing("set_s0", <<call.addr, 0>>)
    /\ Passing("set_s1", Limit)
    /\ call.kind = "write" /\ loc = "word" =>
          /\ step = "second" => dm.data[2] = call.data[count][2]
          /\ step = "idle" /\ dm.busy => dm.data = call.data[count]

(* The program and the command in the debug module are those of the chunk. *)
Programmed ==
    /\ step = "program" => \/ loc = "set_s0" /\ call.kind # "clear"
                           \/ loc = "set_s1" /\ call.kind = "clear"
    /\ loc = "word" => call.kind # "clear" /\ (step = "command" => call.kind = "read")
    /\ call.kind = "read" /\ (loc = "word" \/ (loc = "set_s0" /\ step # "program")) => dm.prog = "load"
    /\ call.kind = "write" /\ (loc \in {"set_s1", "auto_on", "word"} \/ (loc = "set_s0" /\ step # "program"))
          => dm.prog = "store"
    /\ call.kind = "clear" /\ loc = "set_s1" /\ step # "program" => dm.prog = "clear"
    /\ call.kind = "write" /\ (loc \in {"auto_on", "word"} \/ Over("set_s1")) => dm.cmd = CommandAt("set_s1")
    /\ call.kind = "read" /\ loc = "word" /\ dm.busy => dm.cmd = CommandAt("word")

(* What a read has got so far.                                             *)
Reading ==
    /\ Len(got) = IF loc = "word" THEN IF step = "check" THEN count ELSE count - 1
                  ELSE IF loc \in {"restore_s0", "restore_s1", "resume", "return"} THEN call.len ELSE 0
    /\ loc = "word" \/ Over("set_s0") => (Len(moved) > 0 => hart[0].s1 = moved[Len(moved)])
    /\ Serving => /\ \A i \in 1 .. Len(got) : got[i] = moved[i]
                  /\ loc = "word" /\ Answered => dm.data = moved[count]

(* A chunk under way: the words of the memory, the borrowed registers, the *)
(* debug module and the host agree on how far it has come.                 *)
Moved == IsChunk => /\ call \in Chunks /\ Counting /\ Aiming /\ Handing /\ Programmed
                    /\ call.kind = "read" => Reading
Transferring ==
    /\ moved \in Seq(Word) /\ got \in Seq(Word)
    /\ call = NoCall => moved = <<>> /\ got = <<>>
    /\ Moved

(* Where a chunk is under way.                                             *)
LEMMA InChunk ==
    ASSUME IInv, Transferring, IsChunk
    PROVE  /\ call # NoCall /\ call \in Chunks /\ call.kind \in ChunkKinds
           /\ call.addr \in Nat /\ call.len \in Nat \ {0} /\ count \in Nat
           /\ loc \in ChunkRuns \cup Autos \cup {"halt", "resume", "return"}
           /\ Len(moved) \in Nat /\ Len(got) \in Nat
<1>1. call \in Chunks
  BY DEF Transferring, Moved
<1>2. call # NoCall /\ call.kind \in ChunkKinds /\ call.addr \in Nat /\ call.len \in Nat \ {0}
  BY <1>1, ChunkData DEF IsChunk
<1> QED BY <1>1, <1>2 DEF IInv, CallOK, Transferring

(* Outside the programs nothing but the counts is of interest.             *)
LEMMA OuterStep ==
    ASSUME IInv, Transferring, UNCHANGED <<call, moved, got>>,
           IsChunk => step' # "program",
           IsChunk => \/ loc = "halt" /\ loc' \in {"halt", "save_s0"}
                      \/ loc \in {"resume", "return"} /\ loc' \in {"resume", "return"}
    PROVE  Transferring'
<1>1. ASSUME IsChunk PROVE Moved'
  <2>1. call.kind \in ChunkKinds /\ call.len \in Nat \ {0} /\ call \in Chunks
    BY <1>1, InChunk
  <2>2. Counting'
    BY <1>1, <2>1 DEF Transferring, Moved, Counting, Looping, Covered, Expected, Over
  <2>3. Aiming' /\ Handing' /\ Programmed'
    BY <1>1 DEF Aiming, Handing, Programmed, Passing, Over
  <2>4. call.kind = "read" => Reading'
    BY <1>1 DEF Transferring, Moved, Reading, Over, Serving, IsChunk, InMemory
  <2> QED BY <2>1, <2>2, <2>3, <2>4 DEF Moved
<1> QED BY <1>1 DEF Transferring, Moved, IsChunk

(* What programs on the harts do is not of interest inside.                *)
LEMMA FrameStep ==
    ASSUME IInv, Transferring, UNCHANGED <<call, loc, step, count, dm, moved, got>>,
           loc \in ChunkRuns \cup Autos => hart'[0].s0 = hart[0].s0 /\ hart'[0].s1 = hart[0].s1
    PROVE  Transferring'
<1>1. ASSUME IsChunk PROVE Moved'
  <2>1. Counting' /\ Handing'
    BY <1>1 DEF Transferring, Moved, Counting, Looping, Covered, Expected, Over, Handing,
                Passing, Limit
  <2>2. Aiming'
    BY <1>1 DEF Transferring, Moved, Aiming, Pointing, Over, ChunkRuns, Autos
  <2>3. Programmed'
    BY <1>1 DEF Transferring, Moved, Programmed, Over, CommandAt
  <2>4. call.kind = "read" => Reading'
    BY <1>1 DEF Transferring, Moved, Reading, Over, Answered, Serving, IsChunk, InMemory,
                ChunkRuns
  <2> QED BY <1>1, <2>1, <2>2, <2>3, <2>4 DEF Transferring, Moved
<1> QED BY <1>1 DEF Transferring, Moved, IsChunk

(* What the harts do by themselves.                                        *)
LEMMA HartsMove ==
    ASSUME IInv, Transferring, NEW h \in Harts, HaltHart(h) \/ ResumeHart(h) \/ ProgramStep(h)
    PROVE  Transferring'
<1>1. UNCHANGED <<call, loc, step, count, dm, moved, got>>
  BY DEF HaltHart, ResumeHart, ProgramStep, hostVars, place
<1>2. CASE HaltHart(h) \/ ResumeHart(h)
  <2>1. hart \in [Harts -> HartStates] /\ 0 \in Harts
    BY ZeroHart DEF IInv, TypesOK
  <2>2. ASSUME HaltHart(h) PROVE hart'[0].s0 = hart[0].s0 /\ hart'[0].s1 = hart[0].s1
    <3>1. hart' = [hart EXCEPT ![h].st = "halted"]
      BY <2>2 DEF HaltHart
    <3> QED BY <2>1, <3>1 DEF HartStates
  <2>3. ASSUME ResumeHart(h) PROVE hart'[0].s0 = hart[0].s0 /\ hart'[0].s1 = hart[0].s1
    <3>1. hart' = [hart EXCEPT ![h].st = "running", ![h].resumereq = FALSE, ![h].ack = TRUE]
      BY <2>3 DEF ResumeHart
    <3> QED BY <2>1, <3>1 DEF HartStates
  <2>4. hart'[0].s0 = hart[0].s0 /\ hart'[0].s1 = hart[0].s1
    BY <1>2, <2>2, <2>3
  <2> QED BY <1>1, <2>4, FrameStep
<1>3. CASE ProgramStep(h)
  <2>1. loc \in ChunkRuns \cup Autos => hart'[0] = hart[0]
    <3>1. loc \in ChunkRuns \cup Autos => h # 0
      BY <1>3, Borrowed DEF ProgramStep, Held
    <3> QED BY <1>3, <3>1, ZeroHart DEF ProgramStep, IInv, TypesOK
  <2> QED BY <1>1, <2>1, FrameStep
<1> QED BY <1>2, <1>3

(* The host's steps, one after the other.                                  *)
LEMMA HaltMoves == ASSUME IInv, Transferring, Halt PROVE Transferring'
<1>1. UNCHANGED <<call, moved, got>> /\ call # NoCall
  BY DEF Halt, Silent, Access, IInv, PlaceOK, CallOK
<1>2. step \in HaltSteps /\ loc \in {"halt", "fence", "csr"}
  BY DEF Halt, IInv, PlaceOK, HaltSteps
<1>3. IsChunk => loc = "halt"
  BY <1>2 DEF IInv, CallOK, IsChunk, ChunkKinds, ChunkRuns, Autos
<1>4. ASSUME IsChunk PROVE loc' \in {"halt", "save_s0"} /\ step' # "program"
  <2>1. CASE step # "unhalt"
    BY <1>3, <1>4, <2>1 DEF Halt, Go
  <2>2. CASE step = "unhalt"
    <3>1. loc' = Following["halt"] /\ call.kind # "start"
      BY <1>3, <1>4, <2>2 DEF Halt, Continue, Enter, IsChunk
    <3>2. loc' = "save_s0" /\ step' = Start("save_s0")
      BY <1>3, <1>4, <2>2, <3>1 DEF Following, Halt, Continue, Enter
    <3> QED BY <3>2, Programs DEF Start, RunStart, Given, Runs, ChunkRuns
  <2> QED BY <2>1, <2>2
<1> QED BY <1>1, <1>3, <1>4, OuterStep

LEMMA ResumeMoves == ASSUME IInv, Transferring, Resume PROVE Transferring'
<1>1. UNCHANGED <<call, moved, got>> /\ call # NoCall
  BY DEF Resume, Silent, Access, IInv, PlaceOK, CallOK
<1>2. step \in ResumeSteps /\ loc \in {"resume", "fence", "csr"}
  BY DEF Resume, IInv, PlaceOK, ResumeSteps
<1>3. IsChunk => loc = "resume"
  BY <1>2 DEF IInv, CallOK, IsChunk, ChunkKinds, ChunkRuns, Autos
<1>4. ASSUME IsChunk PROVE loc' \in {"resume", "return"} /\ step' # "program"
  <2>1. CASE step # "off"
    BY <1>3, <1>4, <2>1 DEF Resume, Go
  <2>2. CASE step = "off"
    <3>1. loc' = Following["resume"]
      BY <1>3, <1>4, <2>2 DEF Resume, Resumed, Continue, Enter
    <3>2. loc' = "return" /\ step' = Start("return")
      BY <1>3, <1>4, <2>2, <3>1 DEF Following, Resume, Resumed, Continue, Enter
    <3> QED BY <3>2 DEF Start
  <2> QED BY <2>1, <2>2
<1> QED BY <1>1, <1>3, <1>4, OuterStep

LEMMA BeginMoves == ASSUME IInv, Transferring, NEW c \in Calls, Begin(c) PROVE Transferring'
<1>1. call = NoCall /\ call' = c /\ UNCHANGED <<dm, hart, got, moved>> /\ c # NoCall
  BY CallAssumption DEF Begin
<1>2. moved = <<>> /\ got = <<>>
  BY <1>1 DEF Transferring
<1>3. ASSUME IsChunk' PROVE Moved'
  <2>1. c \in Chunks
    BY <1>1, <1>3 DEF Calls, IsChunk
  <2>2. loc' = "halt" /\ step' = "activate" /\ c.len \in Nat \ {0}
    BY <1>1, <1>3, <2>1, ChunkData DEF Begin, Enter, Start, ChunkKinds
  <2>3. Len(moved) = 0 /\ Len(got) = 0
    BY <1>2
  <2> QED BY <1>1, <1>2, <2>1, <2>2, <2>3
          DEF Moved, Counting, Looping, Covered, Expected, Over, Aiming, Handing, Passing, Programmed, Reading
<1> QED BY <1>1, <1>2, <1>3 DEF Transferring, Moved

LEMMA EndMoves == ASSUME IInv, Transferring, End PROVE Transferring'
BY DEF End, Transferring, Moved, IsChunk

LEMMA ReadResultMoves == ASSUME IInv, Transferring, ReadResult PROVE Transferring'
<1>1. UNCHANGED <<call, moved, got>> /\ loc = "csr"
  BY DEF ReadResult, Silent, Access, IInv, PlaceOK
<1>2. ~IsChunk
  BY <1>1 DEF IInv, CallOK, IsChunk, ChunkKinds, ChunkRuns, Autos
<1> QED BY <1>1, <1>2 DEF Transferring, Moved, IsChunk

LEMMA WriteProgramMoves == ASSUME IInv, Transferring, WriteProgram PROVE Transferring'
<1>1. /\ step = "program" /\ step' \in {"first", "command"} /\ loc \in Runs
      /\ UNCHANGED <<call, loc, count, mem, moved, got, hart>>
      /\ dm'.prog = Program(loc) /\ dm'.data = dm.data /\ dm'.busy = dm.busy /\ dm'.cmd = dm.cmd
  BY ProgramWritten
<1>2. ASSUME IsChunk PROVE Moved'
  <2>1. Counting'
    BY <1>1, <1>2 DEF Transferring, Moved, Counting, Looping, Covered, Expected, Over,
                      ResumeSteps
  <2>2. Aiming'
    BY <1>1, <1>2 DEF Transferring, Moved, Aiming, Pointing, Over, ResumeSteps
  <2>3. Handing'
    BY <1>1, <1>2, ProgramWritten DEF Transferring, Moved, Handing, Passing, Limit, Given
  <2>4. Programmed'
    <3>1. loc \in {"set_s0", "set_s1"} => 
           Program(loc) = IF call.kind = "read" THEN "load"
                          ELSE IF call.kind = "write" THEN "store" ELSE "clear"
      BY <1>1, <1>2, Programs, InChunk DEF Transferring, Moved, Programmed, ChunkKinds
    <3> QED BY <1>1, <1>2, <3>1 DEF Transferring, Moved, Programmed, Over, CommandAt,
                                    ResumeSteps
  <2>5. call.kind = "read" => Reading'
    BY <1>1, <1>2 DEF Transferring, Moved, Reading, Over, Answered, Serving, IsChunk, InMemory,
                      ResumeSteps
  <2> QED BY <1>1, <1>2, <2>1, <2>2, <2>3, <2>4, <2>5 DEF Transferring, Moved
<1> QED BY <1>1, <1>2 DEF Transferring, Moved, IsChunk

LEMMA AwaitIdleMoves == ASSUME IInv, Transferring, AwaitIdle PROVE Transferring'
<1>1. /\ step = "idle" /\ ~dm.busy /\ step' \in {"read", "check"} /\ (step' = "read" <=> Taken(loc))
      /\ UNCHANGED <<call, loc, count, mem, moved, got, dm, hart>>
  BY CommandAwaited
<1>2. ASSUME IsChunk PROVE Moved'
  <2>1. Counting'
    BY <1>1, <1>2 DEF Transferring, Moved, Counting, Looping, Covered, Expected, Over, Taken
  <2>2. Aiming' /\ Handing'
    BY <1>1, <1>2 DEF Transferring, Moved, Aiming, Pointing, Handing, Passing, Over
  <2>3. Programmed'
    BY <1>1, <1>2 DEF Transferring, Moved, Programmed, Over, CommandAt
  <2>4. call.kind = "read" => Reading'
    BY <1>1, <1>2 DEF Transferring, Moved, Reading, Over, Answered, Serving, IsChunk, InMemory,
                      Taken
  <2> QED BY <1>1, <1>2, <2>1, <2>2, <2>3, <2>4 DEF Transferring, Moved
<1> QED BY <1>1, <1>2 DEF Transferring, Moved, IsChunk

LEMMA SetAutoMoves == ASSUME IInv, Transferring, SetAuto PROVE Transferring'
<1>1. /\ step = "auto" /\ loc \in Autos /\ step' = "first"
      /\ UNCHANGED <<call, count, mem, moved, got, hart>>
      /\ \/ loc = "auto_on" /\ loc' = "word"
         \/ loc = "auto_off" /\ loc' = "restore_s0"
      /\ dm'.prog = dm.prog /\ dm'.busy = dm.busy /\ dm'.cmd = dm.cmd
  BY AutoSet
<1>2. ASSUME IsChunk PROVE Moved'
  <2>1. call.kind = "write" /\ (loc = "auto_on" => count = 1)
    BY <1>1, <1>2 DEF IInv, CallOK, IsChunk
  <2>2. Counting'
    <3>1. Expected' = Expected
      BY <1>1, <2>1 DEF Expected, Over, ResumeSteps
    <3> QED BY <1>1, <1>2, <2>1, <3>1 DEF Transferring, Moved, Counting, Looping, Covered
  <2>3. Aiming' /\ Handing'
    BY <1>1, <1>2 DEF Transferring, Moved, Aiming, Pointing, Handing, Passing, Over, ResumeSteps
  <2>4. Programmed'
    BY <1>1, <1>2, <2>1 DEF Transferring, Moved, Programmed, Over, CommandAt, ResumeSteps
  <2> QED BY <1>1, <1>2, <2>1, <2>2, <2>3, <2>4 DEF Transferring, Moved
<1> QED BY <1>1, <1>2 DEF Transferring, Moved, IsChunk

LEMMA MovingCommands ==
    /\ CommandAt("set_s1").write /\ CommandAt("set_s1").post
    /\ CommandAt("set_s1").reg = "s1" /\ CommandAt("set_s1").size = 64
    /\ ~CommandAt("word").write /\ (CommandAt("word").post <=> count < call.len)
    /\ CommandAt("word").reg = "s1"
    /\ CommandAt("set_s0").write /\ CommandAt("set_s0").reg = "s0"
    /\ (CommandAt("set_s0").post <=> call.kind = "read")
BY DEF CommandAt, Command

LEMMA WriteDataMoves == ASSUME IInv, Transferring, WriteData PROVE Transferring'
<1>1. /\ step \in {"first", "second"} /\ Given(loc) /\ loc \in Runs
      /\ UNCHANGED <<call, loc, count, mem, moved, got, hart>>
      /\ dm'.prog = dm.prog
      /\ step' = IF step = "first" THEN "second" ELSE IF loc = "word" THEN "idle" ELSE "command"
  BY DataWritten
<1>2. ASSUME IsChunk PROVE Moved'
  <2>1. step = "second" /\ loc = "word" => call.kind = "write" /\ dm'.busy
    <3>1. loc = "word" => call.kind = "write" /\ dm.cmd = CommandAt("set_s1")
      BY <1>1, <1>2 DEF Given, Transferring, Moved, Programmed
    <3>2. loc = "word" => dm.cmd.size = 64
      BY <3>1, MovingCommands
    <3> QED BY <3>1, <3>2, DataWritten
  <2>2. dm'.cmd = dm.cmd
    BY <2>1, DataWritten
  <2>3. Counting'
    BY <1>1, <1>2, <2>1 DEF Transferring, Moved, Counting, Looping, Covered, Expected, Over,
                            ResumeSteps
  <2>4. Aiming'
    BY <1>1, <1>2, <2>1 DEF Transferring, Moved, Aiming, Pointing, Over, ResumeSteps
  <2>5. Handing'
    <3>1. ASSUME loc \in {"set_s0", "set_s1", "word"}
          PROVE  /\ loc # "word" /\ step' = "second" => dm'.data[1] = Value[1]
                 /\ loc # "word" /\ step' = "command" /\ dm.data[1] = Value[1] => dm'.data = Value
                 /\ loc = "word" /\ step' = "second" => dm'.data[2] = Value[2]
                 /\ loc = "word" /\ step' = "idle" /\ dm.data[2] = Value[2] => dm'.data = Value
      BY <1>1, <3>1, DataWritten
    <3>2. Value = IF loc = "set_s0" THEN <<call.addr, 0>> ELSE IF loc = "set_s1" THEN Limit
                  ELSE IF loc = "word" THEN call.data[count] ELSE Value
      BY <1>1, <1>2, Values, InChunk DEF Limit, ChunkKinds, IInv, CallOK
    <3>3. loc = "word" => call.kind = "write"
      BY <1>1 DEF Given
    <3>4. Limit' = Limit
      BY <1>1 DEF Limit
    <3>5. Handing
      BY <1>2 DEF Transferring, Moved
    <3> QED BY <1>1, <3>1, <3>2, <3>3, <3>4, <3>5 DEF Handing, Passing
  <2>6. Programmed'
    <3>1. /\ CommandAt("set_s1")' = CommandAt("set_s1") /\ CommandAt("word")' = CommandAt("word")
      BY <1>1 DEF CommandAt
    <3> QED BY <1>1, <1>2, <2>1, <2>2, <3>1 DEF Transferring, Moved, Programmed, Over,
                                                ResumeSteps,
                                                Given
  <2>7. call.kind = "read" => Reading'
    BY <1>1, <1>2, <2>1 DEF Transferring, Moved, Reading, Over, Answered, Serving, IsChunk,
                            InMemory,
                            ResumeSteps, Given
  <2> QED BY <1>1, <1>2, <2>3, <2>4, <2>5, <2>6, <2>7 DEF Transferring, Moved
<1> QED BY <1>1, <1>2 DEF Transferring, Moved, IsChunk

LEMMA WriteCommandMoves == ASSUME IInv, Transferring, WriteCommand PROVE Transferring'
<1>1. /\ step = "command" /\ step' = "idle" /\ loc \in Runs
      /\ UNCHANGED <<call, loc, count, mem, moved, got, hart>>
      /\ dm'.prog = dm.prog /\ dm'.data = dm.data
  BY CommandWritten
<1>2. ASSUME IsChunk PROVE Moved'
  <2>1. dm'.busy /\ dm'.cmd = CommandAt(loc)
    BY <1>2, CommandWritten, InChunk DEF ChunkRuns, Autos
  <2>2. Counting'
    <3>1. CASE loc = "set_s1" /\ call.kind = "clear"
      <4>1. Covered(0) /\ Len(moved) \in Nat /\ call.len \in Nat \ {0}
        BY <1>1, <1>2, <3>1, InChunk DEF Transferring, Moved, Counting, Looping, Expected, Over,
                                         ResumeSteps
      <4> QED BY <1>1, <2>1, <3>1, <4>1 DEF Counting, Looping, Covered
    <3>2. CASE ~(loc = "set_s1" /\ call.kind = "clear")
      <4>1. Expected' = Expected
        BY <1>1, <2>1 DEF Expected, Over, ResumeSteps
      <4> QED BY <1>1, <1>2, <3>2, <4>1 DEF Transferring, Moved, Counting, Looping, Covered
    <3> QED BY <3>1, <3>2
  <2>3. Aiming'
    BY <1>1, <1>2, <2>1 DEF Transferring, Moved, Aiming, Pointing, Over, ResumeSteps
  <2>4. Handing'
    <3>1. ~(loc = "word" /\ call.kind = "write")
      BY <1>1, <1>2 DEF Transferring, Moved, Programmed
    <3> QED BY <1>1, <1>2, <2>1, <3>1 DEF Transferring, Moved, Handing, Passing, Limit
  <2>5. Programmed'
    <3>1. /\ CommandAt("set_s1")' = CommandAt("set_s1") /\ CommandAt("word")' = CommandAt("word")
      BY <1>1 DEF CommandAt
    <3> QED BY <1>1, <1>2, <2>1, <3>1 DEF Transferring, Moved, Programmed, Over, ResumeSteps,
                                          Runs, ChunkRuns
  <2>6. call.kind = "read" => Reading'
    BY <1>1, <1>2, <2>1 DEF Transferring, Moved, Reading, Over, Answered, Serving, IsChunk,
                            InMemory,
                            ResumeSteps
  <2> QED BY <1>1, <1>2, <2>2, <2>3, <2>4, <2>5, <2>6 DEF Transferring, Moved
<1> QED BY <1>1, <1>2 DEF Transferring, Moved, IsChunk

LEMMA ReadDataMoves == ASSUME IInv, Transferring, ReadData PROVE Transferring'
<1>1. /\ step = "read" /\ step' = "check" /\ Taken(loc)
      /\ got' = (IF loc = "word" THEN Append(got, dm.data) ELSE got)
      /\ UNCHANGED <<call, loc, count, mem, moved, hart, dm>>
  BY DataRead
<1>2. got' \in Seq(Word)
  <2>1. dm.data \in Word
    BY DEF IInv, TypesOK, Modules
  <2> QED BY <1>1, <2>1 DEF Transferring
<1>3. ASSUME IsChunk PROVE Moved'
  <2>1. Counting'
    BY <1>1, <1>3 DEF Transferring, Moved, Counting, Looping, Covered, Expected, Over, Taken
  <2>2. Aiming' /\ Handing'
    BY <1>1, <1>3 DEF Transferring, Moved, Aiming, Pointing, Handing, Passing, Over, Taken
  <2>3. Programmed'
    BY <1>1, <1>3 DEF Transferring, Moved, Programmed, Over, CommandAt, Taken
  <2>4. ASSUME call.kind = "read" PROVE Reading'
    <3>1. Reading /\ count \in Nat /\ (count >= 1 \/ loc # "word")
      BY <1>3, <2>4, InChunk DEF Transferring, Moved, IInv, CallOK
    <3>2. CASE loc = "word"
      <4>1. Len(got) = count - 1 /\ got \in Seq(Word) /\ dm.data \in Word /\ count \in Nat \ {0}
        BY <1>1, <1>3, <2>4, <3>1, <3>2 DEF Reading, IInv, TypesOK, Modules, Transferring
      <4>2. /\ Len(got') = count /\ got'[count] = dm.data
            /\ \A i \in 1 .. count - 1 : got'[i] = got[i]
        BY <1>1, <3>2, <4>1
      <4>3. Serving => /\ dm.data = moved[count] /\ \A i \in 1 .. count - 1 : got[i] = moved[i]
        BY <1>1, <3>1, <3>2, <4>1 DEF Reading, Answered
      <4>4. Serving => \A i \in 1 .. count : got'[i] = moved[i]
        BY <4>1, <4>2, <4>3
      <4> QED BY <1>1, <3>1, <3>2, <4>2, <4>4 DEF Reading, Over, Answered, Serving, IsChunk,
                                                  InMemory
    <3>3. CASE loc # "word"
      BY <1>1, <1>3, <2>4, <3>3 DEF Transferring, Moved, Reading, Over, Answered, Serving,
                                    IsChunk,
                                    InMemory, Taken
    <3> QED BY <3>2, <3>3
  <2> QED BY <1>1, <1>3, <2>1, <2>2, <2>3, <2>4 DEF Transferring, Moved
<1> QED BY <1>1, <1>2, <1>3 DEF Transferring, Moved, IsChunk, IInv, CallOK, PlaceOK, Taken

LEMMA CheckErrorMoves == ASSUME IInv, Transferring, CheckError PROVE Transferring'
<1>1. /\ step = "check" /\ UNCHANGED <<call, mem, moved, got, hart>>
      /\ dm'.data = dm.data /\ dm'.prog = dm.prog /\ dm'.cmd = dm.cmd /\ ~dm'.busy
  BY ErrorChecked
<1>2. ASSUME IsChunk PROVE Moved'
  <2>1. /\ call.kind \in ChunkKinds /\ count \in Nat /\ call.len \in Nat \ {0}
        /\ loc = "word" => count \in 1 .. LastWord
        /\ loc \in ChunkRuns
        /\ loc = "set_s1" => call.kind # "read"
        /\ loc \in {"save_s0", "save_s1", "set_s0", "set_s1", "auto_on"} => count = 1
    BY <1>2, InChunk, ErrorChecked DEF IInv, CallOK, Runs, ChunkRuns, Autos
  <2>2. \/ /\ loc = "word" /\ loc' = loc /\ count' = count + 1 /\ count < LastWord
           /\ step' = IF call.kind = "write" THEN "first" ELSE "command"
        \/ /\ Advance /\ count' = count /\ loc \notin {"auto_on", "auto_off"}
           /\ loc = "word" => ~(count < LastWord)
    BY <2>1, ErrorChecked DEF IInv, CallOK, ChunkKinds, ChunkRuns, Autos
  <2>3. Counting'
    <3>1. Expected' = Expected
      BY <1>1, <2>1, <2>2 DEF Expected, Over, Advance, LastWord, ResumeSteps, ChunkKinds
    <3>2. ~Looping' /\ ~Looping
      BY <1>1 DEF Looping
    <3> QED BY <1>1, <1>2, <3>1, <3>2 DEF Transferring, Moved, Counting, Covered
  <2>4. Aiming'
    BY <1>1, <1>2, <2>1, <2>2 DEF Transferring, Moved, Aiming, Pointing, Over, Advance,
                                  ResumeSteps
  <2>5. Handing'
    BY <1>1, <1>2, <2>2 DEF Transferring, Moved, Handing, Passing, Advance
  <2>6. Programmed'
    <3>1. /\ CommandAt("set_s1")' = CommandAt("set_s1")
      BY <1>1 DEF CommandAt
    <3> QED BY <1>1, <1>2, <2>1, <2>2, <3>1 DEF Transferring, Moved, Programmed, Over, Advance,
                                                ResumeSteps,
                                                ChunkKinds
  <2>7. call.kind = "read" => Reading'
    BY <1>1, <1>2, <2>1, <2>2 DEF Transferring, Moved, Reading, Over, Answered, Serving,
                                  IsChunk, InMemory,
                            Advance, ChunkRuns, ResumeSteps, LastWord
  <2> QED BY <1>1, <1>2, <2>3, <2>4, <2>5, <2>6, <2>7 DEF Transferring, Moved
<1> QED BY <1>1, <1>2 DEF Transferring, Moved, IsChunk

(* The debug module performs a command of a chunk on hart 0.               *)
NextWord == call.addr + Len(moved)
(* Hart 0 and the data registers after the transfer of the command.        *)
Borrower  == Transferred(hart[0], dm.cmd)
Answer == Out(hart[0], dm.cmd)

LEMMA ChunkCommand ==
    ASSUME IInv, Transferring, IsChunk, dm.busy
    PROVE  /\ step = "idle" /\ loc \in ChunkRuns /\ dm.sel = 0 /\ dm.cmderr = 0
           /\ loc \in {"save_s0", "save_s1", "restore_s0", "restore_s1"} => ~dm.cmd.post
           /\ loc = "set_s0" => /\ dm.cmd.write /\ dm.cmd.reg = "s0" /\ dm.data = <<call.addr, 0>>
                                /\ (dm.cmd.post <=> call.kind = "read")
           /\ loc = "set_s1" => /\ dm.cmd.write /\ dm.cmd.reg = "s1" /\ dm.cmd.post
                                /\ dm.data = Limit /\ call.kind # "read"
           /\ loc = "word" /\ call.kind = "write" =>
                 dm.cmd.write /\ dm.cmd.reg = "s1" /\ dm.cmd.post /\ dm.data = call.data[count]
           /\ loc = "word" /\ call.kind # "write" =>
                 /\ call.kind = "read"
                 /\ ~dm.cmd.write /\ dm.cmd.reg = "s1" /\ (dm.cmd.post <=> count < call.len)
           /\ dm.cmd.post => dm.prog = IF call.kind = "read" THEN "load"
                                       ELSE IF call.kind = "write" THEN "store" ELSE "clear"
<1>1. step = "idle" /\ dm.cmderr = 0 /\ (loc # "word" => dm.cmd = CommandAt(loc))
  BY DEF IInv, Commanding
<1>2. loc \in ChunkRuns /\ dm.sel = 0
  <2>1. loc \in ChunkRuns
    BY <1>1, InChunk DEF IInv, PlaceOK, RunSteps, Runs, Autos, ChunkRuns
  <2> QED BY <2>1, Borrowed DEF Held
<1>3. Aiming /\ Handing /\ Programmed /\ call.kind \in ChunkKinds
  BY InChunk DEF Transferring, Moved
<1>4. loc \in {"save_s0", "save_s1", "restore_s0", "restore_s1"} => ~dm.cmd.post
  BY <1>1, CommandFields
<1>5. loc = "set_s0" => /\ dm.cmd.write /\ dm.cmd.reg = "s0" /\ dm.data = <<call.addr, 0>>
                        /\ (dm.cmd.post <=> call.kind = "read")
  BY <1>1, <1>3, MovingCommands DEF Handing, Passing
<1>6. loc = "set_s1" => /\ dm.cmd.write /\ dm.cmd.reg = "s1" /\ dm.cmd.post
                        /\ dm.data = Limit /\ call.kind # "read"
  BY <1>1, <1>3, MovingCommands DEF Handing, Passing, IInv, CallOK, IsChunk
<1>7. loc = "word" /\ call.kind = "write" =>
                 dm.cmd.write /\ dm.cmd.reg = "s1" /\ dm.cmd.post /\ dm.data = call.data[count]
  BY <1>1, <1>3, MovingCommands DEF Handing, Programmed
<1>8. loc = "word" /\ call.kind # "write" =>
                 /\ call.kind = "read"
                 /\ ~dm.cmd.write /\ dm.cmd.reg = "s1" /\ (dm.cmd.post <=> count < call.len)
  BY <1>1, <1>3, MovingCommands DEF Programmed, ChunkKinds
<1>9. dm.cmd.post => dm.prog = IF call.kind = "read" THEN "load"
                               ELSE IF call.kind = "write" THEN "store" ELSE "clear"
  BY <1>1, <1>2, <1>3, <1>4, <1>5, <1>6 DEF Programmed, ChunkKinds, ChunkRuns
<1> QED BY <1>1, <1>2, <1>4, <1>5, <1>6, <1>7, <1>8, <1>9

LEMMA BorrowerHart ==
    ASSUME IInv, Transferring, IsChunk, dm.busy
    PROVE  /\ Borrower \in HartStates /\ Answer \in Word
           /\ dm.cmd.post \/ loc = "set_s0" => Borrower.s0 = <<NextWord, 0>>
           /\ dm.cmd.post /\ call.kind = "write" => Borrower.s1 = call.data[Expected]
           /\ dm.cmd.post /\ call.kind = "clear" => Borrower.s1 = <<call.addr + call.len, 0>>
           /\ call.kind = "read" /\ loc = "word" => Borrower = hart[0] /\ Answer = hart[0].s1
           /\ dm.cmd.post /\ NextWord \in Addr =>
                 /\ Len(moved) < call.len
                 /\ ~Looping => Len(moved) = Expected
<1>1. hart[0] \in HartStates /\ dm.cmd \in Commands /\ dm.data \in Word
  BY ZeroHart DEF IInv, TypesOK, Modules
<1>2. /\ call.addr \in Nat /\ call.len \in Nat \ {0} /\ Len(moved) \in Nat /\ count \in Nat
      /\ call.kind \in ChunkKinds /\ Aiming /\ Counting
      /\ loc = "word" => count \in 1 .. LastWord
  BY InChunk DEF Transferring, Moved, IInv, CallOK
<1>3. Borrower \in HartStates /\ Answer \in Word
  BY <1>1, TransferredHart DEF Borrower, Answer
<1>4. loc = "set_s0" => Borrower.s0 = <<call.addr, 0>> /\ Len(moved) = 0 /\ Expected = 0
  <2>1. loc = "set_s0" => Expected = 0 /\ ~Looping
    BY ChunkCommand DEF Expected, Over, Looping, ResumeSteps
  <2>2. loc = "set_s0" => Len(moved) = 0
    BY <1>2, <2>1 DEF Counting, Covered
  <2> QED BY <1>1, <2>1, <2>2, ChunkCommand, TransferredHart DEF Borrower
<1>5. loc \in {"set_s1", "word"} => Borrower.s0 = hart[0].s0 /\ hart[0].s0 = <<NextWord, 0>>
  BY <1>1, <1>2, ChunkCommand, TransferredHart DEF Borrower, Aiming, Pointing, NextWord
<1>6. dm.cmd.post => loc \in {"set_s0", "set_s1", "word"}
  BY ChunkCommand DEF ChunkRuns
<1>7. Expected = IF loc = "set_s1" THEN 0 ELSE IF loc = "word" THEN count ELSE Expected
  BY ChunkCommand DEF Expected, Over, ResumeSteps
<1>8. dm.cmd.post /\ call.kind = "write" => Borrower.s1 = call.data[Expected]
  BY <1>1, <1>6, <1>7, ChunkCommand, TransferredHart DEF Borrower, Limit
<1>9. dm.cmd.post /\ call.kind = "clear" => Borrower.s1 = <<call.addr + call.len, 0>>
  BY <1>1, <1>6, ChunkCommand, TransferredHart DEF Borrower, Limit
<1>10. call.kind = "read" /\ loc = "word" => Borrower = hart[0] /\ Answer = hart[0].s1
  BY <1>1, ChunkCommand, TransferredHart DEF Borrower, Answer, Out
<1>11. ASSUME dm.cmd.post, NextWord \in Addr, ~Looping
       PROVE  Len(moved) = Expected /\ Len(moved) < call.len
  <2>1. Expected \in Nat /\ Expected < call.len
    BY <1>2, <1>4, <1>6, <1>7, <1>11, ChunkCommand DEF LastWord
  <2> QED BY <1>2, <1>11, <2>1 DEF Counting, Covered, NextWord
<1>12. Looping => Len(moved) < call.len
  BY <1>2 DEF Counting
<1> QED BY <1>2, <1>3, <1>4, <1>5, <1>6, <1>8, <1>9, <1>10, <1>11, <1>12 DEF NextWord

(* What it does: nothing to the memory, or the next word.                  *)
Idles == /\ UNCHANGED <<mem, moved>> /\ ~dm'.busy /\ dm'.data = Answer /\ hart'[0] = Borrower
         /\ dm.cmd.post => NextWord \notin Addr

MovesWord(w) ==
    /\ dm.cmd.post /\ NextWord \in Addr /\ Len(moved) < call.len
    /\ moved' = Append(moved, w) /\ w \in Word
    /\ hart'[0].s0 = <<NextWord + 1, 0>>
    /\ ~Looping => Len(moved) = Expected
    /\ dm'.busy => dm' = dm
    /\ dm'.busy <=> Looping /\ Len(moved) + 1 # call.len
    /\ ~dm'.busy => dm'.data = Answer
    /\ call.kind = "read" => w = mem[NextWord] /\ mem' = mem /\ hart'[0].s1 = w
    /\ call.kind # "read" => w = call.data[Len(moved)] /\ mem' = [mem EXCEPT ![NextWord] = w]

LEMMA ChunkPerformed ==
    ASSUME IInv, Transferring, Perform, IsChunk
    PROVE  /\ UNCHANGED <<call, loc, step, count, got>> /\ dm.busy
           /\ dm'.prog = dm.prog /\ dm'.cmd = dm.cmd
           /\ Idles \/ \E w : MovesWord(w)
<1>1. UNCHANGED <<call, loc, step, count, got>> /\ dm.busy
  BY DEF Perform, hostVars, place
<1>2. /\ dm \in Modules /\ dm.cmderr = 0 /\ dm.sel = 0 /\ 0 \in Harts
      /\ hart \in [Harts -> HartStates] /\ mem \in [Addr -> Word]
      /\ Borrower \in HartStates /\ Answer \in Word
  BY <1>1, ChunkCommand, BorrowerHart, ZeroHart DEF IInv, TypesOK
<1>3. Out(Borrower, dm.cmd) = Answer
  BY DEF Borrower, Answer, Out, Transferred
<1>4. IF dm.cmd.post THEN RunProgram(Borrower, Answer)
      ELSE Ended(0, Answer) /\ hart' = [hart EXCEPT ![0] = Borrower] /\ UNCHANGED <<mem, moved>>
  BY <1>2, <1>3 DEF Perform, Borrower
<1>5. CASE ~dm.cmd.post
  <2>1. Ended(0, Answer) /\ hart' = [hart EXCEPT ![0] = Borrower] /\ UNCHANGED <<mem, moved>>
    BY <1>4, <1>5
  <2>2. hart'[0] = Borrower
    BY <1>2, <2>1
  <2>3. dm'.prog = dm.prog /\ dm'.cmd = dm.cmd /\ ~dm'.busy /\ dm'.data = Answer
    BY <1>2, <2>1, EndedModule
  <2> QED BY <1>1, <1>5, <2>1, <2>2, <2>3 DEF Idles
<1>6. CASE dm.cmd.post
  <2>1. /\ Borrower.s0 = <<NextWord, 0>> /\ RunProgram(Borrower, Answer) /\ dm.prog \in Moving
        /\ dm.prog = IF call.kind = "read" THEN "load" ELSE IF call.kind = "write" THEN "store" ELSE "clear"
    BY <1>1, <1>4, <1>6, ChunkCommand, BorrowerHart DEF Moving
  <2>2. Mapped(Borrower.s0) <=> NextWord \in Addr
    BY <2>1 DEF Mapped
  <2>3. CASE NextWord \notin Addr
    <3>1. Ended(3, Answer) /\ hart' = [hart EXCEPT ![0] = Borrower] /\ UNCHANGED <<mem, moved>>
      BY <1>2, <2>1, <2>2, <2>3 DEF RunProgram, Moving
    <3>2. hart'[0] = Borrower
      BY <1>2, <3>1
    <3>3. dm'.prog = dm.prog /\ dm'.cmd = dm.cmd /\ ~dm'.busy /\ dm'.data = Answer
      BY <1>2, <3>1, EndedModule
    <3> QED BY <1>1, <2>3, <3>1, <3>2, <3>3 DEF Idles
  <2>4. CASE NextWord \in Addr
    <3> DEFINE stepped == [Borrower EXCEPT !.s0[1] = @ + 1]
    <3>1. /\ stepped.s0 = <<NextWord + 1, 0>> /\ stepped \in HartStates /\ stepped.s1 = Borrower.s1
          /\ [stepped EXCEPT !.s1 = mem[NextWord]].s0 = <<NextWord + 1, 0>>
          /\ [stepped EXCEPT !.s1 = mem[NextWord]].s1 = mem[NextWord]
      <4>1. stepped.s0 = [Borrower.s0 EXCEPT ![1] = @ + 1] /\ stepped.s1 = Borrower.s1
        BY <1>2 DEF HartStates
      <4>2. stepped \in HartStates
        BY <1>2, SteppedHart
      <4>3. [Borrower.s0 EXCEPT ![1] = @ + 1] = <<NextWord + 1, 0>>
        BY <2>1
      <4> QED BY <4>1, <4>2, <4>3 DEF HartStates
    <3>2. /\ Len(moved) < call.len /\ (~Looping => Len(moved) = Expected)
          /\ call.addr \in Nat /\ call.len \in Nat \ {0} /\ Len(moved) \in Nat
          /\ call \in Chunks /\ call.kind \in ChunkKinds
      BY <1>1, <1>6, <2>4, BorrowerHart, InChunk
    <3>3. mem[NextWord] \in Word /\ Zero \in Word
      BY <1>2, <2>4 DEF Word, Zero
    <3>4. Looping <=> call.kind = "clear"
      BY <1>1, <1>6, <3>2, ChunkCommand DEF Looping, ChunkRuns
    <3>5. CASE call.kind = "read"
      <4>1. /\ Ended(0, Answer) /\ hart' = [hart EXCEPT ![0] = [stepped EXCEPT !.s1 = mem[NextWord]]]
            /\ moved' = Append(moved, mem[NextWord]) /\ mem' = mem
        BY <1>2, <2>1, <2>2, <2>4, <3>5 DEF RunProgram, Moving
      <4>2. hart'[0] = [stepped EXCEPT !.s1 = mem[NextWord]]
        BY <1>2, <4>1
      <4> HIDE DEF stepped
      <4>3. dm'.prog = dm.prog /\ dm'.cmd = dm.cmd /\ ~dm'.busy /\ dm'.data = Answer
        BY <1>2, <4>1, EndedModule
      <4>4. MovesWord(mem[NextWord])
        BY <1>6, <2>4, <3>1, <3>2, <3>3, <3>4, <3>5, <4>1, <4>2, <4>3 DEF MovesWord
      <4> QED BY <1>1, <4>3, <4>4
    <3>6. CASE call.kind # "read"
      <4> DEFINE w == call.data[Len(moved)]
      <4>1. w = (IF dm.prog = "store" THEN Borrower.s1 ELSE Zero) /\ w \in Word
        <5>1. CASE call.kind = "write"
          <6>1. w = Borrower.s1
            BY <1>1, <1>6, <3>2, <3>4, <5>1, BorrowerHart
          <6> QED BY <1>2, <2>1, <5>1, <6>1 DEF HartStates
        <5>2. CASE call.kind = "clear"
          <6>1. w = Zero
            <7>1. \A k \in 0 .. call.len - 1 : call.data[k] = Zero
              BY <3>2, <5>2, ChunkData
            <7>2. Len(moved) \in 0 .. call.len - 1
              BY <3>2
            <7> QED BY <7>1, <7>2
          <6> QED BY <2>1, <3>3, <5>2, <6>1
        <5> QED BY <3>2, <3>6, <5>1, <5>2 DEF ChunkKinds
      <4>2. /\ hart' = [hart EXCEPT ![0] = stepped]
            /\ mem' = [mem EXCEPT ![NextWord] = w] /\ moved' = Append(moved, mem'[NextWord])
            /\ IF dm.prog = "clear" /\ stepped.s0 # Borrower.s1 THEN UNCHANGED dm ELSE Ended(0, Answer)
        BY <1>2, <2>1, <2>2, <2>4, <3>6, <4>1 DEF RunProgram, Moving
      <4>3. hart'[0] = stepped /\ moved' = Append(moved, w)
        BY <1>2, <2>4, <4>2
      <4>4. dm.prog = "clear" /\ stepped.s0 # Borrower.s1 <=> Looping /\ Len(moved) + 1 # call.len
        <5> HIDE DEF stepped
        <5>1. CASE call.kind = "write"
          BY <2>1, <3>4, <5>1
        <5>2. CASE call.kind = "clear"
          <6>1. Borrower.s1 = <<call.addr + call.len, 0>>
            BY <1>1, <1>6, <5>2, BorrowerHart
          <6>2. stepped.s0 = <<call.addr + Len(moved) + 1, 0>>
            BY <3>1 DEF NextWord
          <6>3. stepped.s0 # Borrower.s1 <=> Len(moved) + 1 # call.len
            BY <3>2, <6>1, <6>2
          <6> QED BY <2>1, <3>4, <5>2, <6>3
        <5> QED BY <3>2, <3>6, <5>1, <5>2 DEF ChunkKinds
      <4> HIDE DEF stepped, w
      <4>5. /\ dm'.prog = dm.prog /\ dm'.cmd = dm.cmd
            /\ \/ Looping /\ Len(moved) + 1 # call.len /\ dm' = dm
               \/ ~(Looping /\ Len(moved) + 1 # call.len) /\ ~dm'.busy /\ dm'.data = Answer
        BY <1>2, <4>2, <4>4, EndedModule
      <4>6. MovesWord(w)
        BY <1>1, <1>6, <2>4, <3>1, <3>2, <3>6, <4>1, <4>2, <4>3, <4>5 DEF MovesWord, w
      <4> QED BY <1>1, <4>5, <4>6
    <3> QED BY <3>5, <3>6
  <2> QED BY <2>3, <2>4
<1> QED BY <1>5, <1>6

LEMMA OtherPerformed ==
    ASSUME IInv, Perform, ~IsChunk
    PROVE  UNCHANGED <<call, mem, moved, got>> /\ call # NoCall
<1>1. UNCHANGED <<call, got>> /\ dm.busy /\ step = "idle"
  BY DEF Perform, hostVars, place, IInv, Commanding
<1>2. call # NoCall /\ loc \in {"probe128", "probe64", "fence", "csr"}
  BY <1>1, Attached DEF IInv, PlaceOK, CallOK, IsChunk, ChunkKinds, RunSteps, Runs, ChunkRuns,
                        Autos
<1>3. loc \in {"fence", "csr"} => dm.prog = loc
  BY <1>1 DEF IInv, Resetting
<1>4. loc \in {"probe128", "probe64"} => ~dm.cmd.post
  BY <1>1, CommandFields DEF IInv, Commanding
<1> QED BY <1>1, <1>2, <1>3, <1>4 DEF Perform, RunProgram, Moving

LEMMA PerformMoves == ASSUME IInv, Transferring, Perform PROVE Transferring'
<1>1. CASE ~IsChunk
  BY <1>1, OtherPerformed DEF Transferring, Moved, IsChunk
<1>2. CASE IsChunk
  <2>1. /\ UNCHANGED <<call, loc, step, count, got>> /\ dm.busy
        /\ dm'.prog = dm.prog /\ dm'.cmd = dm.cmd
    BY <1>2, ChunkPerformed
  <2>2. /\ step = "idle" /\ loc \in ChunkRuns /\ call # NoCall /\ call \in Chunks /\ call.kind \in ChunkKinds
        /\ call.addr \in Nat /\ call.len \in Nat \ {0} /\ Len(moved) \in Nat /\ count \in Nat
        /\ loc = "word" => count \in 1 .. LastWord
        /\ moved \in Seq(Word) /\ Counting /\ Aiming /\ Handing /\ Programmed
    BY <1>2, <2>1, InChunk, ChunkCommand DEF Transferring, Moved, IInv, CallOK
  <2>3. ASSUME Idles PROVE moved' \in Seq(Word) /\ Counting' /\ Aiming' /\ (dm'.busy => dm' = dm)
    <3>1. moved' = moved /\ ~dm'.busy
      BY <2>3 DEF Idles
    <3>2. Counting'
      <4>1. CASE ~dm.cmd.post
        <5>1. Expected' = Expected /\ ~Looping /\ ~Looping'
          BY <1>2, <2>1, <2>2, <3>1, <4>1, ChunkCommand DEF Expected, Over, Looping, LastWord,
                                                            ResumeSteps, ChunkRuns
        <5> QED BY <2>1, <2>2, <3>1, <5>1 DEF Counting, Covered
      <4>2. CASE dm.cmd.post
        <5>1. NextWord \notin Addr
          BY <2>3, <4>2 DEF Idles
        <5>2. Len(moved) <= Expected' /\ ~Looping'
          BY <1>2, <2>1, <2>2, <3>1, <4>2, ChunkCommand DEF Expected, Over, Looping, Counting,
                                                            Covered, LastWord, ResumeSteps,
                                                            ChunkRuns, ChunkKinds
        <5> QED BY <2>1, <3>1, <5>1, <5>2 DEF Counting, Covered, NextWord
      <4> QED BY <4>1, <4>2
    <3>3. Aiming'
      <4>1. hart'[0] = Borrower
        BY <2>3 DEF Idles
      <4>2. loc \in {"set_s0", "set_s1", "word"} => Borrower.s0 = <<NextWord, 0>>
        <5>1. loc = "word" /\ ~dm.cmd.post => Borrower = hart[0]
          BY <1>2, <2>1, <2>2, ChunkCommand, BorrowerHart DEF ChunkKinds
        <5> QED BY <1>2, <2>1, <2>2, <5>1, ChunkCommand, BorrowerHart
                   DEF Aiming, Pointing, NextWord
      <4> QED BY <2>1, <2>2, <3>1, <4>1, <4>2 DEF Aiming, Pointing, NextWord, Over, ChunkRuns,
                                                  ResumeSteps
    <3> QED BY <2>2, <3>1, <3>2, <3>3
  <2>4. ASSUME NEW w, MovesWord(w) PROVE moved' \in Seq(Word) /\ Counting' /\ Aiming' /\ (dm'.busy => dm' = dm)
    <3>1. moved' \in Seq(Word) /\ Len(moved') = Len(moved) + 1
      BY <2>2, <2>4 DEF MovesWord
    <3>2. Counting'
      <4>1. CASE dm'.busy
        BY <2>1, <2>2, <2>4, <3>1, <4>1 DEF MovesWord, Counting, Looping
      <4>2. CASE ~dm'.busy
        <5>1. Expected' = Len(moved) + 1
          BY <1>2, <2>1, <2>2, <2>4, <4>2, ChunkCommand DEF MovesWord, Expected, Over, Looping,
                                                            LastWord, ResumeSteps, ChunkRuns,
                                                            ChunkKinds
        <5> QED BY <2>2, <3>1, <4>2, <5>1 DEF Counting, Looping, Covered
      <4> QED BY <4>1, <4>2
    <3>3. Aiming'
      <4>1. NextWord + 1 = call.addr + Len(moved')
        BY <2>2, <3>1 DEF NextWord
      <4>2. Pointing'
        BY <2>1, <2>4, <4>1 DEF MovesWord, Pointing
      <4> QED BY <4>2 DEF Aiming
    <3> QED BY <2>4, <3>1, <3>2, <3>3 DEF MovesWord
  <2>5. moved' \in Seq(Word) /\ Counting' /\ Aiming' /\ (dm'.busy => dm' = dm)
    BY <1>2, <2>3, <2>4, ChunkPerformed
  <2>6. Handing'
    BY <2>1, <2>2, <2>5 DEF Handing, Passing, Limit
  <2>7. Programmed'
    <3>1. /\ CommandAt("set_s1")' = CommandAt("set_s1") /\ CommandAt("word")' = CommandAt("word")
      BY <2>1 DEF CommandAt
    <3>2. loc = "set_s1" => dm.cmd = CommandAt("set_s1")
      BY <2>1 DEF IInv, Commanding
    <3> QED BY <2>1, <2>2, <3>1, <3>2 DEF Programmed, Over, ResumeSteps, ChunkRuns
  <2>8. ASSUME call.kind = "read" PROVE Reading'
    <3>1. Reading /\ got \in Seq(Word) /\ Len(got) \in Nat /\ (loc # "set_s1")
      BY <1>2, <2>1, <2>8, ChunkCommand DEF Transferring, Moved
    <3>2. loc = "word" => Borrower = hart[0] /\ Answer = hart[0].s1
      BY <1>2, <2>1, <2>8, BorrowerHart
    <3>3. loc = "set_s0" => Len(moved) = 0
      <4>1. loc = "set_s0" => Expected = 0 /\ ~Looping
        BY <2>1, <2>2 DEF Expected, Over, Looping, ResumeSteps
      <4> QED BY <2>2, <4>1 DEF Counting, Covered
    <3>4. Serving /\ loc = "word" => Len(moved) = count
      <4>1. loc = "word" => Expected = count /\ ~Looping /\ count <= call.len
        BY <2>1, <2>2, <2>8 DEF Expected, Over, Looping, ResumeSteps, LastWord
      <4>2. loc = "word" => Len(moved) <= count /\ (Len(moved) < count => call.addr + Len(moved) \notin Addr)
        BY <2>2, <4>1 DEF Counting, Covered
      <4>3. Serving /\ Len(moved) < call.len => call.addr + Len(moved) \in Addr
        BY <2>2 DEF Serving, InMemory
      <4> QED BY <2>2, <4>1, <4>2, <4>3
    <3>5. loc \in {"set_s0", "word"} => (Len(moved') > 0 => hart'[0].s1 = moved'[Len(moved')])
      <4>1. CASE Idles
        BY <2>2, <3>1, <3>2, <3>3, <4>1 DEF Idles, Reading
      <4>2. ASSUME NEW w, MovesWord(w) PROVE hart'[0].s1 = moved'[Len(moved')]
        BY <2>2, <2>8, <4>2 DEF MovesWord
      <4> QED BY <1>2, <4>1, <4>2, ChunkPerformed
    <3>6. /\ \A i \in 1 .. Len(moved) : moved'[i] = moved[i]
          /\ loc = "word" => dm'.data = Answer
      <4>1. CASE Idles
        BY <4>1 DEF Idles
      <4>2. ASSUME NEW w, MovesWord(w) PROVE <3>6!:
        BY <2>2, <4>2 DEF MovesWord, Looping
      <4> QED BY <1>2, <4>1, <4>2, ChunkPerformed
    <3>7. ASSUME Serving PROVE /\ \A i \in 1 .. Len(got) : got[i] = moved'[i]
                               /\ loc = "word" => dm'.data = moved'[count]
      <4>1. CASE loc = "word"
        <5>1. Len(moved) = count /\ count \in Nat \ {0} /\ Len(got) = count - 1
          BY <2>1, <2>2, <3>1, <3>4, <3>7, <4>1 DEF Reading
        <5>2. Answer = moved[count]
          BY <3>1, <3>2, <4>1, <5>1 DEF Reading
        <5> QED BY <3>1, <3>6, <3>7, <4>1, <5>1, <5>2 DEF Reading
      <4>2. CASE loc \in {"restore_s0", "restore_s1"}
        <5>1. moved' = moved
          BY <1>2, <2>1, <4>2, ChunkPerformed, ChunkCommand DEF Idles, MovesWord
        <5> QED BY <3>1, <3>7, <4>2, <5>1 DEF Reading
      <4>3. CASE loc \in {"save_s0", "save_s1", "set_s0"}
        BY <3>1, <4>3 DEF Reading
      <4> QED BY <2>2, <3>1, <4>1, <4>2, <4>3 DEF ChunkRuns
    <3> QED BY <2>1, <2>2, <3>1, <3>5, <3>7 DEF Reading, Over, Serving, IsChunk, InMemory,
                                                ChunkRuns, ResumeSteps
  <2> QED BY <1>2, <2>1, <2>2, <2>5, <2>6, <2>7, <2>8 DEF Transferring, Moved
<1> QED BY <1>1, <1>2

LEMMA TransferInitially == Init => Transferring
<1> SUFFICES ASSUME Init PROVE Transferring
  OBVIOUS
<1>1. call = Starting /\ moved = <<>> /\ got = <<>> /\ call # NoCall
  BY CallAssumption DEF Init
<1> QED BY <1>1 DEF Transferring, Moved, IsChunk, Starting

LEMMA TransferInductive == IInv /\ Transferring /\ [Next]_vars => Transferring'
<1> SUFFICES ASSUME IInv, Transferring, [Next]_vars PROVE Transferring'
  OBVIOUS
<1>1. ASSUME NEW c \in Calls, Begin(c) PROVE Transferring'
  BY <1>1, BeginMoves
<1>2. CASE HostStep
  BY <1>2, HaltMoves, ResumeMoves, WriteProgramMoves, WriteDataMoves, WriteCommandMoves,
     AwaitIdleMoves, ReadDataMoves, CheckErrorMoves, ReadResultMoves, SetAutoMoves, EndMoves DEF HostStep
<1>3. CASE Perform
  BY <1>3, PerformMoves
<1>4. ASSUME NEW h \in Harts, HaltHart(h) \/ ResumeHart(h) \/ ProgramStep(h) PROVE Transferring'
  BY <1>4, HartsMove
<1>5. CASE UNCHANGED vars
  BY <1>5, FrameStep DEF vars, hostVars, place
<1> QED BY <1>1, <1>2, <1>3, <1>4, <1>5 DEF Next

LEMMA TransferInvariant == Spec => [](IInv /\ Transferring)
<1>1. Init => IInv /\ Transferring
  BY Initially, TransferInitially
<1>2. IInv /\ Transferring /\ [Next]_vars => (IInv /\ Transferring)'
  BY Inductive, TransferInductive
<1> QED BY <1>1, <1>2, PTL DEF Spec

-----------------------------------------------------------------------------
(* The request, the positions left to move and the host's buffer, as       *)
(* ByteMemory has them.                                                    *)
Asked == IF Serving THEN Request(call) ELSE NoCall
Left    == IF Serving THEN Len(moved) .. call.len - 1 ELSE {}
Buffer  == IF ~Serving THEN <<>>
           ELSE [i \in 0 .. call.len - 1 |->
                  IF call.kind # "read" THEN call.data[i]
                  ELSE IF i < Len(got) THEN got[i + 1]
                  ELSE IF i < Len(moved) THEN moved[i + 1] ELSE Unread]

(* In the memory the words that are expected have been moved.              *)
LEMMA ServedWords ==
    ASSUME IInv, Transferring, Serving
    PROVE  /\ IsChunk /\ call \in Chunks
           /\ call.addr \in Nat /\ call.len \in Nat \ {0}
           /\ Expected \in 0 .. call.len /\ Len(moved) \in 0 .. call.len
           /\ ~Looping => Len(moved) = Expected
<1>1. /\ IsChunk /\ call \in Chunks /\ call.kind \in ChunkKinds /\ call.addr \in Nat /\ call.len \in Nat \ {0}
      /\ count \in Nat /\ Len(moved) \in Nat /\ loc \in ChunkRuns \cup Autos \cup {"halt", "resume", "return"}
  BY InChunk DEF Serving
<1>2. Expected \in 0 .. call.len
  <2>1. loc = "word" => count \in 1 .. LastWord
    BY <1>1 DEF IInv, CallOK
  <2> QED BY <1>1, <2>1 DEF Expected, LastWord
<1>3. Counting
  BY <1>1 DEF Transferring, Moved
<1>4. Len(moved) < call.len => call.addr + Len(moved) \in Addr
  BY <1>1 DEF Serving, InMemory
<1> QED BY <1>1, <1>2, <1>3, <1>4 DEF Counting, Covered

(* The buffer holds what the program has moved, got or not.                *)
LEMMA BufferHolds ==
    IInv /\ Transferring /\ Serving =>
        Buffer = [i \in 0 .. call.len - 1 |->
                   IF call.kind # "read" THEN call.data[i]
                   ELSE IF i < Len(moved) THEN moved[i + 1] ELSE Unread]
<1> SUFFICES ASSUME IInv, Transferring, Serving
             PROVE  Buffer = [i \in 0 .. call.len - 1 |->
                               IF call.kind # "read" THEN call.data[i]
                               ELSE IF i < Len(moved) THEN moved[i + 1] ELSE Unread]
  OBVIOUS
<1>1. CASE call.kind # "read"
  BY <1>1 DEF Buffer
<1>2. CASE call.kind = "read"
  <2>1. Reading /\ Len(got) \in Nat
    BY <1>2, ServedWords, InChunk DEF Transferring, Moved
  <2>2. Len(got) <= Len(moved)
    <3>1. ~Looping
      BY <1>2 DEF Looping
    <3>2. Len(moved) = Expected /\ call.len \in Nat /\ count \in Nat /\ (loc = "word" => count \in 1 .. call.len)
      BY <1>2, <3>1, ServedWords, InChunk DEF IInv, CallOK, LastWord, Serving
    <3>3. loc = "word" => Len(got) <= Expected
      BY <2>1, <3>2 DEF Reading, Expected, Over
    <3>4. loc \in {"restore_s0", "restore_s1", "resume", "return"} => Len(got) <= Expected
      BY <2>1, <3>2 DEF Reading, Expected
    <3>5. loc \notin {"word", "restore_s0", "restore_s1", "resume", "return"} => Len(got) <= Expected
      BY <2>1, <3>2, ServedWords DEF Reading
    <3> QED BY <3>2, <3>3, <3>4, <3>5
  <2>3. \A i \in 0 .. call.len - 1 : i < Len(got) => got[i + 1] = moved[i + 1] /\ i < Len(moved)
    BY <2>1, <2>2, ServedWords DEF Reading
  <2> QED BY <1>2, <2>3 DEF Buffer
<1> QED BY <1>1, <1>2

LEMMA BufferKept ==
    ASSUME IInv, Transferring, IInv', Transferring', UNCHANGED <<call, moved>>
    PROVE  Buffer' = Buffer
<1>1. Serving' <=> Serving
  BY DEF Serving, IsChunk, InMemory
<1>2. CASE ~Serving
  BY <1>1, <1>2 DEF Buffer
<1>3. CASE Serving
  <2>1. (IInv /\ Transferring /\ Serving =>
           Buffer = [i \in 0 .. call.len - 1 |->
                      IF call.kind # "read" THEN call.data[i]
                      ELSE IF i < Len(moved) THEN moved[i + 1] ELSE Unread])'
    BY BufferHolds, PTL
  <2> QED BY <1>1, <1>3, <2>1, BufferHolds
<1> QED BY <1>2, <1>3

(* The steps of Dtm as steps of ByteMemory.                                *)
LEMMA InitMaps == Init => M!BInit
<1> SUFFICES ASSUME Init PROVE M!BInit
  OBVIOUS
<1>1. ~Serving
  BY DEF Init, Starting, Serving, IsChunk
<1>2. mem \in [Addr -> {Zero, Stored} \cup {Mark(a) : a \in Addr}]
  BY DEF Init
<1> QED BY <1>1, <1>2 DEF M!BInit

(* A step that changes none of this is no step of the memory.              *)
LEMMA Stutters ==
    ASSUME UNCHANGED <<mem, Asked, Left, Buffer>>
    PROVE  UNCHANGED M!bvars
BY DEF M!bvars, Asked, Left, Buffer

LEMMA QuietSteps ==
    ASSUME IInv, Transferring, IInv', Transferring', UNCHANGED <<call, mem, moved>>
    PROVE  UNCHANGED M!bvars
<1>1. Serving' <=> Serving
  BY DEF Serving, IsChunk, InMemory
<1>2. UNCHANGED <<Asked, Left>>
  BY <1>1 DEF Asked, Left, Request
<1> QED BY <1>2, BufferKept, Stutters

(* The target's stores, and those of a chunk that runs off the memory.     *)
LEMMA StoreMaps ==
    ASSUME UNCHANGED <<Asked, Left, Buffer>>, NEW a \in Addr, mem \in [Addr -> Word],
           NEW w \in {Zero, Stored} \cup {Mark(b) : b \in Addr}, mem' = [mem EXCEPT ![a] = w]
    PROVE  M!TargetStore
BY DEF M!TargetStore, Asked, Left, Buffer

LEMMA BeginMaps ==
    ASSUME IInv, Transferring, IInv', Transferring', NEW c \in Calls, Begin(c)
    PROVE  [M!BNext]_(M!bvars)
<1>1. call = NoCall /\ call' = c /\ UNCHANGED <<mem, moved, got>> /\ c # NoCall
      /\ moved = <<>> /\ got = <<>>
  BY CallAssumption DEF Begin, Transferring
<1>2. ~Serving
  BY <1>1 DEF Serving, IsChunk
<1>3. CASE ~Serving'
  BY <1>1, <1>2, <1>3, Stutters DEF Asked, Left, Buffer
<1>4. CASE Serving'
  <2>1. c \in Chunks /\ InMemory(c) /\ c.kind # "reset"
    BY <1>1, <1>4 DEF Serving, IsChunk, Calls, InMemory
  <2>2. Asked = NoCall /\ Asked' = Request(c) /\ Request(c) \in Accesses
    BY <1>1, <1>2, <1>4, <2>1 DEF Asked, Accesses, Request
  <2>3. Len(moved') = 0 /\ c.len \in Nat \ {0}
    BY <1>1, <2>1, ChunkData
  <2>4. Left' = 0 .. c.len - 1
    BY <1>1, <1>4, <2>3 DEF Left
  <2>5. Buffer' = c.data
    <3>1. Buffer' = [i \in 0 .. c.len - 1 |-> IF c.kind # "read" THEN c.data[i] ELSE Unread]
      <4>1. Len(moved') = 0 /\ Len(got') = 0
        BY <1>1
      <4>2. \A i \in 0 .. c.len - 1 : ~(i < Len(got')) /\ ~(i < Len(moved'))
        BY <2>3, <4>1
      <4> QED BY <1>1, <1>4, <4>2 DEF Buffer
    <3> QED BY <2>1, <3>1, ChunkData
  <2>6. M!Start
    BY <1>1, <2>2, <2>4, <2>5 DEF M!Start, M!Positions, Asked, Left, Buffer, Request
  <2> QED BY <2>6 DEF M!BNext
<1> QED BY <1>3, <1>4

LEMMA EndMaps ==
    ASSUME IInv, Transferring, IInv', Transferring', End
    PROVE  [M!BNext]_(M!bvars)
<1>1. loc = "return" /\ call' = NoCall /\ mem' = mem
  BY DEF End, At
<1>2. ~Serving'
  BY <1>1 DEF Serving, IsChunk
<1>3. CASE ~Serving
  BY <1>1, <1>2, <1>3, Stutters DEF Asked, Left, Buffer
<1>4. CASE Serving
  <2>1. Len(moved) = call.len /\ call.len \in Nat
    BY <1>1, <1>4, ServedWords DEF Expected, Looping
  <2>2. Left = {} /\ Left' = {} /\ Asked' = NoCall /\ Buffer' = <<>>
    BY <1>2, <1>4, <2>1 DEF Left, Asked, Buffer
  <2>3. Asked # NoCall
    <3>1. Asked \in Accesses
      BY <1>4, ServedWords DEF Asked, Accesses, Serving, Calls, ChunkKinds, IsChunk
    <3> QED BY <3>1, AccessAssumption
  <2>4. M!Return
    BY <1>1, <2>2, <2>3 DEF M!Return, Asked, Left, Buffer
  <2> QED BY <2>4 DEF M!BNext
<1> QED BY <1>3, <1>4

(* A program that moves a word of a chunk in the memory transfers it.      *)
LEMMA PerformMaps ==
    ASSUME IInv, Transferring, IInv', Transferring', Perform
    PROVE  [M!BNext]_(M!bvars)
<1>1. CASE ~IsChunk
  BY <1>1, OtherPerformed, QuietSteps
<1>2. CASE IsChunk /\ Idles
  BY <1>2, ChunkPerformed, QuietSteps DEF Idles
<1>3. ASSUME IsChunk, NEW w, MovesWord(w) PROVE [M!BNext]_(M!bvars)
  <2>1. /\ UNCHANGED <<call, loc, step, count, got>> /\ call \in Chunks /\ call.addr \in Nat
        /\ call.len \in Nat \ {0} /\ Len(moved) \in Nat /\ moved \in Seq(Word) /\ call.kind \in ChunkKinds
        /\ mem \in [Addr -> Word]
    BY <1>3, ChunkPerformed, InChunk DEF Transferring, IInv, TypesOK
  <2> DEFINE n == Len(moved)
             a == call.addr + n
  <2>2. /\ a \in Addr /\ n < call.len /\ moved' = Append(moved, w) /\ w \in Word
        /\ call.kind = "read" => w = mem[a] /\ mem' = mem
        /\ call.kind # "read" => w = call.data[n] /\ mem' = [mem EXCEPT ![a] = w]
    BY <1>3 DEF MovesWord, NextWord
  <2>3. Serving' <=> Serving
    BY <2>1 DEF Serving, IsChunk, InMemory
  <2>4. CASE ~Serving
    <3>1. UNCHANGED <<Asked, Left, Buffer>>
      BY <2>3, <2>4 DEF Asked, Left, Buffer
    <3>2. CASE call.kind = "read"
      BY <2>2, <3>1, <3>2, Stutters
    <3>3. CASE call.kind # "read"
      <4>1. w \in {Zero, Stored} \cup {Mark(b) : b \in Addr}
        <5>1. n \in 0 .. call.len - 1
          BY <2>1, <2>2
        <5>2. call.kind = "write" => w = Mark(a)
          BY <2>1, <2>2, <5>1, ChunkData
        <5>3. call.kind = "clear" => w = Zero
          BY <2>1, <2>2, <5>1, ChunkData
        <5> QED BY <2>1, <2>2, <3>3, <5>2, <5>3 DEF ChunkKinds
      <4>2. M!TargetStore
        BY <2>1, <2>2, <3>1, <3>3, <4>1, StoreMaps
      <4> QED BY <4>2 DEF M!BNext
    <3> QED BY <3>2, <3>3
  <2>5. CASE Serving
    <3>1. Len(moved') = n + 1 /\ (\A i \in 1 .. n : moved'[i] = moved[i]) /\ moved'[n + 1] = w
      BY <2>1, <2>2
    <3>2. Left = n .. call.len - 1 /\ Left' = n + 1 .. call.len - 1
      BY <2>1, <2>3, <2>5, <3>1 DEF Left
    <3>3. Left \ Left' = {n} /\ Left' \subseteq Left
      BY <2>1, <2>2, <3>2
    <3>4. Asked = Request(call) /\ Asked' = Asked /\ Asked # NoCall
      <4>1. Request(call) \in Accesses
        BY <2>5, ServedWords DEF Accesses, Serving, Calls, ChunkKinds, IsChunk
      <4> QED BY <2>1, <2>3, <2>5, <4>1, AccessAssumption DEF Asked, Request
    <3>5. Buffer = [i \in 0 .. call.len - 1 |->
                      IF call.kind # "read" THEN call.data[i]
                      ELSE IF i < n THEN moved[i + 1] ELSE Unread]
      BY <2>5, BufferHolds
    <3>6. Buffer' = [i \in 0 .. call.len - 1 |->
                      IF call.kind # "read" THEN call.data[i]
                      ELSE IF i < n + 1 THEN moved'[i + 1] ELSE Unread]
      <4>1. (IInv /\ Transferring /\ Serving =>
               Buffer = [i \in 0 .. call.len - 1 |->
                          IF call.kind # "read" THEN call.data[i]
                          ELSE IF i < Len(moved) THEN moved[i + 1] ELSE Unread])'
        BY BufferHolds, PTL
      <4> QED BY <2>1, <2>3, <2>5, <3>1, <4>1
    <3>7. CASE call.kind # "read"
      <4>1. Buffer' = Buffer /\ Buffer[n] = w /\ Request(call).put /\ Request(call).addr = call.addr
        <5>1. Buffer = [i \in 0 .. call.len - 1 |-> call.data[i]] /\ Buffer' = Buffer
          BY <3>5, <3>6, <3>7
        <5>2. n \in 0 .. call.len - 1
          BY <2>1, <2>2
        <5>3. Buffer[n] = w
          BY <2>2, <3>7, <5>1, <5>2
        <5> QED BY <3>7, <5>1, <5>3 DEF Request
      <4>2. mem' = [b \in Addr |-> IF b - call.addr \in {n} THEN Buffer[b - call.addr] ELSE mem[b]]
        <5>1. \A b \in Addr : b - call.addr \in {n} <=> b = a
          BY <2>1, AddrAssumption
        <5>2. a - call.addr = n
          BY <2>1
        <5> QED BY <2>1, <2>2, <3>7, <4>1, <5>1, <5>2
      <4>3. /\ Asked.put /\ UNCHANGED Asked /\ Asked # NoCall /\ Left \ Left' # {}
            /\ mem' = [b \in Addr |-> IF b - Asked.addr \in Left \ Left'
                                        THEN Buffer[b - Asked.addr] ELSE mem[b]]
        BY <3>3, <3>4, <4>1, <4>2
      <4>4. M!Transfer
        BY <3>3, <4>1, <4>3 DEF M!Transfer, Asked, Left, Buffer
      <4> QED BY <4>4 DEF M!BNext
    <3>8. CASE call.kind = "read"
      <4>1. ~Request(call).put /\ Request(call).addr = call.addr
        BY <3>8 DEF Request
      <4>2. Buffer' = [i \in DOMAIN Buffer |-> IF i \in {n} THEN mem[call.addr + i] ELSE Buffer[i]]
        <5>1. \A i \in 0 .. call.len - 1 :
                 (IF i < n + 1 THEN moved'[i + 1] ELSE Unread)
                   = IF i = n THEN mem[call.addr + i] ELSE IF i < n THEN moved[i + 1] ELSE Unread
          BY <2>1, <2>2, <3>1, <3>8
        <5> QED BY <3>5, <3>6, <3>8, <5>1
      <4>3. /\ ~Asked.put /\ UNCHANGED <<Asked, mem>> /\ Asked # NoCall /\ Left \ Left' # {}
            /\ Buffer' = [i \in DOMAIN Buffer |-> IF i \in Left \ Left' THEN mem[Asked.addr + i]
                                                                       ELSE Buffer[i]]
        BY <2>2, <3>3, <3>4, <3>8, <4>1, <4>2
      <4>4. M!Transfer
        BY <3>3, <4>3 DEF M!Transfer, Asked, Left, Buffer
      <4> QED BY <4>4 DEF M!BNext
    <3> QED BY <3>7, <3>8
  <2> QED BY <2>4, <2>5
<1> QED BY <1>1, <1>2, <1>3, ChunkPerformed

LEMMA NextMaps ==
    IInv /\ Transferring /\ (IInv /\ Transferring)' /\ [Next]_vars => [M!BNext]_(M!bvars)
<1> SUFFICES ASSUME IInv, Transferring, IInv', Transferring', [Next]_vars
             PROVE  [M!BNext]_(M!bvars)
  OBVIOUS
<1>1. ASSUME NEW c \in Calls, Begin(c) PROVE [M!BNext]_(M!bvars)
  BY <1>1, BeginMaps
<1>2. CASE End
  BY <1>2, EndMaps
<1>3. CASE HostStep /\ ~End
  <2>1. UNCHANGED <<call, mem, moved>>
    BY <1>3 DEF HostStep, Halt, Resume, WriteProgram, WriteData, WriteHalf, WriteCommand,
                AwaitIdle, ReadData, CheckError, ReadResult, SetAuto, Silent, Access
  <2> QED BY <2>1, QuietSteps
<1>4. CASE Perform
  BY <1>4, PerformMaps
<1>5. ASSUME NEW h \in Harts, HaltHart(h) \/ ResumeHart(h) \/ ProgramStep(h)
      PROVE  [M!BNext]_(M!bvars)
  <2>1. UNCHANGED <<call, moved, got>>
    BY <1>5 DEF HaltHart, ResumeHart, ProgramStep, hostVars
  <2>2. CASE mem' = mem
    BY <2>1, <2>2, QuietSteps
  <2>3. ASSUME NEW a \in TargetAddr, mem' = [mem EXCEPT ![a] = Stored] PROVE M!BNext
    <3>1. UNCHANGED <<Asked, Left, Buffer>>
      BY <2>1 DEF Asked, Left, Buffer, Serving, IsChunk, InMemory, Request
    <3>2. M!TargetStore
      BY <2>3, <3>1, AddrAssumption, StoreMaps DEF IInv, TypesOK
    <3> QED BY <3>2 DEF M!BNext
  <2> QED BY <1>5, <2>2, <2>3 DEF HaltHart, ResumeHart, ProgramStep
<1>6. CASE UNCHANGED vars
  BY <1>6, QuietSteps DEF vars, hostVars
<1> QED BY <1>1, <1>2, <1>3, <1>4, <1>5, <1>6 DEF Next, HostStep

(* Chunks are the memory that memif.cc is written for: every word of a     *)
(* chunk in memory is moved once, to or from its own address, a read       *)
(* returns what was moved, and nothing changes the memory but these words, *)
(* stores of the target and chunks that run off the memory.                *)
THEOREM DtmIsMemory == Spec => ImplementsMemory
<1>1. Init => M!BInit
  BY InitMaps
<1> QED BY <1>1, NextMaps, TransferInvariant, PTL DEF Spec, ImplementsMemory, M!BSpec
=============================================================================
