------------------------------- MODULE MCLive --------------------------------
(***************************************************************************)
(* Three systems in which one waits for another, checked together: `part'  *)
(* is "log" for begin_op() and end_op() with a log that fills up (Log),    *)
(* "pipeline" for a shell that runs "left | right" (Pipeline), "smp" for   *)
(* wait() and exit() on two CPUs (Sched).  Those that are not chosen stay  *)
(* in their initial states.                                                *)
(***************************************************************************)
EXTENDS Integers, Sequences, FiniteSets

VARIABLES
  part,
  home, logblk, head, lh, outstanding, committing, data, dirty, held, phase, tail, pc, left, panic,
  ftable, ofile, page, ring, nread, nwrite, readopen, writeopen, ppc, got, todo, buf, ret, killed, line,
  m_state, m_pid, m_parent, m_chan, m_killed, m_sched_class, m_sched_level,
  m_deadline, m_age, m_rr_ticks, m_context, m_pc, m_child, m_yields,
  m_cproc, m_nextrrp, m_intr, m_ptlock, m_count, m_nextpid, m_panic

(* A log that has room for two of three calls                              *)
W == INSTANCE Log WITH
  Proc <- 1..3, Block <- 1..4, Val <- {0}, V0 <- 0,
  MAXOPBLOCKS <- 2, OpBlocks <- 1, LOGSIZE <- 4, NLOG <- 4

logVars ==
  <<home, logblk, head, lh, outstanding, committing, data, dirty, held, phase, tail, pc, left, panic>>

(* A ring of two bytes, counters that wrap at 4, and writes of three bytes *)
P == INSTANCE Pipeline WITH
  Process <- 1..3, sh <- 1, left <- 2, right <- 3, data <- ring,
  NFILE <- 3, NOFILE <- 4, PIPESIZE <- 2, Uint <- 4, Requests <- {<<0, 1, 1>>}, MaxRead <- 2

pipelineVars ==
  <<ftable, ofile, page, ring, nread, nwrite, readopen, writeopen, ppc, got, todo, buf, ret, killed, line>>

(* Two processes that block, die and are reaped, on two CPUs               *)
Smp == INSTANCE Sched WITH
  state <- m_state, pid <- m_pid, parent <- m_parent, chan <- m_chan,
  killed <- m_killed, sched_class <- m_sched_class,
  sched_level <- m_sched_level, deadline <- m_deadline, age <- m_age,
  rr_ticks <- m_rr_ticks, context <- m_context, pc <- m_pc,
  child <- m_child, yields <- m_yields, cproc <- m_cproc,
  nextrrp <- m_nextrrp, intr <- m_intr, ptlock <- m_ptlock,
  count <- m_count, nextpid <- m_nextpid, panic <- m_panic,
  NPROC <- 2, NCPU <- 2, QUANTUM <- 1, AGING_THRESHOLD <- 1,
  MaxPid <- 2, MaxAge <- 2, MaxDrift <- 1, NCHAN <- 1, Deadlines <- {},
  Calls <- {"fork", "exit", "wait", "kill", "block"},
  Corners <- {"unused_pid"}

smpVars ==
  <<m_state, m_pid, m_parent, m_chan, m_killed, m_sched_class, m_sched_level,
    m_deadline, m_age, m_rr_ticks, m_context, m_pc, m_child, m_yields,
    m_cproc, m_nextrrp, m_intr, m_ptlock, m_count, m_nextpid, m_panic>>
mcvars == <<part, logVars, pipelineVars, smpVars>>

LiveInit ==
  part \in {"log", "pipeline", "smp"} /\ W!Init /\ P!PipelineInit /\ Smp!Init

LiveNext ==
  \/ part = "log" /\ W!Next /\ UNCHANGED <<part, pipelineVars, smpVars>>
  \/ part = "pipeline" /\ P!PipelineNext /\ UNCHANGED <<part, logVars, smpVars>>
  \/ part = "smp" /\ Smp!Next /\ UNCHANGED <<part, logVars, pipelineVars>>

(* Each part's own fairness: no step of the log is enabled in its initial  *)
(* state that Fairness would demand.                                       *)
LiveSpec ==
  /\ LiveInit /\ [][LiveNext]_mcvars
  /\ W!Fairness
  /\ \A p \in 1..3 : WF_pipelineVars(part = "pipeline" /\ (P!Program(p) \/ P!Kernel(p)))

(* A process asleep in begin_op() is woken, unless the machine goes down   *)
(* (log.c:126-171).                                                        *)
SleeperWakes == W!SleeperWakes

(* The shell gets its prompt back: each side of the pipeline sees the end  *)
(* of the other, by a write that fails or a read that returns 0, also when *)
(* it is asleep, when it is killed, and when a test of killed just missed  *)
(* the kill() (pipe.c:59-121, sh.c:102-124).                               *)
PipelineEnds == part = "pipeline" ~> P!Exited(1)

(* What goes through the pipe comes out once and in order, across          *)
(* wrap-around, full and empty rings, closes and kills; read() returns 0   *)
(* only at the end of the stream (pipe.c:59-121).                          *)
PipeQueue == P!PipeQueue

(* On two CPUs the process table is consistent: a process is on at most    *)
(* one CPU, and on one only while RUNNING or being switched; parents, pids *)
(* and half-made children are right; no parent sleeps over a zombie child; *)
(* and the counters add up (proc.c:80-135, 213-368, 379-523).              *)
SmpTable == part = "smp" => Smp!TableInv /\ Smp!CountsSum

(* wait() frees a slot, and with it the kernel stack, only after the other *)
(* CPU has left that stack (proc.c:340-352, 491).                          *)
SmpReapedOffCpu ==
  [][\A p \in DOMAIN m_state : m_state[p] = "ZOMBIE" /\ m_state'[p] = "UNUSED"
       => \A c \in DOMAIN m_cproc : m_cproc[c] # p]_mcvars
=============================================================================
