------------------------------- MODULE WordOps -------------------------------
(***************************************************************************)
(* What thread.rs promises of its operations: each takes effect at one     *)
(* instant, while the index of the calling thread is the key of the word,  *)
(* or reports that a compare failed or the index was another one at one    *)
(* instant of the call.  The store to the side word of store_if is the     *)
(* documented exception: it may become visible before, and without, the    *)
(* commit.  There are no instructions, critical sections or CPUs here.     *)
(***************************************************************************)
EXTENDS Integers

CONSTANTS Thread, Addr, Width, Calls, InitMem, Idle, NoFrame

VARIABLES
  mem,     \* Addr -> value
  index,   \* the index of a thread, by kind
  call,    \* the pending call of a thread, or Idle
  held,    \* the call a signal interrupted, or Idle; NoFrame without one
  ret      \* the last result of a thread

vars == <<mem, index, call, held, ret>>

Plus(x, y) == (x + y) % Width
Paired == {"compare_exchange_if", "store_if"}

Current(t) == index[t][call[t].word.kind] = call[t].word.key

\* The words that an operation reads through pointers.
Field(c, m) == Plus(m[c.word.addr], c.offset)
Slot(c, m)  == m[Field(c, m)]

\* The compares of an operation in order: the values seen by the failing ones.
Fails(c, m) ==
  LET seen == m[c.word.addr]  other == m[c.other.addr] IN
  CASE c.op \in {"fetch_add", "fetch_add_at"} -> {}
    [] c.op = "load_if_ne" -> IF seen = c.expect THEN {seen} ELSE {}
    [] OTHER -> IF seen # c.expect THEN {seen}
                ELSE IF c.op = "compare_exchange_if" /\ other # c.other_val
                     THEN {other}
                     ELSE {}

\* The memory after an operation, and the old value it returns.
Applied(c, m) ==
  CASE c.op = "fetch_add"    -> [m EXCEPT ![c.word.addr] = Plus(@, c.new)]
    [] c.op = "fetch_add_at" -> [m EXCEPT ![Slot(c, m)] = Plus(@, c.new)]
    [] c.op = "load_if_ne"   -> [m EXCEPT ![c.word.addr] = m[Field(c, m)]]
    [] c.op = "store_if"     -> [m EXCEPT ![c.other.addr] = c.other_val,
                                          ![c.word.addr] = c.new]
    [] OTHER                 -> [m EXCEPT ![c.word.addr] = c.new]

Old(c, m) == IF c.op = "fetch_add_at" THEN m[Slot(c, m)] ELSE m[c.word.addr]

Done(t, status, value) ==
  /\ call' = [call EXCEPT ![t] = Idle]
  /\ ret' = [ret EXCEPT ![t] = [status |-> status, value |-> value]]

\* A paired call whose words have different keys is refused.
Begin(t, c) ==
  /\ call[t] = Idle
  /\ IF c.op \in Paired /\ c.other.key # c.word.key
     THEN /\ ret' = [ret EXCEPT ![t] = [status |-> "Abort", value |-> 0]]
          /\ UNCHANGED call
     ELSE /\ ret' = [ret EXCEPT ![t] = [status |-> "None", value |-> 0]]
          /\ call' = [call EXCEPT ![t] = c]
  /\ UNCHANGED <<mem, index, held>>

Succeed(t) ==
  /\ call[t] # Idle /\ Current(t) /\ Fails(call[t], mem) = {}
  /\ mem' = Applied(call[t], mem)
  /\ Done(t, "Ok", Old(call[t], mem))
  /\ UNCHANGED <<index, held>>

Fail(t) ==
  /\ call[t] # Idle /\ Current(t)
  /\ \E seen \in Fails(call[t], mem) : Done(t, "Miss", seen)
  /\ UNCHANGED <<mem, index, held>>

Refuse(t) ==
  /\ call[t] # Idle /\ ~Current(t)
  /\ Done(t, "Abort", 0)
  /\ UNCHANGED <<mem, index, held>>

Scratch(t) ==
  LET c == call[t] IN
  /\ c # Idle /\ c.op = "store_if" /\ Current(t) /\ Fails(c, mem) = {}
  /\ mem' = [mem EXCEPT ![c.other.addr] = c.other_val]
  /\ UNCHANGED <<index, call, held, ret>>

\* The scheduler may change the index of a thread at any time.
Move(t) ==
  /\ index'[t] \in [{"cpu_id", "mm_cid"} -> Nat]
  /\ index' = [index EXCEPT ![t] = index'[t]]
  /\ UNCHANGED <<mem, call, held, ret>>

\* A signal sets the pending call aside until its handler returns.
Suspend(t) ==
  /\ held[t] = NoFrame
  /\ held' = [held EXCEPT ![t] = call[t]]
  /\ call' = [call EXCEPT ![t] = Idle]
  /\ UNCHANGED <<mem, index, ret>>

Continue(t) ==
  /\ held[t] # NoFrame /\ call[t] = Idle
  /\ call' = [call EXCEPT ![t] = held[t]]
  /\ held' = [held EXCEPT ![t] = NoFrame]
  /\ UNCHANGED <<mem, index, ret>>

Init ==
  /\ mem = InitMem
  /\ index = [t \in Thread |-> [k \in {"cpu_id", "mm_cid"} |-> 0]]
  /\ call = [t \in Thread |-> Idle]
  /\ held = [t \in Thread |-> NoFrame]
  /\ ret = [t \in Thread |-> [status |-> "None", value |-> 0]]

Next ==
  \E t \in Thread :
    \/ \E c \in Calls : Begin(t, c)
    \/ Succeed(t) \/ Fail(t) \/ Refuse(t) \/ Scratch(t)
    \/ Move(t) \/ Suspend(t) \/ Continue(t)

Spec == Init /\ [][Next]_vars

=============================================================================
