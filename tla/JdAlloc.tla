-------------------------------- MODULE JdAlloc --------------------------------
(***************************************************************************)
(* The allocator of small devices (source/interfaces/simple_alloc.c):      *)
(* blocks are cut off the heap one after the other and never freed; memory *)
(* is filled with a pattern at the start, so that how far the stack has    *)
(* come down can be read off it.  Addresses are in words.  The heap is     *)
(* 0..HEAP - 1, the stack's space HEAP..HEAP + STACK - 1.                  *)
(***************************************************************************)
EXTENDS Integers, Sequences

CONSTANTS HEAP, STACK,
          WORD,      \* bytes of a word, 4
          Sizes      \* bytes that are asked for

VARIABLES aptr,      \* the first free word
          ram,       \* ram[a]: "fill" (0x33333333), "zero" or "data"
          maxStack,  \* in words
          deepest,   \* history: how many words the stack has ever had
          blocks,    \* history: the blocks handed out, as [at, words]
          panic

vars == <<aptr, ram, maxStack, deepest, blocks, panic>>

STACK_BASE == HEAP + STACK
HEAP_END == HEAP

-----------------------------------------------------------------------------
\* The scan from the lowest word of the stack's space; what is below is not looked at.
StackUsed(mem) ==
  LET other == {a \in HEAP_END..STACK_BASE - 1 : mem[a] # "fill"}
  IN  IF other = {} THEN 0 ELSE STACK_BASE - (CHOOSE a \in other : \A b \in other : a <= b)

jd_alloc_stack_check(mem) == maxStack' = IF StackUsed(mem) > maxStack THEN StackUsed(mem) ELSE maxStack

\* jd_alloc_init, called with depth words on the stack.
Init ==
  \E depth \in 1..STACK :
    /\ ram = [a \in 0..STACK_BASE - 1 |-> IF a < STACK_BASE - depth THEN "fill" ELSE "data"]
    /\ aptr = 0 /\ maxStack = depth /\ deepest = depth /\ blocks = {} /\ panic = FALSE

\* Mutant: the size is rounded down.
WordsDown(size) == size \div WORD

Words(size) == (size + 3) \div WORD

jd_alloc(size) ==
  LET top == aptr + Words(size) IN
  /\ ~panic
  /\ jd_alloc_stack_check(ram)
  /\ aptr' = top
  /\ IF top > HEAP_END THEN panic' = TRUE /\ UNCHANGED <<ram, blocks>>
     ELSE /\ ram' = [a \in DOMAIN ram |-> IF a \in aptr..top - 1 THEN "zero" ELSE ram[a]]
          /\ blocks' = blocks \cup {[at |-> aptr, bytes |-> size]}
          /\ UNCHANGED panic
  /\ UNCHANGED deepest

jd_available_memory == HEAP_END - aptr

-----------------------------------------------------------------------------
(* The program: it writes to its blocks, and its stack comes and goes.     *)

BlockWords(b) == {b.at + (i \div WORD) : i \in 0..b.bytes - 1}

UseBlock ==
  /\ ~panic
  /\ \E b \in blocks : ram' = [a \in DOMAIN ram |-> IF a \in BlockWords(b) THEN "data" ELSE ram[a]]
  /\ UNCHANGED <<aptr, maxStack, deepest, blocks, panic>>

StackGrows(depth) ==
  /\ ~panic /\ depth > deepest
  /\ ram' = [a \in DOMAIN ram |-> IF a >= STACK_BASE - depth THEN "data" ELSE ram[a]]
  /\ deepest' = depth
  /\ UNCHANGED <<aptr, maxStack, blocks, panic>>

Next ==
  \/ \E size \in Sizes : jd_alloc(size)
  \/ UseBlock
  \/ \E depth \in 1..STACK : StackGrows(depth)

Spec == Init /\ [][Next]_vars

-----------------------------------------------------------------------------
\* As long as the stack keeps to its space: no two blocks share a word and none
\* reaches into the stack's space, a block is as large as was asked for; memory
\* that is not handed out has its pattern, and what jd_alloc last found of the
\* stack is what the stack has used, never more.
BlocksApart ==
  /\ \A b, c \in blocks : b # c => BlockWords(b) \cap BlockWords(c) = {}
  /\ \A b \in blocks : \A a \in BlockWords(b) : a < aptr /\ a < HEAP_END
  /\ ~panic => jd_available_memory >= 0 /\ \A a \in aptr..HEAP_END - 1 : ram[a] = "fill"
  /\ maxStack <= deepest /\ StackUsed(ram) = deepest
=============================================================================
