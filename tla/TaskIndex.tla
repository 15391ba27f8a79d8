------------------------------ MODULE TaskIndex ------------------------------
(***************************************************************************)
(* The pthreadpool_parallelize_* functions of portable-api.c, their thread *)
(* functions there and in fastpath.c, the functions of legacy-api.c that   *)
(* call them, and shim.c, which takes their place in a build without       *)
(* threads: how a call with one to six dimensions, some of them tiled,     *)
(* becomes one linear range, and how a linear index becomes the arguments  *)
(* of the task.                                                            *)
(*                                                                         *)
(* A thread turns a linear index into the indices of an item by divisions, *)
(* for the start of its own range and for every item it steals.  Through   *)
(* its own range it then walks by increments that carry into the outer     *)
(* dimensions.  A call that is not worth the thread pool runs the nested   *)
(* loops themselves.  Which thread takes which linear index is the         *)
(* business of module WorkRange; here any thread takes any.  A behaviour is *)
(* one call: calls share no state.                                         *)
(*                                                                         *)
(* Arithmetic is that of size_t.  FXdiv's division by a precomputed        *)
(* divisor is division.                                                    *)
(***************************************************************************)
EXTENDS Integers, Sequences, FiniteSets

CONSTANTS
  M,            \* the number of size_t values
  Builds,       \* how the library is built: with or without fast path, the shim
  Functions,    \* the functions of the interface that the user calls
  Ranges,       \* the ranges and the tiles he calls them with
  Tiles,
  ThreadsCounts, \* the thread pools: their threads_count, 1 for none
  Uarchs,       \* the values of cpuinfo_get_current_uarch_index_with_default
  CallerFpus,   \* the callers' FPUs: FALSE if the user keeps denormals disabled
  USE_CPUINFO   \* PTHREADPOOL_USE_CPUINFO

(* A function of the interface: its dimensions, how many of them are tiled, *)
(* whether its task is told the microarchitecture and the thread, and       *)
(* whether it is one of the deprecated functions pthreadpool_compute_*.     *)
Plain(dims, tiles) ==
  [dims |-> dims, tiles |-> tiles, uarch |-> FALSE, thread |-> FALSE, legacy |-> FALSE]
WithThread(dims, tiles) == [Plain(dims, tiles) EXCEPT !.thread = TRUE]
WithUarch(dims, tiles) == [Plain(dims, tiles) EXCEPT !.uarch = TRUE]
WithUarchWithThread(dims, tiles) ==
  [Plain(dims, tiles) EXCEPT !.uarch = TRUE, !.thread = TRUE]

Compute(dims, tiles) == [Plain(dims, tiles) EXCEPT !.legacy = TRUE]

Interface ==
  ({Plain(d, t) : d \in 1 .. 6, t \in 0 .. 2} \ {Plain(1, 2)})
    \cup {WithThread(1, 0), WithThread(2, 0), WithThread(3, 1)}
    \cup {WithUarch(1, 0), WithUarch(2, 1), WithUarch(2, 2),
          WithUarch(3, 1), WithUarch(3, 2), WithUarch(4, 2)}
    \cup {WithUarchWithThread(2, 1), WithUarchWithThread(3, 1)}

Deprecated ==
  {Compute(1, 0), Compute(1, 1), Compute(2, 0), Compute(2, 2), Compute(3, 3), Compute(4, 4)}

ASSUME BuildsAssumption == Builds \subseteq {"portable", "fastpath", "shim"}
ASSUME SizeAssumption == M \in Nat /\ M > 1
ASSUME FunctionsAssumption == Functions \subseteq Interface \cup Deprecated
ASSUME ValuesAssumption ==
  Ranges \subseteq 0 .. M - 1 /\ Tiles \subseteq 1 .. M - 1 /\ Uarchs \subseteq Nat
ASSUME ThreadsAssumption == ThreadsCounts \subseteq Nat \ {0}
ASSUME CpuinfoAssumption == USE_CPUINFO \in BOOLEAN
ASSUME FpuAssumption == CallerFpus \subseteq BOOLEAN

VARIABLES
  pc,
  build,
  function, range, tile,        \* the call: a plain dimension has tile 1
  threads_count,                \* of the thread pool
  disable_denormals,            \* whether the flags ask for it
  default_uarch_index, max_uarch_index,
  linear_range,                 \* the range of the thread pool's operation
  thread, uarch_index,          \* who processes the item, and where
  position,                     \* the start of the item in each dimension
  linear,                       \* history: the number of the item
  denormals,                    \* the FPU of the calling thread handles denormals
  saved_denormals,              \* its saved_fpu_state
  caller_denormals              \* history: how the FPU was when it made the call

arguments ==
  <<range, tile, threads_count, default_uarch_index, max_uarch_index, caller_denormals>>
call == <<build, function, disable_denormals, arguments>>
item == <<thread, uarch_index, position, linear>>
fpu == <<denormals, saved_denormals>>
vars == <<pc, call, linear_range, item, fpu>>

-----------------------------------------------------------------------------
(* Mutant: the product does not wrap. *)
TimesUnbounded(a, b) == a * b

Times(a, b) == (a * b) % M
Plus(a, b) == (a + b) % M
Minus(a, b) == (a - b) % M

(* fxdiv_divide_size_t: quotient and remainder. *)
Split(x, divisor) == <<x \div divisor, x % divisor>>

(* Mutant: the partial tile is dropped. *)
divide_round_down(dividend, divisor) == dividend \div divisor

divide_round_up(dividend, divisor) ==
  IF dividend % divisor = 0 THEN dividend \div divisor
                            ELSE dividend \div divisor + 1

Dims == 1 .. function.dims
Tiled(d) == d > function.dims - function.tiles

TileRange(d) == divide_round_up(range[d], tile[d])

(* The length of a tile that the task is called with. *)
TileLength(d) ==
  LET left == Minus(range[d], position[d])
  IN IF left < tile[d] THEN left ELSE tile[d]

(* The product of the ranges, in tiles. *)
LinearRange ==
  LET product[d \in 0 .. function.dims] ==
        IF d = 0 THEN 1 ELSE Times(product[d - 1], TileRange(d))
  IN product[function.dims]

(* The guards of the sequential path. *)
AtMostOne(D) == \A d \in D : range[d] <= 1
OneTile(D) == \A d \in D : range[d] <= tile[d]

(* Mutant: the index is not compared with the maximum. *)
UarchUnchecked(current) == IF USE_CPUINFO THEN current ELSE default_uarch_index

(* The task of a function with uarch gets the microarchitecture that runs   *)
(* the calling thread, or the default, if it is not known or out of bounds. *)
Uarch(current) ==
  IF USE_CPUINFO /\ current <= max_uarch_index THEN current ELSE default_uarch_index

(* How the increments carry: a dimension moves on when every dimension     *)
(* inside of it has reached its end; a dimension at its end starts anew.   *)
(* The outermost dimension is not compared.                                *)
Advance(AtEnd(_)) ==
  [d \in Dims |->
     IF \E e \in Dims : e > d /\ ~AtEnd(e) THEN position[d]
     ELSE IF d > 1 /\ AtEnd(d) THEN 0
     ELSE Plus(position[d], tile[d])]

(* Mutant: a tiled index is compared like a plain one. *)
WalkAtEndByEquality(d) == Plus(position[d], tile[d]) = range[d]

(* The walk of a thread function compares a plain index with ==. *)
WalkAtEnd(d) ==
  IF Tiled(d) THEN Plus(position[d], tile[d]) >= range[d]
              ELSE Plus(position[d], 1) = range[d]

(* Mutants: the loop has no round for a partial tile; it ends by equality. *)
LoopAtFullTile(d) == ~(Plus(position[d], tile[d]) + tile[d] <= range[d])
LoopAtEndByEquality(d) == Plus(position[d], tile[d]) = range[d]

(* A for loop goes on while its index is less than the range. *)
LoopAtEnd(d) == ~(Plus(position[d], tile[d]) < range[d])

LoopsAreEmpty == \E d \in Dims : range[d] = 0

LoopsAreOver == LoopsAreEmpty \/ (\A d \in Dims : LoopAtEnd(d))

(* The shim creates a thread pool of one thread, the one of the caller. *)
AvailableThreadsCounts == IF build = "shim" THEN {1} ELSE ThreadsCounts

(* The user has called one of the functions. *)
Init ==
  /\ pc = "call"
  /\ build \in Builds
  /\ function \in Functions
  /\ range \in [1 .. function.dims -> Ranges]
  /\ tile \in {t \in [1 .. function.dims -> Tiles \cup {1}] :
                 \A d \in Dims : IF Tiled(d) THEN t[d] \in Tiles ELSE t[d] = 1}
  /\ threads_count \in AvailableThreadsCounts
  /\ disable_denormals \in (IF function.legacy THEN {FALSE} ELSE BOOLEAN)
  /\ default_uarch_index \in (IF function.uarch THEN Uarchs ELSE {0})
  /\ max_uarch_index \in (IF function.uarch THEN Uarchs ELSE {0})
  /\ linear_range = 0
  /\ thread = 0 /\ uarch_index = 0 /\ position = <<>> /\ linear = 0
  /\ denormals \in CallerFpus /\ saved_denormals = FALSE
  /\ caller_denormals = denormals

(* The thread t that processes an item, on whatever core it runs. *)
RunsOn(t) ==
  /\ thread' = IF function.thread THEN t ELSE 0
  /\ \E current \in Uarchs :
       uarch_index' = IF function.uarch THEN Uarch(current) ELSE 0

(* The loops begin. *)
BeginLoops ==
  /\ pc' = "sequential"
  /\ position' = [d \in Dims |-> 0] /\ linear' = 0
  /\ UNCHANGED linear_range

(* The sequential path saves the FPU state and disables denormals, if the   *)
(* flags ask for it, and restores the state under the same condition.       *)
DisableDenormals ==
  IF disable_denormals
  THEN /\ saved_denormals' = denormals
       /\ denormals' = FALSE
  ELSE UNCHANGED fpu

(* Mutant: denormals are enabled again, whatever state was saved. *)
EnableDenormals ==
  /\ denormals' = IF disable_denormals THEN TRUE ELSE denormals
  /\ UNCHANGED saved_denormals

RestoreDenormals ==
  /\ denormals' = IF disable_denormals THEN saved_denormals ELSE denormals
  /\ UNCHANGED saved_denormals

(* A function of the interface decides between the loops, which the calling *)
(* thread runs itself, and an operation of the thread pool.                 *)
Call(sequentially) ==
  /\ pc = "call" /\ build # "shim"
  /\ IF threads_count = 1 \/ sequentially
     THEN /\ BeginLoops
          /\ RunsOn(0)
          /\ DisableDenormals
     ELSE /\ pc' = "parallel"
          /\ linear_range' = LinearRange
          /\ UNCHANGED <<item, fpu>>
  /\ UNCHANGED call

pthreadpool_parallelize_1d ==
  function = Plain(1, 0) /\ Call(AtMostOne({1}))

pthreadpool_parallelize_1d_with_thread ==
  function = WithThread(1, 0) /\ Call(AtMostOne({1}))

pthreadpool_parallelize_1d_with_uarch ==
  function = WithUarch(1, 0) /\ Call(AtMostOne({1}))

pthreadpool_parallelize_1d_tile_1d ==
  function = Plain(1, 1) /\ Call(OneTile({1}))

pthreadpool_parallelize_2d ==
  function = Plain(2, 0) /\ Call(AtMostOne({1, 2}))

pthreadpool_parallelize_2d_with_thread ==
  function = WithThread(2, 0) /\ Call(AtMostOne({1, 2}))

pthreadpool_parallelize_2d_tile_1d ==
  function = Plain(2, 1) /\ Call(AtMostOne({1}) /\ OneTile({2}))

pthreadpool_parallelize_2d_tile_1d_with_uarch ==
  function = WithUarch(2, 1) /\ Call(AtMostOne({1}) /\ OneTile({2}))

pthreadpool_parallelize_2d_tile_1d_with_uarch_with_thread ==
  function = WithUarchWithThread(2, 1) /\ Call(AtMostOne({1}) /\ OneTile({2}))

pthreadpool_parallelize_2d_tile_2d ==
  function = Plain(2, 2) /\ Call(OneTile({1, 2}))

pthreadpool_parallelize_2d_tile_2d_with_uarch ==
  function = WithUarch(2, 2) /\ Call(OneTile({1, 2}))

pthreadpool_parallelize_3d ==
  function = Plain(3, 0) /\ Call(AtMostOne({1, 2, 3}))

pthreadpool_parallelize_3d_tile_1d ==
  function = Plain(3, 1) /\ Call(AtMostOne({1, 2}) /\ OneTile({3}))

pthreadpool_parallelize_3d_tile_1d_with_thread ==
  function = WithThread(3, 1) /\ Call(AtMostOne({1, 2}) /\ OneTile({3}))

pthreadpool_parallelize_3d_tile_1d_with_uarch ==
  function = WithUarch(3, 1) /\ Call(AtMostOne({1, 2}) /\ OneTile({3}))

pthreadpool_parallelize_3d_tile_1d_with_uarch_with_thread ==
  function = WithUarchWithThread(3, 1) /\ Call(AtMostOne({1, 2}) /\ OneTile({3}))

pthreadpool_parallelize_3d_tile_2d ==
  function = Plain(3, 2) /\ Call(AtMostOne({1}) /\ OneTile({2, 3}))

pthreadpool_parallelize_3d_tile_2d_with_uarch ==
  function = WithUarch(3, 2) /\ Call(AtMostOne({1}) /\ OneTile({2, 3}))

pthreadpool_parallelize_4d ==
  function = Plain(4, 0) /\ Call(AtMostOne({1, 2, 3, 4}))

pthreadpool_parallelize_4d_tile_1d ==
  function = Plain(4, 1) /\ Call(AtMostOne({1, 2, 3}) /\ OneTile({4}))

pthreadpool_parallelize_4d_tile_2d ==
  function = Plain(4, 2) /\ Call(AtMostOne({1, 2}) /\ OneTile({3, 4}))

pthreadpool_parallelize_4d_tile_2d_with_uarch ==
  function = WithUarch(4, 2) /\ Call(AtMostOne({1, 2}) /\ OneTile({3, 4}))

pthreadpool_parallelize_5d ==
  function = Plain(5, 0) /\ Call(AtMostOne({1, 2, 3, 4, 5}))

pthreadpool_parallelize_5d_tile_1d ==
  function = Plain(5, 1) /\ Call(AtMostOne({1, 2, 3, 4}) /\ OneTile({5}))

pthreadpool_parallelize_5d_tile_2d ==
  function = Plain(5, 2) /\ Call(AtMostOne({1, 2, 3}) /\ OneTile({4, 5}))

pthreadpool_parallelize_6d ==
  function = Plain(6, 0) /\ Call(AtMostOne({1, 2, 3, 4, 5, 6}))

pthreadpool_parallelize_6d_tile_1d ==
  function = Plain(6, 1) /\ Call(AtMostOne({1, 2, 3, 4, 5}) /\ OneTile({6}))

pthreadpool_parallelize_6d_tile_2d ==
  function = Plain(6, 2) /\ Call(AtMostOne({1, 2, 3, 4}) /\ OneTile({5, 6}))

-----------------------------------------------------------------------------
(* The functions of shim.c: the loops, whatever the flags. *)
ShimCall(dims) ==
  /\ pc = "call" /\ build = "shim"
  /\ ~function.legacy /\ function.dims = dims
  /\ BeginLoops
  /\ thread' = 0
  /\ uarch_index' = default_uarch_index
  /\ UNCHANGED <<call, fpu>>

shim_parallelize_1d == ShimCall(1)
shim_parallelize_2d == ShimCall(2)
shim_parallelize_3d == ShimCall(3)
shim_parallelize_4d == ShimCall(4)
shim_parallelize_5d == ShimCall(5)
shim_parallelize_6d == ShimCall(6)

-----------------------------------------------------------------------------
(* The functions of legacy-api.c.  Up to two dimensions they call the one of *)
(* the interface, without flags; ...                                         *)
Forward(to) ==
  /\ pc = "call" /\ function = [to EXCEPT !.legacy = TRUE]
  /\ function' = to
  /\ disable_denormals' = FALSE
  /\ UNCHANGED <<pc, build, arguments, linear_range, item, fpu>>

pthreadpool_compute_1d == Forward(Plain(1, 0))
pthreadpool_compute_1d_tiled == Forward(Plain(1, 1))
pthreadpool_compute_2d == Forward(Plain(2, 0))
pthreadpool_compute_2d_tiled == Forward(Plain(2, 2))

(* ... with three or four they have loops of their own, or parallelize a     *)
(* linear range in one dimension, which is not worth the thread pool if it   *)
(* is not larger than 1.                                                     *)
Linearize(dims) ==
  /\ pc = "call" /\ function = Compute(dims, dims)
  /\ IF threads_count = 1
     THEN /\ BeginLoops
          /\ UNCHANGED <<thread, uarch_index>>
     ELSE /\ pc' = IF LinearRange <= 1 THEN "linear" ELSE "parallel"
          /\ linear_range' = LinearRange
          /\ UNCHANGED item
  /\ UNCHANGED <<call, fpu>>

pthreadpool_compute_3d_tiled == Linearize(3)
pthreadpool_compute_4d_tiled == Linearize(4)

-----------------------------------------------------------------------------
(* A thread function divides a linear index, that of the start of its own  *)
(* range or of an item it has stolen, into the indices of the item.        *)
TakeItem(x, index) ==
  /\ position' = [d \in Dims |-> Times(index[d], tile[d])]
  /\ linear' = x
  /\ \E t \in 0 .. threads_count - 1 : RunsOn(t)
  /\ pc' = "walk"
  /\ UNCHANGED <<call, linear_range, fpu>>

thread_parallelize_1d(x) ==
  /\ function = Plain(1, 0)
  /\ TakeItem(x, <<x>>)

thread_parallelize_1d_with_thread(x) ==
  /\ function = WithThread(1, 0)
  /\ TakeItem(x, <<x>>)

thread_parallelize_1d_with_uarch(x) ==
  /\ function = WithUarch(1, 0)
  /\ TakeItem(x, <<x>>)

thread_parallelize_1d_tile_1d(x) ==
  /\ function = Plain(1, 1)
  /\ TakeItem(x, <<x>>)

thread_parallelize_2d(x) ==
  /\ function = Plain(2, 0)
  /\ TakeItem(x, Split(x, range[2]))

thread_parallelize_2d_with_thread(x) ==
  /\ function = WithThread(2, 0)
  /\ TakeItem(x, Split(x, range[2]))

thread_parallelize_2d_tile_1d(x) ==
  /\ function = Plain(2, 1)
  /\ TakeItem(x, Split(x, TileRange(2)))

thread_parallelize_2d_tile_1d_with_uarch(x) ==
  /\ function = WithUarch(2, 1)
  /\ TakeItem(x, Split(x, TileRange(2)))

thread_parallelize_2d_tile_1d_with_uarch_with_thread(x) ==
  /\ function = WithUarchWithThread(2, 1)
  /\ TakeItem(x, Split(x, TileRange(2)))

thread_parallelize_2d_tile_2d(x) ==
  /\ function = Plain(2, 2)
  /\ TakeItem(x, Split(x, TileRange(2)))

thread_parallelize_2d_tile_2d_with_uarch(x) ==
  /\ function = WithUarch(2, 2)
  /\ TakeItem(x, Split(x, TileRange(2)))

thread_parallelize_3d(x) ==
  /\ function = Plain(3, 0)
  /\ LET ij_k == Split(x, range[3])
     IN TakeItem(x, Split(ij_k[1], range[2]) \o <<ij_k[2]>>)

thread_parallelize_3d_tile_1d(x) ==
  /\ function = Plain(3, 1)
  /\ LET ij_k == Split(x, TileRange(3))
     IN TakeItem(x, Split(ij_k[1], range[2]) \o <<ij_k[2]>>)

thread_parallelize_3d_tile_1d_with_thread(x) ==
  /\ function = WithThread(3, 1)
  /\ LET ij_k == Split(x, TileRange(3))
     IN TakeItem(x, Split(ij_k[1], range[2]) \o <<ij_k[2]>>)

thread_parallelize_3d_tile_1d_with_uarch(x) ==
  /\ function = WithUarch(3, 1)
  /\ LET ij_k == Split(x, TileRange(3))
     IN TakeItem(x, Split(ij_k[1], range[2]) \o <<ij_k[2]>>)

thread_parallelize_3d_tile_1d_with_uarch_with_thread(x) ==
  /\ function = WithUarchWithThread(3, 1)
  /\ LET ij_k == Split(x, TileRange(3))
     IN TakeItem(x, Split(ij_k[1], range[2]) \o <<ij_k[2]>>)

thread_parallelize_3d_tile_2d(x) ==
  /\ function = Plain(3, 2)
  /\ LET ij_k == Split(x, TileRange(3))
     IN TakeItem(x, Split(ij_k[1], TileRange(2)) \o <<ij_k[2]>>)

thread_parallelize_3d_tile_2d_with_uarch(x) ==
  /\ function = WithUarch(3, 2)
  /\ LET ij_k == Split(x, TileRange(3))
     IN TakeItem(x, Split(ij_k[1], TileRange(2)) \o <<ij_k[2]>>)

thread_parallelize_4d(x) ==
  /\ function = Plain(4, 0)
  /\ LET ij_kl == Split(x, Times(range[3], range[4]))
     IN TakeItem(x, Split(ij_kl[1], range[2]) \o Split(ij_kl[2], range[4]))

thread_parallelize_4d_tile_1d(x) ==
  /\ function = Plain(4, 1)
  /\ LET ij_kl == Split(x, Times(range[3], TileRange(4)))
     IN TakeItem(x, Split(ij_kl[1], range[2]) \o Split(ij_kl[2], TileRange(4)))

(* Mutant: the first division is by a range in items, not in tiles. *)
thread_parallelize_4d_tile_2d_untiled(x) ==
  /\ function = Plain(4, 2)
  /\ LET ij_kl == Split(x, Times(TileRange(3), range[4]))
     IN TakeItem(x, Split(ij_kl[1], range[2]) \o Split(ij_kl[2], TileRange(4)))

thread_parallelize_4d_tile_2d(x) ==
  /\ function = Plain(4, 2)
  /\ LET ij_kl == Split(x, Times(TileRange(3), TileRange(4)))
     IN TakeItem(x, Split(ij_kl[1], range[2]) \o Split(ij_kl[2], TileRange(4)))

thread_parallelize_4d_tile_2d_with_uarch(x) ==
  /\ function = WithUarch(4, 2)
  /\ LET ij_kl == Split(x, Times(TileRange(3), TileRange(4)))
     IN TakeItem(x, Split(ij_kl[1], range[2]) \o Split(ij_kl[2], TileRange(4)))

thread_parallelize_5d(x) ==
  /\ function = Plain(5, 0)
  /\ LET ijk_lm == Split(x, Times(range[4], range[5]))
         ij_k == Split(ijk_lm[1], range[3])
     IN TakeItem(x, Split(ij_k[1], range[2]) \o <<ij_k[2]>> \o Split(ijk_lm[2], range[5]))

thread_parallelize_5d_tile_1d(x) ==
  /\ function = Plain(5, 1)
  /\ LET ijkl_m == Split(x, TileRange(5))
         ij_kl == Split(ijkl_m[1], Times(range[3], range[4]))
     IN TakeItem(x, Split(ij_kl[1], range[2]) \o Split(ij_kl[2], range[4]) \o <<ijkl_m[2]>>)

thread_parallelize_5d_tile_2d(x) ==
  /\ function = Plain(5, 2)
  /\ LET ijk_lm == Split(x, Times(TileRange(4), TileRange(5)))
         ij_k == Split(ijk_lm[1], range[3])
     IN TakeItem(x, Split(ij_k[1], range[2]) \o <<ij_k[2]>> \o Split(ijk_lm[2], TileRange(5)))

thread_parallelize_6d(x) ==
  /\ function = Plain(6, 0)
  /\ LET ijk_lmn == Split(x, Times(Times(range[4], range[5]), range[6]))
         ij_k == Split(ijk_lmn[1], range[3])
         lm_n == Split(ijk_lmn[2], range[6])
     IN TakeItem(x, Split(ij_k[1], range[2]) \o <<ij_k[2]>> \o Split(lm_n[1], range[5]) \o <<lm_n[2]>>)

thread_parallelize_6d_tile_1d(x) ==
  /\ function = Plain(6, 1)
  /\ LET ijk_lmn == Split(x, Times(Times(range[4], range[5]), TileRange(6)))
         ij_k == Split(ijk_lmn[1], range[3])
         lm_n == Split(ijk_lmn[2], TileRange(6))
     IN TakeItem(x, Split(ij_k[1], range[2]) \o <<ij_k[2]>> \o Split(lm_n[1], range[5]) \o <<lm_n[2]>>)

thread_parallelize_6d_tile_2d(x) ==
  /\ function = Plain(6, 2)
  /\ LET ijkl_mn == Split(x, Times(TileRange(5), TileRange(6)))
         ij_kl == Split(ijkl_mn[1], Times(range[3], range[4]))
     IN TakeItem(x, Split(ij_kl[1], range[2]) \o Split(ij_kl[2], range[4]) \o Split(ijkl_mn[2], TileRange(6)))

(* The task of a deprecated function of three or four dimensions divides *)
(* every linear index it gets.                                           *)
compute_3d_tiled(x) ==
  /\ function = Compute(3, 3)
  /\ LET ij_k == Split(x, TileRange(3))
     IN TakeItem(x, Split(ij_k[1], TileRange(2)) \o <<ij_k[2]>>)

compute_4d_tiled(x) ==
  /\ function = Compute(4, 4)
  /\ LET ij_kl == Split(x, Times(TileRange(3), TileRange(4)))
     IN TakeItem(x, Split(ij_kl[1], TileRange(2)) \o Split(ij_kl[2], TileRange(4)))

-----------------------------------------------------------------------------
(* The thread functions of fastpath.c differ from those of portable-api.c in *)
(* how they claim an item; what they make of it is the same.                 *)

(* What is compared with the threshold: the linear range, except that one    *)
(* function compares its range in items.                                     *)
ComparedRange == IF function = Plain(1, 1) THEN range[1] ELSE linear_range

UsesFastpath == build = "fastpath" /\ ComparedRange < M - threads_count

pthreadpool_thread_parallelize_1d_fastpath(x) == thread_parallelize_1d(x)
pthreadpool_thread_parallelize_1d_with_thread_fastpath(x) == thread_parallelize_1d_with_thread(x)
pthreadpool_thread_parallelize_1d_with_uarch_fastpath(x) == thread_parallelize_1d_with_uarch(x)
pthreadpool_thread_parallelize_1d_tile_1d_fastpath(x) == thread_parallelize_1d_tile_1d(x)
pthreadpool_thread_parallelize_2d_fastpath(x) == thread_parallelize_2d(x)
pthreadpool_thread_parallelize_2d_with_thread_fastpath(x) == thread_parallelize_2d_with_thread(x)
pthreadpool_thread_parallelize_2d_tile_1d_fastpath(x) == thread_parallelize_2d_tile_1d(x)
pthreadpool_thread_parallelize_2d_tile_1d_with_uarch_fastpath(x) == thread_parallelize_2d_tile_1d_with_uarch(x)
pthreadpool_thread_parallelize_2d_tile_1d_with_uarch_with_thread_fastpath(x) == thread_parallelize_2d_tile_1d_with_uarch_with_thread(x)
pthreadpool_thread_parallelize_2d_tile_2d_fastpath(x) == thread_parallelize_2d_tile_2d(x)
pthreadpool_thread_parallelize_2d_tile_2d_with_uarch_fastpath(x) == thread_parallelize_2d_tile_2d_with_uarch(x)
pthreadpool_thread_parallelize_3d_fastpath(x) == thread_parallelize_3d(x)
pthreadpool_thread_parallelize_3d_tile_1d_fastpath(x) == thread_parallelize_3d_tile_1d(x)
pthreadpool_thread_parallelize_3d_tile_1d_with_thread_fastpath(x) == thread_parallelize_3d_tile_1d_with_thread(x)
pthreadpool_thread_parallelize_3d_tile_1d_with_uarch_fastpath(x) == thread_parallelize_3d_tile_1d_with_uarch(x)
pthreadpool_thread_parallelize_3d_tile_1d_with_uarch_with_thread_fastpath(x) == thread_parallelize_3d_tile_1d_with_uarch_with_thread(x)
pthreadpool_thread_parallelize_3d_tile_2d_fastpath(x) == thread_parallelize_3d_tile_2d(x)
pthreadpool_thread_parallelize_3d_tile_2d_with_uarch_fastpath(x) == thread_parallelize_3d_tile_2d_with_uarch(x)
pthreadpool_thread_parallelize_4d_fastpath(x) == thread_parallelize_4d(x)
pthreadpool_thread_parallelize_4d_tile_1d_fastpath(x) == thread_parallelize_4d_tile_1d(x)
pthreadpool_thread_parallelize_4d_tile_2d_fastpath(x) == thread_parallelize_4d_tile_2d(x)
pthreadpool_thread_parallelize_4d_tile_2d_with_uarch_fastpath(x) == thread_parallelize_4d_tile_2d_with_uarch(x)
pthreadpool_thread_parallelize_5d_fastpath(x) == thread_parallelize_5d(x)
pthreadpool_thread_parallelize_5d_tile_1d_fastpath(x) == thread_parallelize_5d_tile_1d(x)
pthreadpool_thread_parallelize_5d_tile_2d_fastpath(x) == thread_parallelize_5d_tile_2d(x)
pthreadpool_thread_parallelize_6d_fastpath(x) == thread_parallelize_6d(x)
pthreadpool_thread_parallelize_6d_tile_1d_fastpath(x) == thread_parallelize_6d_tile_1d(x)
pthreadpool_thread_parallelize_6d_tile_2d_fastpath(x) == thread_parallelize_6d_tile_2d(x)

-----------------------------------------------------------------------------
(* The thread goes on to the next item of its own range. *)
WalkOn ==
  /\ pc = "walk" /\ ~function.legacy
  /\ linear + 1 < linear_range
  /\ position' = Advance(WalkAtEnd)
  /\ linear' = linear + 1
  /\ UNCHANGED <<pc, call, linear_range, thread, uarch_index, fpu>>

(* The nested loops of the sequential path, from one item to the next.  The *)
(* number of the item is not counted beyond M.                              *)
LoopOn ==
  /\ pc = "sequential"
  /\ ~LoopsAreOver
  /\ position' = Advance(LoopAtEnd)
  /\ linear' = IF linear < M THEN linear + 1 ELSE M
  /\ UNCHANGED <<pc, call, linear_range, thread, uarch_index, fpu>>

(* The call returns.  The sequential path restores the FPU state; the shim   *)
(* has no code for it, and the deprecated functions have no flags.           *)
Return ==
  /\ \/ pc \in {"parallel", "linear"} /\ linear_range = 0
     \/ pc = "walk" /\ linear + 1 = linear_range
     \/ pc = "sequential" /\ LoopsAreOver
  /\ pc' = "returned"
  /\ IF pc = "sequential" /\ build # "shim" THEN RestoreDenormals ELSE UNCHANGED fpu
  /\ UNCHANGED <<call, linear_range, item>>

ParallelizeCall ==
  \/ pthreadpool_parallelize_1d \/ pthreadpool_parallelize_1d_with_thread
  \/ pthreadpool_parallelize_1d_with_uarch
  \/ pthreadpool_parallelize_1d_tile_1d \/ pthreadpool_parallelize_2d
  \/ pthreadpool_parallelize_2d_with_thread
  \/ pthreadpool_parallelize_2d_tile_1d
  \/ pthreadpool_parallelize_2d_tile_1d_with_uarch
  \/ pthreadpool_parallelize_2d_tile_1d_with_uarch_with_thread
  \/ pthreadpool_parallelize_2d_tile_2d
  \/ pthreadpool_parallelize_2d_tile_2d_with_uarch
  \/ pthreadpool_parallelize_3d \/ pthreadpool_parallelize_3d_tile_1d
  \/ pthreadpool_parallelize_3d_tile_1d_with_thread
  \/ pthreadpool_parallelize_3d_tile_1d_with_uarch
  \/ pthreadpool_parallelize_3d_tile_1d_with_uarch_with_thread
  \/ pthreadpool_parallelize_3d_tile_2d
  \/ pthreadpool_parallelize_3d_tile_2d_with_uarch
  \/ pthreadpool_parallelize_4d \/ pthreadpool_parallelize_4d_tile_1d
  \/ pthreadpool_parallelize_4d_tile_2d
  \/ pthreadpool_parallelize_4d_tile_2d_with_uarch
  \/ pthreadpool_parallelize_5d \/ pthreadpool_parallelize_5d_tile_1d
  \/ pthreadpool_parallelize_5d_tile_2d \/ pthreadpool_parallelize_6d
  \/ pthreadpool_parallelize_6d_tile_1d \/ pthreadpool_parallelize_6d_tile_2d

ThreadFunction(x) ==
  \/ thread_parallelize_1d(x) \/ thread_parallelize_1d_with_thread(x)
  \/ thread_parallelize_1d_with_uarch(x) \/ thread_parallelize_1d_tile_1d(x)
  \/ thread_parallelize_2d(x) \/ thread_parallelize_2d_with_thread(x)
  \/ thread_parallelize_2d_tile_1d(x)
  \/ thread_parallelize_2d_tile_1d_with_uarch(x)
  \/ thread_parallelize_2d_tile_1d_with_uarch_with_thread(x)
  \/ thread_parallelize_2d_tile_2d(x)
  \/ thread_parallelize_2d_tile_2d_with_uarch(x) \/ thread_parallelize_3d(x)
  \/ thread_parallelize_3d_tile_1d(x)
  \/ thread_parallelize_3d_tile_1d_with_thread(x)
  \/ thread_parallelize_3d_tile_1d_with_uarch(x)
  \/ thread_parallelize_3d_tile_1d_with_uarch_with_thread(x)
  \/ thread_parallelize_3d_tile_2d(x)
  \/ thread_parallelize_3d_tile_2d_with_uarch(x) \/ thread_parallelize_4d(x)
  \/ thread_parallelize_4d_tile_1d(x) \/ thread_parallelize_4d_tile_2d(x)
  \/ thread_parallelize_4d_tile_2d_with_uarch(x) \/ thread_parallelize_5d(x)
  \/ thread_parallelize_5d_tile_1d(x) \/ thread_parallelize_5d_tile_2d(x)
  \/ thread_parallelize_6d(x) \/ thread_parallelize_6d_tile_1d(x)
  \/ thread_parallelize_6d_tile_2d(x)

ShimFunction ==
  \/ shim_parallelize_1d \/ shim_parallelize_2d \/ shim_parallelize_3d
  \/ shim_parallelize_4d \/ shim_parallelize_5d \/ shim_parallelize_6d

ComputeCall ==
  \/ pthreadpool_compute_1d \/ pthreadpool_compute_1d_tiled
  \/ pthreadpool_compute_2d \/ pthreadpool_compute_2d_tiled
  \/ pthreadpool_compute_3d_tiled \/ pthreadpool_compute_4d_tiled

ComputeTask(x) == compute_3d_tiled(x) \/ compute_4d_tiled(x)

FastPathFunction(x) ==
  \/ pthreadpool_thread_parallelize_1d_fastpath(x)
  \/ pthreadpool_thread_parallelize_1d_with_thread_fastpath(x)
  \/ pthreadpool_thread_parallelize_1d_with_uarch_fastpath(x)
  \/ pthreadpool_thread_parallelize_1d_tile_1d_fastpath(x)
  \/ pthreadpool_thread_parallelize_2d_fastpath(x)
  \/ pthreadpool_thread_parallelize_2d_with_thread_fastpath(x)
  \/ pthreadpool_thread_parallelize_2d_tile_1d_fastpath(x)
  \/ pthreadpool_thread_parallelize_2d_tile_1d_with_uarch_fastpath(x)
  \/ pthreadpool_thread_parallelize_2d_tile_1d_with_uarch_with_thread_fastpath(x)
  \/ pthreadpool_thread_parallelize_2d_tile_2d_fastpath(x)
  \/ pthreadpool_thread_parallelize_2d_tile_2d_with_uarch_fastpath(x)
  \/ pthreadpool_thread_parallelize_3d_fastpath(x)
  \/ pthreadpool_thread_parallelize_3d_tile_1d_fastpath(x)
  \/ pthreadpool_thread_parallelize_3d_tile_1d_with_thread_fastpath(x)
  \/ pthreadpool_thread_parallelize_3d_tile_1d_with_uarch_fastpath(x)
  \/ pthreadpool_thread_parallelize_3d_tile_1d_with_uarch_with_thread_fastpath(x)
  \/ pthreadpool_thread_parallelize_3d_tile_2d_fastpath(x)
  \/ pthreadpool_thread_parallelize_3d_tile_2d_with_uarch_fastpath(x)
  \/ pthreadpool_thread_parallelize_4d_fastpath(x)
  \/ pthreadpool_thread_parallelize_4d_tile_1d_fastpath(x)
  \/ pthreadpool_thread_parallelize_4d_tile_2d_fastpath(x)
  \/ pthreadpool_thread_parallelize_4d_tile_2d_with_uarch_fastpath(x)
  \/ pthreadpool_thread_parallelize_5d_fastpath(x)
  \/ pthreadpool_thread_parallelize_5d_tile_1d_fastpath(x)
  \/ pthreadpool_thread_parallelize_5d_tile_2d_fastpath(x)
  \/ pthreadpool_thread_parallelize_6d_fastpath(x)
  \/ pthreadpool_thread_parallelize_6d_tile_1d_fastpath(x)
  \/ pthreadpool_thread_parallelize_6d_tile_2d_fastpath(x)

Next ==
  \/ ParallelizeCall \/ ShimFunction \/ ComputeCall
  \/ /\ pc = "parallel"
     /\ \E x \in 0 .. linear_range - 1 :
          \/ ~UsesFastpath /\ ThreadFunction(x)
          \/ UsesFastpath /\ FastPathFunction(x)
  \/ /\ pc \in {"parallel", "linear"}
     /\ \E x \in 0 .. linear_range - 1 : ComputeTask(x)
  \/ pc = "walk" /\ linear + 1 < linear_range /\ ComputeTask(linear + 1)
  \/ WalkOn \/ LoopOn \/ Return

Spec == Init /\ [][Next]_vars

(* The threads that work on the call are scheduled. *)
FairSpec == Spec /\ WF_vars(Next)

-----------------------------------------------------------------------------
(* Every variable has a value its C type can hold. *)
TypeOK ==
  /\ pc \in {"call", "sequential", "parallel", "linear", "walk", "returned"}
  /\ build \in {"portable", "fastpath", "shim"}
  /\ function \in Interface \cup Deprecated
  /\ range \in [Dims -> 0 .. M - 1] /\ tile \in [Dims -> 1 .. M - 1]
  /\ threads_count \in Nat \ {0} /\ disable_denormals \in BOOLEAN
  /\ default_uarch_index \in Nat /\ max_uarch_index \in Nat
  /\ linear_range \in 0 .. M - 1
  /\ thread \in Nat /\ uarch_index \in Nat
  /\ pc \in {"sequential", "walk"} => position \in [Dims -> 0 .. M - 1]
  /\ linear \in 0 .. M
  /\ denormals \in BOOLEAN /\ saved_denormals \in BOOLEAN /\ caller_denormals \in BOOLEAN

(* How many values the index of the d-th of the nested loops takes. *)
LoopValues(d) == Cardinality({v \in 0 .. range[d] - 1 : v % tile[d] = 0})

(* How many items the d-th loop and those inside of it have together. *)
ItemsFrom(d) ==
  LET product[e \in d .. function.dims + 1] ==
        IF e > function.dims THEN 1 ELSE LoopValues(e) * product[e + 1]
  IN product[d]

(* The number of items, and every range rounded up to tiles, is a size_t. *)
Representable ==
  /\ ItemsFrom(1) < M
  /\ \A d \in Dims : TileRange(d) * tile[d] < M

(* The x-th item of the nested loops that pthreadpool.h shows. *)
LoopItem(x) ==
  [d \in Dims |-> ((x % ItemsFrom(d)) \div ItemsFrom(d + 1)) * tile[d]]

(* Whoever processes the x-th item, by division of the linear index, by a  *)
(* walk from an earlier item or in the nested loops, calls the task with   *)
(* the x-th item of those loops, and with as much of its tiles as lies in  *)
(* the range: the thread that walks and the thieves that divide never mean *)
(* different items by the same linear index.                               *)
ItemIsTheLoops ==
  pc \in {"sequential", "walk"} /\ Representable /\ ~LoopsAreEmpty
    => /\ position = LoopItem(linear)
       /\ \A d \in Dims :
            {v \in 0 .. range[d] - 1 : v \div tile[d] = position[d] \div tile[d]}
              = position[d] .. position[d] + TileLength(d) - 1

(* The operation of the thread pool has as many linear indices, and the    *)
(* sequential path as many rounds, as the nested loops have items.         *)
NothingIsLeftOut ==
  Representable =>
    /\ pc \in {"parallel", "linear"} => linear_range = ItemsFrom(1)
    /\ pc = "sequential" /\ LoopsAreOver /\ ~LoopsAreEmpty => linear + 1 = ItemsFrom(1)

(* A task is called with the number of a thread of the pool, and with a    *)
(* microarchitecture index that its caller can expect.                     *)
IdsAreExpected ==
  pc \in {"sequential", "walk"} =>
    /\ thread < threads_count
    /\ uarch_index <= max_uarch_index \/ uarch_index = default_uarch_index

(* Tasks of the sequential path run with denormals disabled if the flags   *)
(* say so or their caller has disabled them himself, and only then; and    *)
(* the loops return with the FPU in the state in which they found it, in   *)
(* whatever build and through whichever function they are called: the shim *)
(* does not look at the flags, the deprecated functions have none.  The    *)
(* FPU in an operation of the thread pool is the business of the backends. *)
SequentialDenormals ==
  pc \in {"call", "sequential", "returned"} =>
    denormals = (caller_denormals /\ ~(pc = "sequential" /\ disable_denormals /\ build # "shim"))

(* pthreadpool_parallelize asserts that the linear range is larger than 1. *)
EnoughItems == pc = "parallel" => linear_range > 1

(* A call returns, its loops end. *)
CallReturns == (pc = "call" /\ Representable) ~> pc = "returned"
=============================================================================
