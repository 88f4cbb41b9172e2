------------------------ MODULE StreamingUnitsProofs ------------------------
(***************************************************************************)
(* Pooling and activation for every size of plane, window and RAM, every   *)
(* number of channels, images and elements, every sequence of operations   *)
(* and a reset on any clock: the tables are complete before an element is  *)
(* looked up, nothing outside the result is written, and no pooled word is *)
(* made of too few samples or too many.                                    *)
(***************************************************************************)
EXTENDS StreamingUnits, TLAPS

(* A unit that works is the one selected, under the top level's eyes. *)
Control ==
  /\ top_state \in {"IDLE", "POOL_OP", "ACT_OP", "DONE_ST"}
  /\ selected_operation \in {"CONV", "POOL", "ACT"}
  /\ pool_state \in {"IDLE", "SETUP_DIMS", "POOL_COMPUTE", "WRITE_OUTPUT", "DONE_ST"}
  /\ act_state \in {"IDLE", "INIT_LUT", "PROCESSING", "PIPELINE_FLUSH", "DONE_ST"}
  /\ pool_state # "IDLE" <=> top_state = "POOL_OP"
  /\ act_state # "IDLE" <=> top_state = "ACT_OP"
  /\ top_state = "POOL_OP" => selected_operation = "POOL"
  /\ top_state = "ACT_OP" => selected_operation = "ACT"

(* The entries of the tables below the counter are written, and all of them
   once the tables are initialised.                                        *)
Tables ==
  /\ lut_init_counter \in 0 .. LutSize /\ lut_initialized \in BOOLEAN
  /\ lut \subseteq 0 .. LutSize - 1
  /\ 0 .. lut_init_counter - 1 \subseteq lut
  /\ lut_initialized => lut = 0 .. LutSize - 1
  /\ act_state \in {"PROCESSING", "PIPELINE_FLUSH", "DONE_ST"} => lut_initialized

-----------------------------------------------------------------------------
(* Each edge keeps the units apart. *)
LEMMA ControlInductive == Control /\ [Next]_vars => Control'
<1> SUFFICES ASSUME Control, [Next]_vars PROVE Control'
  OBVIOUS
<1>1. CASE LaunchPooling
  BY <1>1 DEF Control, LaunchPooling, Launch
<1>2. CASE LaunchActivation
  BY <1>2 DEF Control, LaunchActivation, Launch
<1>3. CASE SetupDims
  BY <1>3 DEF Control, SetupDims, ActIdle, top
<1>4. CASE PoolCompute
  BY <1>4 DEF Control, PoolCompute, ActIdle, top
<1>5. CASE WriteOutput
  BY <1>5 DEF Control, WriteOutput, ActIdle, top
<1>6. CASE FinishPooling
  BY <1>6 DEF Control, FinishPooling, ActIdle
<1>7. CASE InitLut
  BY <1>7 DEF Control, InitLut, ActEdge, PoolIdle, top
<1>8. CASE Process
  BY <1>8 DEF Control, Process, ActEdge, PoolIdle, top
<1>9. CASE PipelineFlush
  BY <1>9 DEF Control, PipelineFlush, ActEdge, PoolIdle, top
<1>10. CASE FinishActivation
  BY <1>10 DEF Control, FinishActivation, ActEdge, PoolIdle
<1>11. CASE Settle
  BY <1>11 DEF Control, Settle, PoolIdle, ActIdle
<1>12. CASE Reset
  BY <1>12 DEF Control, Reset
<1>13. CASE UNCHANGED vars
  BY <1>13 DEF Control, vars, top, pool, act
<1> QED
  BY <1>1, <1>2, <1>3, <1>4, <1>5, <1>6, <1>7, <1>8, <1>9, <1>10, <1>11, <1>12, <1>13
  DEF Next, Clock

(* The tables are written from the first entry to the last, and not left
   before. *)
LEMMA TablesInductive == Control /\ Tables /\ [Next]_vars => Tables'
<1> SUFFICES ASSUME Control, Tables, [Next]_vars PROVE Tables'
  OBVIOUS
<1>1. LutSize \in Nat
  BY SizeAssumption
<1>2. ASSUME lut_init_counter' = 0, UNCHANGED <<lut_initialized, lut>>,
             act_state' \in {"PROCESSING", "PIPELINE_FLUSH", "DONE_ST"} => lut_initialized
      PROVE  Tables'
  BY <1>1, <1>2 DEF Tables
<1>3. ASSUME UNCHANGED tabs,
             act_state' \in {"PROCESSING", "PIPELINE_FLUSH", "DONE_ST"} => lut_initialized
      PROVE  Tables'
  BY <1>3 DEF Tables, tabs
<1>4. CASE LaunchPooling
  BY <1>2, <1>4 DEF Control, Tables, LaunchPooling, Launch
<1>5. CASE LaunchActivation
  BY <1>2, <1>5 DEF LaunchActivation, Launch
<1>6. CASE SetupDims \/ PoolCompute \/ WriteOutput \/ FinishPooling \/ Settle
  <2>1. ActIdle
    BY <1>6 DEF SetupDims, PoolCompute, WriteOutput, FinishPooling, Settle
  <2> QED
    BY <1>2, <2>1 DEF Tables, ActIdle
<1>7. CASE InitLut
  <2>1. CASE lut_init_counter < LutSize
    <3>1. /\ lut_init_counter' = lut_init_counter + 1
          /\ lut' = lut \cup {lut_init_counter} /\ lut_initialized' = lut_initialized
          /\ act_state' = "INIT_LUT"
      BY <1>1, <1>7, <2>1 DEF InitLut, LutIsFull, Tables
    <3>2. 0 .. lut_init_counter' - 1 \subseteq lut'
      BY <1>1, <2>1, <3>1 DEF Tables
    <3>3. lut' \subseteq 0 .. LutSize - 1
      BY <1>1, <2>1, <3>1 DEF Tables
    <3>4. lut_initialized' => lut' = 0 .. LutSize - 1
      BY <1>1, <3>1, <3>3 DEF Tables
    <3> QED
      BY <1>1, <2>1, <3>1, <3>2, <3>3, <3>4 DEF Tables
  <2>2. CASE ~(lut_init_counter < LutSize)
    <3>1. lut_init_counter >= LutSize /\ lut_init_counter = LutSize
      BY <1>1, <2>2 DEF Tables
    <3>2. UNCHANGED <<lut_init_counter, lut>>
      BY <1>7, <2>2 DEF InitLut
    <3>3. lut_initialized' \in BOOLEAN
      BY <1>7 DEF InitLut
    <3>4. lut = 0 .. LutSize - 1
      BY <3>1 DEF Tables
    <3>5. lut_initialized'
      BY <1>7, <3>1, Zenon DEF InitLut
    <3> QED
      BY <1>1, <3>2, <3>3, <3>4, <3>5 DEF Tables
  <2> QED
    BY <2>1, <2>2
<1>8. CASE Process
  BY <1>3, <1>8 DEF Process, Tables
<1>9. CASE PipelineFlush
  BY <1>3, <1>9 DEF PipelineFlush, Tables
<1>10. CASE FinishActivation
  BY <1>3, <1>10 DEF FinishActivation
<1>11. CASE Reset
  <2>1. lut_init_counter' = 0 /\ ~lut_initialized' /\ act_state' = "IDLE" /\ lut' = lut
    BY <1>11 DEF Reset
  <2>2. lut_initialized' \in BOOLEAN
    BY <1>11 DEF Reset
  <2> QED
    BY <1>1, <2>1, <2>2 DEF Tables
<1>12. CASE UNCHANGED vars
  BY <1>12 DEF vars, act, tabs, Tables
<1> QED
  BY <1>4, <1>5, <1>6, <1>7, <1>8, <1>9, <1>10, <1>11, <1>12 DEF Next, Clock

LEMMA InitiallyTables == Init => Control /\ Tables
<1> SUFFICES ASSUME Init PROVE Control /\ Tables
  OBVIOUS
<1>1. LutSize \in Nat
  BY SizeAssumption
<1>2. Control
  BY DEF Init, Control
<1>3. Tables
  <2>1. /\ lut_init_counter = 0 /\ ~lut_initialized /\ lut_initialized \in BOOLEAN
        /\ act_state = "IDLE" /\ lut = {}
    BY DEF Init
  <2> QED
    BY <1>1, <2>1 DEF Tables
<1> QED
  BY <1>2, <1>3

LEMMA TablesInvariance == Spec => [](Control /\ Tables)
<1>1. Control /\ Tables /\ [Next]_vars => Control' /\ Tables'
  BY ControlInductive, TablesInductive
<1> QED
  BY <1>1, InitiallyTables, PTL DEF Spec

(* No element goes through the pipeline before every entry of the tables is
   written, for any size of the tables and however often a reset ended their
   initialisation half-way.                                                *)
THEOREM TablesComplete == Spec => []TablesAreFilled
<1>1. Tables => TablesAreFilled
  BY DEF Tables, TablesAreFilled
<1> QED
  BY <1>1, TablesInvariance, PTL

-----------------------------------------------------------------------------
(* The settings, and the dimensions they give the result. *)
LEMMA SettingsResult ==
  ASSUME NEW c \in Configs
  PROVE  /\ c.pool_size \in 1 .. 8 /\ c.stride \in 1 .. 8
         /\ {c.pool_size, c.stride, c.channels, c.batch_size, c.tensor_size} \subseteq Nat \ {0}
         /\ c.pool_size <= Height /\ c.pool_size <= Width
         /\ Height \in Nat /\ Width \in Nat
         /\ c.pool_size > 1 \/ OutDim(Height, c) > 1 \/ OutDim(Width, c) > 1
<1>1. c \in [pool_size : 1 .. 8, stride : 1 .. 8, channels : 1 .. 64,
             batch_size : 1 .. 16, tensor_size : Nat \ {0}]
  BY ConfigAssumption
<1>2. /\ c.pool_size <= Height /\ c.pool_size <= Width
      /\ c.pool_size > 1 \/ OutDim(Height, c) > 1 \/ OutDim(Width, c) > 1
  BY ConfigAssumption
<1>3. Height \in Nat /\ Width \in Nat
  BY SizeAssumption
<1> QED
  BY <1>1, <1>2, <1>3

LEMMA OutDimPositive ==
  ASSUME NEW c \in Configs, NEW d \in {Height, Width}
  PROVE  OutDim(d, c) \in Nat \ {0}
<1>1. c.stride \in 1 .. 8 /\ c.pool_size \in Nat /\ d \in Nat /\ d >= c.pool_size
  BY SettingsResult
<1> DEFINE x == d - c.pool_size
           s == c.stride
<1>2. x \in Nat
  BY <1>1
<1> HIDE DEF x, s
<1>3. x \div s \in Nat
  <2>1. s \in 1 .. 8
    BY <1>1 DEF s
  <2>2. s \in {1, 2, 3, 4}=> x \div s \in Nat
    BY <1>2
  <2>3. s \in {5, 6, 7, 8} => x \div s \in Nat
    BY <1>2
  <2> QED
    BY <2>1, <2>2, <2>3
<1> QED
  BY <1>3 DEF OutDim, x, s

LEMMA Dimensions ==
  ASSUME config \in Configs
  PROVE  {output_height, output_width} \subseteq Nat \ {0}
<1>1. output_height \in Nat \ {0}
  BY OutDimPositive DEF output_height
<1>2. output_width \in Nat \ {0}
  BY OutDimPositive DEF output_width
<1> QED
  BY <1>1, <1>2

(* One more digit of a row-major address. *)
LEMMA Digit ==
  ASSUME NEW X \in Nat, NEW Y \in Nat, NEW x \in 0 .. X - 1, NEW y \in 0 .. Y - 1
  PROVE  (x * Y) + y \in 0 .. (X * Y) - 1
<1>1. (x * Y) + y < (x + 1) * Y
  OBVIOUS
<1>2. (x + 1) * Y <= X * Y
  OBVIOUS
<1>3. x * Y \in Nat /\ X * Y \in Nat
  OBVIOUS
<1> QED
  BY <1>1, <1>2, <1>3

(* The RAM decodes an address of its own as itself. *)
LEMMA Decoded ==
  ASSUME NEW a \in Int
  PROVE  /\ a % Size \in Addr
         /\ a \in Addr => a % Size = a
<1> DEFINE q == a \div Size
           r == a % Size
<1>1. Size \in Nat /\ Size > 0
  BY SizeAssumption
<1>2. r \in 0 .. Size - 1
  BY <1>1
<1>3. q \in Int
  BY <1>1
<1>4. a = (Size * q) + r
  BY <1>1
<1> HIDE DEF q, r
<1>5. ASSUME a \in Addr PROVE r = a
  <2>1. Size * q < Size /\ -Size < Size * q
    BY <1>1, <1>2, <1>3, <1>4, <1>5 DEF Addr
  <2>2. ~(q >= 1)
    BY <1>1, <1>3, <2>1
  <2>3. ~(q <= -1)
    BY <1>1, <1>3, <2>1
  <2> QED
    BY <1>1, <1>2, <1>3, <1>4, <2>2, <2>3
<1> QED
  BY <1>2, <1>5 DEF r, Addr

-----------------------------------------------------------------------------
(* The loops of the pooling block, in range. *)
Counters ==
  [batch : 0 .. config.batch_size - 1, channel : 0 .. config.channels - 1,
   out_h : 0 .. output_height - 1, out_w : 0 .. output_width - 1,
   pool_h : 0 .. config.pool_size - 1, pool_w : 0 .. config.pool_size - 1]

LEMMA NoCountResult ==
  ASSUME config \in Configs
  PROVE  NoCount \in Counters
BY SettingsResult, Dimensions DEF NoCount, Counters

(* Counters that advance or start again stay what they count, whatever the
   ranges are.                                                             *)
LEMMA Advance ==
  ASSUME NEW B, NEW C, NEW H, NEW W, NEW K,
         NEW c \in [batch : B, channel : C, out_h : H, out_w : W, pool_h : K, pool_w : K],
         0 \in C, 0 \in H, 0 \in W, 0 \in K
  PROVE  LET R == [batch : B, channel : C, out_h : H, out_w : W, pool_h : K, pool_w : K]
         IN  /\ c.pool_w + 1 \in K => [c EXCEPT !.pool_w = @ + 1] \in R
             /\ c.pool_h + 1 \in K => [c EXCEPT !.pool_w = 0, !.pool_h = @ + 1] \in R
             /\ [c EXCEPT !.pool_w = 0, !.pool_h = 0] \in R
             /\ c.out_w + 1 \in W => [c EXCEPT !.out_w = @ + 1] \in R
             /\ c.out_h + 1 \in H => [c EXCEPT !.out_w = 0, !.out_h = @ + 1] \in R
             /\ c.channel + 1 \in C =>
                  [c EXCEPT !.out_w = 0, !.out_h = 0, !.channel = @ + 1] \in R
             /\ c.batch + 1 \in B =>
                  [c EXCEPT !.out_w = 0, !.out_h = 0, !.channel = 0, !.batch = @ + 1] \in R
OBVIOUS

At(n, batch, channel, out_h, out_w) ==
  n.batch = batch /\ n.channel = channel /\ n.out_h = out_h /\ n.out_w = out_w

LEMMA Ranges ==
  ASSUME config \in Configs, cnt \in Counters
  PROVE  /\ {cnt.batch, cnt.channel, cnt.out_h, cnt.out_w, cnt.pool_h, cnt.pool_w} \subseteq Nat
         /\ {config.batch_size, config.channels, config.pool_size, config.stride,
             output_height, output_width} \subseteq Nat \ {0}
         /\ cnt.batch < config.batch_size /\ cnt.channel < config.channels
         /\ cnt.out_h < output_height /\ cnt.out_w < output_width
         /\ cnt.pool_h < config.pool_size /\ cnt.pool_w < config.pool_size
<1>1. {config.batch_size, config.channels, config.pool_size, config.stride,
       output_height, output_width} \subseteq Nat \ {0}
  BY SettingsResult, Dimensions
<1> QED
  BY <1>1 DEF Counters

(* After a window: the next position, or the last one again. *)
LEMMA NextPositionResult ==
  ASSUME config \in Configs, cnt \in Counters
  PROVE  LET n == NextPosition IN
         /\ n \in Counters /\ n.pool_h = 0 /\ n.pool_w = 0
         /\ \/ /\ cnt.out_w < output_width - 1
               /\ At(n, cnt.batch, cnt.channel, cnt.out_h, cnt.out_w + 1)
            \/ /\ cnt.out_w = output_width - 1 /\ cnt.out_h < output_height - 1
               /\ At(n, cnt.batch, cnt.channel, cnt.out_h + 1, 0)
            \/ /\ cnt.out_w = output_width - 1 /\ cnt.out_h = output_height - 1
               /\ cnt.channel + 1 < config.channels
               /\ At(n, cnt.batch, cnt.channel + 1, 0, 0)
            \/ /\ cnt.out_w = output_width - 1 /\ cnt.out_h = output_height - 1
               /\ cnt.channel + 1 = config.channels /\ cnt.batch < config.batch_size - 1
               /\ At(n, cnt.batch + 1, 0, 0, 0)
            \/ /\ last_output
               /\ At(n, cnt.batch, cnt.channel, cnt.out_h, cnt.out_w)
<1> DEFINE B == 0 .. config.batch_size - 1
           C == 0 .. config.channels - 1
           H == 0 .. output_height - 1
           W == 0 .. output_width - 1
           K == 0 .. config.pool_size - 1
           R == [batch : B, channel : C, out_h : H, out_w : W, pool_h : K, pool_w : K]
           d == [cnt EXCEPT !.pool_w = 0, !.pool_h = 0]
           n == NextPosition
<1>1. 0 \in C /\ 0 \in H /\ 0 \in W /\ 0 \in K
  BY Ranges
<1>2. cnt \in R /\ R = Counters
  BY DEF Counters
<1>3. /\ cnt.out_w < output_width - 1 => cnt.out_w + 1 \in W
      /\ ~(cnt.out_w < output_width - 1) => cnt.out_w = output_width - 1
      /\ cnt.out_h < output_height - 1 => cnt.out_h + 1 \in H
      /\ ~(cnt.out_h < output_height - 1) => cnt.out_h = output_height - 1
      /\ cnt.channel + 1 < config.channels => cnt.channel + 1 \in C
      /\ ~(cnt.channel + 1 < config.channels) =>
           cnt.channel + 1 = config.channels /\ cnt.channel + 1 >= config.channels
      /\ cnt.batch < config.batch_size - 1 => cnt.batch + 1 \in B
      /\ ~(cnt.batch < config.batch_size - 1) => cnt.batch = config.batch_size - 1
  BY Ranges
<1>4. /\ d.batch = cnt.batch /\ d.channel = cnt.channel /\ d.out_h = cnt.out_h
      /\ d.out_w = cnt.out_w /\ d.pool_h = 0 /\ d.pool_w = 0
  BY <1>2
<1> HIDE DEF B, C, H, W, K
<1>5. d \in R
  BY <1>1, <1>2, Advance
<1>6. n = IF cnt.out_w < output_width - 1 THEN [d EXCEPT !.out_w = @ + 1]
          ELSE IF cnt.out_h < output_height - 1 THEN [d EXCEPT !.out_w = 0, !.out_h = @ + 1]
          ELSE IF cnt.channel + 1 < config.channels
            THEN [d EXCEPT !.out_w = 0, !.out_h = 0, !.channel = @ + 1]
          ELSE IF cnt.batch < config.batch_size - 1
            THEN [d EXCEPT !.out_w = 0, !.out_h = 0, !.channel = 0, !.batch = @ + 1]
          ELSE d
  BY <1>4 DEF NextPosition
<1> HIDE DEF n, d
<1>7. CASE cnt.out_w < output_width - 1
  <2>1. n = [d EXCEPT !.out_w = @ + 1]
    BY <1>6, <1>7
  <2>2. n \in R
    BY <1>1, <1>3, <1>4, <1>5, <1>7, <2>1, Advance
  <2>3. n.pool_h = 0 /\ n.pool_w = 0 /\ At(n, cnt.batch, cnt.channel, cnt.out_h, cnt.out_w + 1)
    BY <1>4, <1>5, <2>1 DEF At
  <2> QED
    BY <1>2, <1>7, <2>2, <2>3 DEF n
<1>8. CASE ~(cnt.out_w < output_width - 1) /\ cnt.out_h < output_height - 1
  <2>1. n = [d EXCEPT !.out_w = 0, !.out_h = @ + 1]
    BY <1>6, <1>8
  <2>2. n \in R
    BY <1>1, <1>3, <1>4, <1>5, <1>8, <2>1, Advance
  <2>3. n.pool_h = 0 /\ n.pool_w = 0 /\ At(n, cnt.batch, cnt.channel, cnt.out_h + 1, 0)
    BY <1>4, <1>5, <2>1 DEF At
  <2> QED
    BY <1>2, <1>3, <1>8, <2>2, <2>3 DEF n
<1>9. CASE /\ ~(cnt.out_w < output_width - 1) /\ ~(cnt.out_h < output_height - 1)
           /\ cnt.channel + 1 < config.channels
  <2>1. n = [d EXCEPT !.out_w = 0, !.out_h = 0, !.channel = @ + 1]
    BY <1>6, <1>9
  <2>2. n \in R
    BY <1>1, <1>3, <1>4, <1>5, <1>9, <2>1, Advance
  <2>3. n.pool_h = 0 /\ n.pool_w = 0 /\ At(n, cnt.batch, cnt.channel + 1, 0, 0)
    BY <1>4, <1>5, <2>1 DEF At
  <2> QED
    BY <1>2, <1>3, <1>9, <2>2, <2>3 DEF n
<1>10. CASE /\ ~(cnt.out_w < output_width - 1) /\ ~(cnt.out_h < output_height - 1)
            /\ ~(cnt.channel + 1 < config.channels) /\ cnt.batch < config.batch_size - 1
  <2>1. n = [d EXCEPT !.out_w = 0, !.out_h = 0, !.channel = 0, !.batch = @ + 1]
    BY <1>6, <1>10
  <2>2. n \in R
    BY <1>1, <1>3, <1>4, <1>5, <1>10, <2>1, Advance
  <2>3. n.pool_h = 0 /\ n.pool_w = 0 /\ At(n, cnt.batch + 1, 0, 0, 0)
    BY <1>4, <1>5, <2>1 DEF At
  <2> QED
    BY <1>2, <1>3, <1>10, <2>2, <2>3 DEF n
<1>11. CASE /\ ~(cnt.out_w < output_width - 1) /\ ~(cnt.out_h < output_height - 1)
            /\ ~(cnt.channel + 1 < config.channels) /\ ~(cnt.batch < config.batch_size - 1)
  <2>1. n = d
    BY <1>6, <1>11
  <2>2. last_output
    BY <1>3, <1>11 DEF last_output
  <2>3. n.pool_h = 0 /\ n.pool_w = 0 /\ At(n, cnt.batch, cnt.channel, cnt.out_h, cnt.out_w)
    BY <1>4, <2>1 DEF At
  <2> QED
    BY <1>2, <1>5, <2>1, <2>2, <2>3 DEF n
<1> QED
  BY <1>7, <1>8, <1>9, <1>10, <1>11

(* After a sample: one more in the window, or none in that of the next
   position.                                                               *)
Samples(c) == (c.pool_h * config.pool_size) + c.pool_w

LEMMA NextSampleResult ==
  ASSUME config \in Configs, cnt \in Counters
  PROVE  /\ NextSample \in Counters
         /\ window_complete => NextSample = NextPosition /\ Samples(NextSample) = 0
                               /\ Samples(cnt) + 1 = config.pool_size * config.pool_size
         /\ ~window_complete => Samples(NextSample) = Samples(cnt) + 1
                                /\ At(NextSample, cnt.batch, cnt.channel, cnt.out_h, cnt.out_w)
         /\ Samples(cnt) \in 0 .. (config.pool_size * config.pool_size) - 1
<1> DEFINE B == 0 .. config.batch_size - 1
           C == 0 .. config.channels - 1
           H == 0 .. output_height - 1
           W == 0 .. output_width - 1
           K == 0 .. config.pool_size - 1
           R == [batch : B, channel : C, out_h : H, out_w : W, pool_h : K, pool_w : K]
           k == config.pool_size
           n == NextSample
<1>1. 0 \in C /\ 0 \in H /\ 0 \in W /\ 0 \in K
  BY Ranges
<1>2. cnt \in R /\ R = Counters
  BY DEF Counters
<1>3. /\ k \in Nat /\ cnt.pool_w \in K /\ cnt.pool_h \in K
      /\ cnt.pool_w < k - 1 => cnt.pool_w + 1 \in K
      /\ ~(cnt.pool_w < k - 1) => cnt.pool_w = k - 1
      /\ cnt.pool_h < k - 1 => cnt.pool_h + 1 \in K
      /\ ~(cnt.pool_h < k - 1) => cnt.pool_h = k - 1
  BY Ranges
<1>4. Samples(cnt) \in 0 .. (k * k) - 1
  BY <1>3, Digit DEF Samples
<1> HIDE DEF B, C, H, W
<1>5. CASE cnt.pool_w < k - 1
  <2>1. n = [cnt EXCEPT !.pool_w = @ + 1] /\ ~window_complete
    BY <1>3, <1>5 DEF NextSample, window_complete
  <2> HIDE DEF n, K
  <2>2. n \in R
    BY <1>1, <1>2, <1>3, <1>5, <2>1, Advance
  <2>3. n.pool_h = cnt.pool_h /\ n.pool_w = cnt.pool_w + 1
        /\ At(n, cnt.batch, cnt.channel, cnt.out_h, cnt.out_w)
    BY <1>2, <2>1 DEF At
  <2>4. Samples(n) = Samples(cnt) + 1
    BY <1>3, <2>3 DEF Samples, K
  <2> QED
    BY <1>2, <1>4, <2>1, <2>2, <2>3, <2>4 DEF n
<1>6. CASE ~(cnt.pool_w < k - 1) /\ cnt.pool_h < k - 1
  <2>1. n = [cnt EXCEPT !.pool_w = 0, !.pool_h = @ + 1] /\ ~window_complete
    BY <1>3, <1>6 DEF NextSample, window_complete
  <2> HIDE DEF n, K
  <2>2. n \in R
    BY <1>1, <1>2, <1>3, <1>6, <2>1, Advance
  <2>3. n.pool_h = cnt.pool_h + 1 /\ n.pool_w = 0
        /\ At(n, cnt.batch, cnt.channel, cnt.out_h, cnt.out_w)
    BY <1>2, <2>1 DEF At
  <2>4. Samples(n) = Samples(cnt) + 1
    BY <1>3, <1>6, <2>3 DEF Samples, K
  <2> QED
    BY <1>2, <1>4, <2>1, <2>2, <2>3, <2>4 DEF n
<1>7. CASE ~(cnt.pool_w < k - 1) /\ ~(cnt.pool_h < k - 1)
  <2>1. n = NextPosition /\ window_complete
    BY <1>3, <1>7 DEF NextSample, window_complete
  <2>2. n \in Counters /\ n.pool_h = 0 /\ n.pool_w = 0
    BY <2>1, NextPositionResult
  <2>3. Samples(n) = 0
    BY <1>3, <2>2 DEF Samples
  <2>4. Samples(cnt) + 1 = k * k
    BY <1>3, <1>7 DEF Samples
  <2> QED
    BY <1>4, <2>1, <2>2, <2>3, <2>4
<1> QED
  BY <1>5, <1>6, <1>7

LEMMA InputAddress ==
  ASSUME config \in Configs, cnt \in Counters
  PROVE  pool_input_addr \in Int
<1>1. /\ {cnt.batch, cnt.channel, cnt.out_h, cnt.out_w, cnt.pool_h, cnt.pool_w} \subseteq Int
      /\ {config.channels, config.stride, Height, Width} \subseteq Int
  BY Ranges, SizeAssumption
<1> QED
  BY <1>1 DEF pool_input_addr

(* The place of a pooled word in the result. *)
Place(batch, channel, out_h, out_w) ==
  ((batch * output_height + out_h) * output_width + out_w) * config.channels + channel

LEMMA PlaceResult ==
  ASSUME config \in Configs,
         NEW batch \in 0 .. config.batch_size - 1, NEW channel \in 0 .. config.channels - 1,
         NEW out_h \in 0 .. output_height - 1, NEW out_w \in 0 .. output_width - 1
  PROVE  Place(batch, channel, out_h, out_w) \in 0 .. Volume - 1
<1> DEFINE B == config.batch_size
           H == output_height
           W == output_width
           C == config.channels
           x == (batch * H) + out_h
           y == (x * W) + out_w
<1>1. B \in Nat /\ H \in Nat /\ W \in Nat /\ C \in Nat
  BY SettingsResult, Dimensions
<1>2. batch \in 0 .. B - 1 /\ out_h \in 0 .. H - 1 /\ out_w \in 0 .. W - 1 /\ channel \in 0 .. C - 1
  OBVIOUS
<1>3. Place(batch, channel, out_h, out_w) = (y * C) + channel
  BY DEF Place
<1>4. Volume = ((B * H) * W) * C
  BY DEF Volume
<1> HIDE DEF B, H, W, C
<1>5. x \in 0 .. (B * H) - 1 /\ B * H \in Nat
  BY <1>1, <1>2, Digit
<1> HIDE DEF x
<1>6. y \in 0 .. ((B * H) * W) - 1 /\ (B * H) * W \in Nat
  BY <1>1, <1>2, <1>5, Digit
<1> HIDE DEF y
<1>7. (y * C) + channel \in 0 .. (((B * H) * W) * C) - 1
  BY <1>1, <1>2, <1>6, Digit
<1> QED
  BY <1>3, <1>4, <1>7

(* The block's own address is the place of the position it is at. *)
LEMMA OutputAddress ==
  ASSUME config \in Configs, cnt \in Counters
  PROVE  /\ pool_output_addr = Place(cnt.batch, cnt.channel, cnt.out_h, cnt.out_w)
         /\ pool_output_addr \in 0 .. Volume - 1
<1>1. pool_output_addr = Place(cnt.batch, cnt.channel, cnt.out_h, cnt.out_w)
  BY DEF pool_output_addr, Place
<1>2. /\ cnt.batch \in 0 .. config.batch_size - 1 /\ cnt.channel \in 0 .. config.channels - 1
      /\ cnt.out_h \in 0 .. output_height - 1 /\ cnt.out_w \in 0 .. output_width - 1
  BY DEF Counters
<1> QED
  BY <1>1, <1>2, PlaceResult

LEMMA VolumeType == ASSUME config \in Configs PROVE Volume \in Int
<1>1. {config.batch_size, output_height, output_width, config.channels} \subseteq Int
  BY SettingsResult, Dimensions
<1> QED
  BY <1>1 DEF Volume

(* An address of a result that fits is decoded as itself. *)
LEMMA InResult ==
  ASSUME NEW n \in Int, n <= Size - OutputBase, NEW a \in 0 .. n - 1
  PROVE  /\ (a + OutputBase) % Size = a + OutputBase
         /\ OutputBase + a = a + OutputBase /\ a + OutputBase \in Addr
         /\ a + OutputBase >= OutputBase /\ a + OutputBase < OutputBase + n
<1>1. OutputBase \in Nat /\ Size \in Nat
  BY SizeAssumption
<1>2. a + OutputBase \in Addr /\ a + OutputBase \in Int
  BY <1>1 DEF Addr
<1> QED
  BY <1>1, <1>2, Decoded

-----------------------------------------------------------------------------
(* A sequence of words, and a RAM of them, whatever the words are. *)
IsSequence(s) == \E S : s \in Seq(S)
IsStore(m)    == \E S : m \in [Addr -> S]

LEMMA Appended ==
  ASSUME NEW s, IsSequence(s), NEW w
  PROVE  IsSequence(Append(s, w)) /\ Len(s) \in Nat /\ Len(Append(s, w)) = Len(s) + 1
<1>1. PICK S : s \in Seq(S)
  BY DEF IsSequence
<1> DEFINE T == S \cup {w}
<1>2. s \in Seq(T) /\ w \in T
  BY <1>1
<1> HIDE DEF T
<1>3. Append(s, w) \in Seq(T) /\ Len(s) \in Nat /\ Len(Append(s, w)) = Len(s) + 1
  BY <1>2
<1> QED
  BY <1>3 DEF IsSequence

LEMMA NoSamples == IsSequence(<<>>) /\ Len(<<>>) = 0
<1>1. <<>> \in Seq({})
  OBVIOUS
<1> QED
  BY <1>1 DEF IsSequence

LEMMA WordWritten ==
  ASSUME NEW m, IsStore(m), NEW x \in Addr, NEW w
  PROVE  /\ IsStore([m EXCEPT ![x] = w])
         /\ [m EXCEPT ![x] = w][x] = w
         /\ \A a \in Addr : a # x => [m EXCEPT ![x] = w][a] = m[a]
<1>1. PICK S : m \in [Addr -> S]
  BY DEF IsStore
<1> DEFINE T == S \cup {w}
           r == [m EXCEPT ![x] = w]
<1>2. m \in [Addr -> T] /\ w \in T
  BY <1>1
<1> HIDE DEF T
<1>3. r \in [Addr -> T] /\ r[x] = w /\ \A a \in Addr : a # x => r[a] = m[a]
  BY <1>2
<1> HIDE DEF r
<1>4. IsStore(r)
  BY <1>3 DEF IsStore
<1> QED
  BY <1>3, <1>4 DEF r

LEMMA JustLoaded ==
  /\ IsStore([a \in Addr |-> Loaded(a)])
  /\ \A a \in Addr : [b \in Addr |-> Loaded(b)][a] = Loaded(a)
<1> DEFINE S == {Loaded(a) : a \in Addr}
           m == [a \in Addr |-> Loaded(a)]
<1>1. m \in [Addr -> S] /\ \A a \in Addr : m[a] = Loaded(a)
  OBVIOUS
<1> HIDE DEF m, S
<1>2. IsStore(m)
  BY <1>1 DEF IsStore
<1> QED
  BY <1>1, <1>2 DEF m

-----------------------------------------------------------------------------
(* The registers in range.  The samples of the window are those its counters
   have passed; while samples come, one is valid on every clock but the first
   two, on which nothing has been counted.                                 *)
Sampled == IsSequence(window) /\ Len(window) = Samples(cnt)

Fed ==
  /\ pool_state = "SETUP_DIMS" => cnt = NoCount /\ ~feed["POOL"].pending
  /\ pool_state = "POOL_COMPUTE" =>
       /\ feed["POOL"].valid => feed["POOL"].pending
       /\ ~feed["POOL"].valid => cnt = NoCount

Typed ==
  /\ IsStore(ram) /\ address_b \in Addr /\ config \in Configs
  /\ DOMAIN feed = {"POOL", "ACT"}
  /\ cnt \in Counters /\ Sampled
  /\ element_counter \in 0 .. config.tensor_size
  /\ DOMAIN stages = 1 .. PIPELINE_STAGES

UnitsInv == Control /\ Tables /\ Typed /\ Fed

(* Port B, and the pipelines. *)
LEMMA ReadResult ==
  ASSUME IsStore(ram), NEW a \in Int, Read(a)
  PROVE  IsStore(ram)' /\ address_b' \in Addr /\ ram' = ram
BY Decoded DEF Read

LEMMA WriteResult ==
  ASSUME IsStore(ram), NEW a \in Int, NEW wren, NEW wraddress \in Int, NEW w,
         ReadUnlessWritten(a, wren, wraddress, w)
  PROVE  IsStore(ram)' /\ address_b' \in Addr
<1>1. OutputBase \in Int
  BY SizeAssumption
<1>2. wraddress + OutputBase \in Int
  BY <1>1
<1>3. (wraddress + OutputBase) % Size \in Addr
  BY <1>2, Decoded
<1>4. address_b' \in Addr
  BY <1>2, Decoded DEF ReadUnlessWritten
<1>5. IsStore(ram')
  BY <1>3, WordWritten DEF ReadUnlessWritten
<1> QED
  BY <1>4, <1>5

LEMMA FeedResult ==
  ASSUME NEW enabled, Feed(enabled)
  PROVE  /\ DOMAIN feed' = {"POOL", "ACT"}
         /\ feed'["POOL"].pending <=> enabled = "POOL"
         /\ feed'["POOL"].valid = feed["POOL"].pending
BY DEF Feed

(* The counters of the other unit. *)
LEMMA PoolStarts ==
  ASSUME NEW c \in Configs, config' = c, cnt' = NoCount, window' = <<>>
  PROVE  cnt' \in Counters' /\ Sampled'
<1>1. /\ {c.batch_size, c.channels, c.pool_size} \subseteq Nat \ {0}
      /\ {OutDim(Height, c), OutDim(Width, c)} \subseteq Nat \ {0}
  BY SettingsResult, OutDimPositive
<1>2. Counters' = [batch : 0 .. c.batch_size - 1, channel : 0 .. c.channels - 1,
                   out_h : 0 .. OutDim(Height, c) - 1, out_w : 0 .. OutDim(Width, c) - 1,
                   pool_h : 0 .. c.pool_size - 1, pool_w : 0 .. c.pool_size - 1]
  BY DEF Counters, output_height, output_width
<1>3. cnt' \in Counters'
  BY <1>1, <1>2 DEF NoCount
<1>4. Samples(cnt)' = 0
  BY <1>1 DEF Samples, NoCount
<1> QED
  BY <1>3, <1>4, NoSamples DEF Sampled

LEMMA ElementNext ==
  ASSUME config \in Configs, element_counter \in 0 .. config.tensor_size
  PROVE  NextElement \in 0 .. config.tensor_size /\ act_output_addr \in 0 .. config.tensor_size - 1
<1>1. config.tensor_size \in Nat /\ config.tensor_size > 0
  BY SettingsResult
<1> QED
  BY <1>1 DEF NextElement, act_output_addr, PIPELINE_STAGES

(* What stays of the counters when the setting does. *)
LEMMA PoolRests ==
  ASSUME cnt \in Counters, Sampled, config' = config, cnt' = cnt, window' = window
  PROVE  cnt' \in Counters' /\ Sampled'
BY DEF Counters, Sampled, Samples, output_height, output_width

LEMMA TypedInductive == UnitsInv /\ [Next]_vars => Typed'
<1> SUFFICES ASSUME UnitsInv, [Next]_vars PROVE Typed'
  OBVIOUS
<1>1. /\ IsStore(ram) /\ address_b \in Addr /\ config \in Configs
      /\ cnt \in Counters /\ Sampled /\ element_counter \in 0 .. config.tensor_size
      /\ DOMAIN stages = 1 .. PIPELINE_STAGES /\ DOMAIN feed = {"POOL", "ACT"}
  BY DEF UnitsInv, Typed
<1>2. config.tensor_size \in Nat /\ 0 \in Int
  BY <1>1, SettingsResult
<1>3. 0 % Size \in Addr /\ 0 \in Addr
  BY SizeAssumption, Decoded DEF Addr
<1>4. element_counter \in Int /\ act_output_addr \in Int /\ NextElement \in 0 .. config.tensor_size
  BY <1>1, <1>2, ElementNext
<1>5. CASE LaunchPooling \/ LaunchActivation
  <2>1. PICK u \in {"POOL", "ACT"} : Launch(u)
    BY <1>5 DEF LaunchPooling, LaunchActivation
  <2>2. config' \in Configs /\ cnt' \in Counters' /\ Sampled'
    BY <2>1, PoolStarts DEF Launch
  <2>3. IsStore(ram') /\ address_b' \in Addr
    BY <1>3, <2>1, JustLoaded DEF Launch
  <2>4. DOMAIN feed' = {"POOL", "ACT"}
    BY <2>1, FeedResult DEF Launch
  <2>5. element_counter' \in 0 .. config'.tensor_size
    <3>1. config'.tensor_size \in Nat /\ element_counter' = 0
      BY <2>1, <2>2, SettingsResult DEF Launch
    <3> QED
      BY <3>1
  <2>6. DOMAIN stages' = 1 .. PIPELINE_STAGES
    BY <1>1, <2>1 DEF Launch
  <2> QED
    BY <2>2, <2>3, <2>4, <2>5, <2>6 DEF Typed
<1>6. CASE SetupDims
  <2>1. IsStore(ram)' /\ address_b' \in Addr
    BY <1>1, <1>2, <1>6, ReadResult DEF SetupDims
  <2>2. cnt = NoCount /\ config' = config /\ cnt' = cnt /\ window' = <<>>
    BY <1>6 DEF SetupDims, UnitsInv, Fed, top
  <2>3. cnt' \in Counters' /\ Sampled'
    BY <1>1, <2>2, PoolStarts
  <2>4. DOMAIN feed' = {"POOL", "ACT"}
    BY <1>6, FeedResult DEF SetupDims
  <2>5. element_counter' = 0 /\ stages' = stages
    BY <1>6 DEF SetupDims, ActIdle
  <2> QED
    BY <1>1, <1>2, <2>1, <2>2, <2>3, <2>4, <2>5 DEF Typed
<1>7. CASE PoolCompute
  <2> DEFINE valid  == feed["POOL"].valid
             filled == IF valid THEN Append(window, feed["POOL"].data) ELSE window
  <2>1. /\ ReadUnlessWritten(pool_input_addr, window_complete /\ valid,
                             pool_output_addr, Pooled(filled))
        /\ cnt' = IF valid THEN NextSample ELSE cnt
        /\ window' = IF window_complete /\ valid THEN <<>> ELSE filled
        /\ Feed("POOL") /\ config' = config
    BY <1>7 DEF PoolCompute, top
  <2>2. pool_input_addr \in Int /\ pool_output_addr \in Int
    BY <1>1, InputAddress, OutputAddress
  <2>3. IsStore(ram)' /\ address_b' \in Addr
    BY <1>1, <2>1, <2>2, WriteResult
  <2>4. DOMAIN feed' = {"POOL", "ACT"}
    BY <2>1, FeedResult
  <2>5. element_counter' = 0 /\ stages' = stages
    BY <1>7 DEF PoolCompute, ActIdle
  <2>6. cnt' \in Counters'
    <3>1. cnt' \in Counters
      BY <1>1, <2>1, NextSampleResult
    <3>2. Counters' = Counters
      BY <2>1 DEF Counters, output_height, output_width
    <3> QED
      BY <3>1, <3>2
  <2>7. Sampled'
    <3>1. Samples(cnt)' = Samples(cnt')
      BY <2>1 DEF Samples
    <3>2. CASE ~valid
      BY <1>1, <2>1, <3>1, <3>2 DEF Sampled, Samples
    <3>3. CASE valid /\ window_complete
      <4>1. window' = <<>> /\ Samples(cnt') = 0
        BY <1>1, <2>1, <3>3, NextSampleResult
      <4> QED
        BY <3>1, <4>1, NoSamples DEF Sampled
    <3>4. CASE valid /\ ~window_complete
      <4>1. window' = Append(window, feed["POOL"].data) /\ Samples(cnt') = Samples(cnt) + 1
        BY <1>1, <2>1, <3>4, NextSampleResult
      <4> QED
        BY <1>1, <3>1, <4>1, Appended DEF Sampled
    <3> QED
      BY <3>2, <3>3, <3>4
  <2> QED
    BY <1>1, <1>2, <2>1, <2>3, <2>4, <2>5, <2>6, <2>7 DEF Typed
<1>8. CASE WriteOutput \/ FinishPooling
  <2>1. /\ Read(0) /\ Feed("NONE") /\ UNCHANGED <<config, cnt, window>>
        /\ element_counter' = 0 /\ stages' = stages
    BY <1>8 DEF WriteOutput, FinishPooling, ActIdle, top
  <2>2. IsStore(ram)' /\ address_b' \in Addr
    BY <1>1, <1>2, <2>1, ReadResult
  <2>3. cnt' \in Counters' /\ Sampled'
    BY <1>1, <2>1, PoolRests
  <2>4. DOMAIN feed' = {"POOL", "ACT"}
    BY <2>1, FeedResult
  <2> QED
    BY <1>1, <1>2, <2>1, <2>2, <2>3, <2>4 DEF Typed
<1>9. ASSUME NEW a \in Int, ActEdge(a), NEW enabled, Feed(enabled), config' = config,
             element_counter' \in {element_counter, NextElement},
             DOMAIN stages' = 1 .. PIPELINE_STAGES
      PROVE  Typed'
  <2>1. /\ ReadUnlessWritten(a, output_valid, act_output_addr, output_data)
        /\ cnt' = NoCount /\ window' = <<>>
    BY <1>9 DEF ActEdge, PoolIdle
  <2>2. IsStore(ram)' /\ address_b' \in Addr
    BY <1>1, <1>4, <1>9, <2>1, WriteResult
  <2>3. cnt' \in Counters' /\ Sampled'
    BY <1>1, <1>9, <2>1, PoolStarts
  <2>4. DOMAIN feed' = {"POOL", "ACT"}
    BY <1>9, FeedResult
  <2> QED
    BY <1>1, <1>4, <1>9, <2>2, <2>3, <2>4 DEF Typed
<1>10. CASE InitLut
  BY <1>1, <1>2, <1>9, <1>10 DEF InitLut, top
<1>11. CASE Process
  <2>1. DOMAIN stages' = 1 .. PIPELINE_STAGES
    BY <1>11 DEF Process, Shift
  <2> QED
    BY <1>4, <1>9, <1>11, <2>1 DEF Process, top
<1>12. CASE PipelineFlush
  <2>1. DOMAIN stages' = 1 .. PIPELINE_STAGES
    BY <1>12 DEF PipelineFlush, Shift
  <2> QED
    BY <1>2, <1>9, <1>12, <2>1 DEF PipelineFlush, top
<1>13. CASE FinishActivation
  BY <1>1, <1>2, <1>9, <1>13 DEF FinishActivation
<1>14. CASE Settle
  <2>1. /\ Read(0) /\ Feed("NONE") /\ config' = config /\ cnt' = NoCount /\ window' = <<>>
        /\ element_counter' = 0 /\ stages' = stages
    BY <1>14 DEF Settle, PoolIdle, ActIdle
  <2>2. IsStore(ram)' /\ address_b' \in Addr
    BY <1>1, <1>2, <2>1, ReadResult
  <2>3. cnt' \in Counters' /\ Sampled'
    BY <1>1, <2>1, PoolStarts
  <2>4. DOMAIN feed' = {"POOL", "ACT"}
    BY <2>1, FeedResult
  <2> QED
    BY <1>1, <1>2, <2>1, <2>2, <2>3, <2>4 DEF Typed
<1>15. CASE Reset
  <2>1. /\ Read(0) /\ config' = config /\ cnt' = NoCount /\ window' = <<>>
        /\ element_counter' = 0 /\ stages' = Empty
        /\ DOMAIN feed' = {"POOL", "ACT"}
    BY <1>15 DEF Reset
  <2>2. IsStore(ram)' /\ address_b' \in Addr
    BY <1>1, <1>2, <2>1, ReadResult
  <2>3. cnt' \in Counters' /\ Sampled'
    BY <1>1, <2>1, PoolStarts
  <2>4. DOMAIN stages' = 1 .. PIPELINE_STAGES
    BY <2>1 DEF Empty
  <2> QED
    BY <1>1, <1>2, <2>1, <2>2, <2>3, <2>4 DEF Typed
<1>16. CASE UNCHANGED vars
  <2>1. UNCHANGED <<ram, address_b, config, feed, cnt, window, element_counter, stages>>
    BY <1>16 DEF vars, port, top, pool, act
  <2>2. cnt' \in Counters' /\ Sampled'
    BY <1>1, <2>1, PoolRests
  <2> QED
    BY <1>1, <2>1, <2>2 DEF Typed
<1> QED
  BY <1>5, <1>6, <1>7, <1>8, <1>10, <1>11, <1>12, <1>13, <1>14, <1>15, <1>16 DEF Next, Clock

(* Samples come on every clock, from the third on. *)
LEMMA FedInductive == UnitsInv /\ [Next]_vars => Fed'
<1> SUFFICES ASSUME UnitsInv, [Next]_vars PROVE Fed'
  OBVIOUS
<1>1. CASE LaunchPooling
  <2>1. pool_state' = "SETUP_DIMS" /\ cnt' = NoCount /\ Feed("NONE")
    BY <1>1 DEF LaunchPooling, Launch
  <2>2. ~feed'["POOL"].pending
    BY <2>1, FeedResult
  <2> QED
    BY <2>1, <2>2 DEF Fed
<1>2. CASE SetupDims
  <2>1. /\ pool_state' = "POOL_COMPUTE" /\ cnt' = NoCount /\ Feed("NONE")
        /\ ~feed["POOL"].pending
    BY <1>2 DEF SetupDims, UnitsInv, Fed
  <2>2. ~feed'["POOL"].valid
    BY <2>1, FeedResult
  <2> QED
    BY <2>1, <2>2 DEF Fed
<1>3. CASE PoolCompute
  <2>1. /\ Feed("POOL") /\ pool_state' # "SETUP_DIMS"
        /\ feed["POOL"].valid => feed["POOL"].pending
        /\ ~feed["POOL"].valid => cnt = NoCount /\ cnt' = cnt
    BY <1>3 DEF PoolCompute, UnitsInv, Fed
  <2>2. feed'["POOL"].pending /\ (feed'["POOL"].valid = feed["POOL"].pending)
    BY <2>1, FeedResult
  <2>3. ~feed'["POOL"].valid => cnt' = NoCount
    BY <2>1, <2>2
  <2> QED
    BY <2>1, <2>2, <2>3 DEF Fed
<1>4. ASSUME pool_state' \notin {"SETUP_DIMS", "POOL_COMPUTE"} PROVE Fed'
  BY <1>4 DEF Fed
<1>5. CASE WriteOutput \/ FinishPooling \/ Reset
  BY <1>4, <1>5 DEF WriteOutput, FinishPooling, Reset
<1>6. CASE LaunchActivation \/ InitLut \/ Process \/ PipelineFlush \/ FinishActivation \/ Settle
  <2>1. pool_state' = pool_state /\ pool_state = "IDLE"
    BY <1>6 DEF LaunchActivation, Launch, InitLut, Process, PipelineFlush, FinishActivation,
                Settle, ActEdge, PoolIdle, UnitsInv, Control
  <2> QED
    BY <1>4, <2>1
<1>7. CASE UNCHANGED vars
  BY <1>7 DEF vars, pool, UnitsInv, Fed
<1> QED
  BY <1>1, <1>2, <1>3, <1>5, <1>6, <1>7 DEF Next, Clock

LEMMA UnitsInductive == UnitsInv /\ [Next]_vars => UnitsInv'
BY ControlInductive, TablesInductive, TypedInductive, FedInductive DEF UnitsInv

LEMMA UnitsInitially == Init => UnitsInv
<1> SUFFICES ASSUME Init PROVE UnitsInv
  OBVIOUS
<1>1. config \in Configs /\ cnt = NoCount /\ window = <<>>
  BY DEF Init
<1>2. cnt \in Counters
  BY <1>1, NoCountResult
<1>3. Sampled
  <2>1. config.pool_size \in Nat
    BY <1>1, SettingsResult
  <2>2. Samples(cnt) = 0
    BY <1>1, <2>1 DEF Samples, NoCount
  <2> QED
    BY <1>1, <2>2, NoSamples DEF Sampled
<1>4. IsStore(ram)
  BY JustLoaded DEF Init
<1>5. address_b \in Addr
  BY SizeAssumption DEF Init, Addr
<1>6. element_counter \in 0 .. config.tensor_size
  <2>1. config.tensor_size \in Nat /\ element_counter = 0
    BY <1>1, SettingsResult DEF Init
  <2> QED
    BY <2>1
<1>7. DOMAIN feed = {"POOL", "ACT"} /\ DOMAIN stages = 1 .. PIPELINE_STAGES
  BY DEF Init, Empty
<1>8. Fed
  BY DEF Init, Fed
<1> QED
  BY <1>1, <1>2, <1>3, <1>4, <1>5, <1>6, <1>7, <1>8, InitiallyTables DEF UnitsInv, Typed

(* The registers and the RAM throughout. *)
THEOREM UnitsInvariance == Spec => []UnitsInv
<1> QED
  BY UnitsInitially, UnitsInductive, PTL DEF Spec

(* No counter leaves its loop and no window has more samples than it is
   large, for every setting and every sequence of operations.              *)
THEOREM UnitsTypeCorrect == Spec => []UnitsTypeOK
<1>1. UnitsInv => UnitsTypeOK
  <2> SUFFICES ASSUME UnitsInv PROVE UnitsTypeOK
    OBVIOUS
  <2>1. DOMAIN ram = Addr
    BY DEF UnitsInv, Typed, IsStore
  <2>2. Len(window) < config.pool_size * config.pool_size
    <3>1. config \in Configs /\ cnt \in Counters /\ Len(window) = Samples(cnt)
      BY DEF UnitsInv, Typed, Sampled
    <3>2. Samples(cnt) \in 0 .. (config.pool_size * config.pool_size) - 1
      BY <3>1, NextSampleResult
    <3>3. config.pool_size * config.pool_size \in Int
      BY <3>1, SettingsResult
    <3> QED
      BY <3>1, <3>2, <3>3
  <2> QED
    BY <2>1, <2>2 DEF UnitsInv, Control, Tables, Typed, Counters, UnitsTypeOK
<1> QED
  BY <1>1, UnitsInvariance, PTL

-----------------------------------------------------------------------------
(* What an edge does to the RAM: a launch finds it loaded, a unit that works
   may write one word of its result, and nothing else touches it.          *)
PoolWrites ==
  /\ PoolCompute /\ feed["POOL"].valid /\ window_complete
  /\ ram' = [ram EXCEPT ![(pool_output_addr + OutputBase) % Size] =
               Pooled(Append(window, feed["POOL"].data))]

ActWrites ==
  /\ act_state # "IDLE"
  /\ ram' = [ram EXCEPT ![(act_output_addr + OutputBase) % Size] = output_data]

Stays == config' = config /\ selected_operation' = selected_operation

LEMMA RamMoves ==
  ASSUME [Next]_vars
  PROVE  \/ \E u \in {"POOL", "ACT"} : Launch(u)
         \/ Reset
         \/ Stays /\ (ram' = ram \/ PoolWrites \/ ActWrites)
<1>1. CASE LaunchPooling \/ LaunchActivation
  BY <1>1 DEF LaunchPooling, LaunchActivation
<1>2. CASE SetupDims \/ WriteOutput \/ FinishPooling \/ Settle
  BY <1>2 DEF SetupDims, WriteOutput, FinishPooling, Settle, Read, top, Stays
<1>3. CASE PoolCompute
  <2> DEFINE filled == IF feed["POOL"].valid THEN Append(window, feed["POOL"].data) ELSE window
  <2>1. /\ ReadUnlessWritten(pool_input_addr, window_complete /\ feed["POOL"].valid,
                             pool_output_addr, Pooled(filled))
        /\ Stays
    BY <1>3 DEF PoolCompute, top, Stays
  <2>2. CASE window_complete /\ feed["POOL"].valid
    BY <1>3, <2>1, <2>2 DEF ReadUnlessWritten, PoolWrites
  <2>3. CASE ~(window_complete /\ feed["POOL"].valid)
    BY <2>1, <2>3 DEF ReadUnlessWritten
  <2> QED
    BY <2>1, <2>2, <2>3
<1>4. ASSUME NEW a, ActEdge(a), act_state # "IDLE" PROVE ram' = ram \/ ActWrites
  BY <1>4 DEF ActEdge, ReadUnlessWritten, ActWrites
<1>5. CASE InitLut \/ Process \/ PipelineFlush \/ FinishActivation
  BY <1>4, <1>5 DEF InitLut, Process, PipelineFlush, FinishActivation, top, Stays
<1>6. CASE UNCHANGED vars
  BY <1>6 DEF vars, port, top, Stays
<1> QED
  BY <1>1, <1>2, <1>3, <1>5, <1>6 DEF Next, Clock

(* Where the units write, when the result fits. *)
LEMMA WritesInResult ==
  ASSUME UnitsInv, Fits, selected_operation \in {"POOL", "ACT"}, PoolWrites \/ ActWrites
  PROVE  \E x \in Addr : /\ \E w : ram' = [ram EXCEPT ![x] = w]
                         /\ OutputBase <= x /\ x < OutputBase + ResultSize
<1>1. /\ config \in Configs /\ cnt \in Counters /\ element_counter \in 0 .. config.tensor_size
      /\ Control
  BY DEF UnitsInv, Typed
<1>2. Volume \in Int /\ config.tensor_size \in Int
      /\ Volume <= Size - OutputBase /\ config.tensor_size <= Size - OutputBase
  BY <1>1, VolumeType, SettingsResult DEF Fits
<1>3. CASE PoolWrites
  <2>1. ResultSize = Volume
    BY <1>1, <1>3 DEF PoolWrites, PoolCompute, Control, ResultSize
  <2>2. pool_output_addr \in 0 .. Volume - 1
    BY <1>1, OutputAddress
  <2>3. /\ (pool_output_addr + OutputBase) % Size = pool_output_addr + OutputBase
        /\ pool_output_addr + OutputBase \in Addr
        /\ pool_output_addr + OutputBase >= OutputBase
        /\ pool_output_addr + OutputBase < OutputBase + Volume
    BY <1>2, <2>2, InResult
  <2>4. OutputBase <= pool_output_addr + OutputBase
    BY <2>3, <2>2, SizeAssumption
  <2> QED
    BY <1>3, <2>1, <2>3, <2>4, Zenon DEF PoolWrites
<1>4. CASE ActWrites
  <2>1. ResultSize = config.tensor_size
    BY <1>1, <1>4 DEF ActWrites, Control, ResultSize
  <2>2. act_output_addr \in 0 .. config.tensor_size - 1
    BY <1>1, ElementNext
  <2>3. /\ (act_output_addr + OutputBase) % Size = act_output_addr + OutputBase
        /\ act_output_addr + OutputBase \in Addr
        /\ act_output_addr + OutputBase >= OutputBase
        /\ act_output_addr + OutputBase < OutputBase + config.tensor_size
    BY <1>2, <2>2, InResult
  <2>4. OutputBase <= act_output_addr + OutputBase
    BY <2>3, <2>2, SizeAssumption
  <2> QED
    BY <1>4, <2>1, <2>3, <2>4, Zenon DEF ActWrites
<1> QED
  BY <1>3, <1>4

LEMMA OutsideInductive == UnitsInv /\ OutsideResultIsKept /\ [Next]_vars => OutsideResultIsKept'
<1> SUFFICES ASSUME UnitsInv, OutsideResultIsKept, [Next]_vars PROVE OutsideResultIsKept'
  OBVIOUS
<1>1. CASE Reset
  BY <1>1 DEF Reset, OutsideResultIsKept
<1>2. ASSUME NEW u, Launch(u) PROVE OutsideResultIsKept'
  <2>1. \A a \in Addr : ram'[a] = Loaded(a)
    BY <1>2, JustLoaded DEF Launch
  <2> QED
    BY <2>1 DEF OutsideResultIsKept
<1>3. CASE Stays /\ (ram' = ram \/ PoolWrites \/ ActWrites)
  <2> SUFFICES ASSUME Fits', selected_operation' # "CONV", NEW a \in Addr,
                      a < OutputBase \/ a >= OutputBase + ResultSize'
               PROVE  ram'[a] = Loaded(a)
    BY DEF OutsideResultIsKept
  <2>1. Fits' = Fits /\ ResultSize' = ResultSize /\ selected_operation # "CONV"
    BY <1>3 DEF Stays, Fits, ResultSize, Volume, output_height, output_width
  <2>2. ram[a] = Loaded(a)
    BY <2>1 DEF OutsideResultIsKept
  <2>3. CASE ram' = ram
    BY <2>2, <2>3
  <2>4. CASE PoolWrites \/ ActWrites
    <3>1. selected_operation \in {"POOL", "ACT"}
      BY <2>1 DEF UnitsInv, Control
    <3>2. PICK x \in Addr : /\ \E w : ram' = [ram EXCEPT ![x] = w]
                            /\ OutputBase <= x /\ x < OutputBase + ResultSize
      BY <2>1, <2>4, <3>1, WritesInResult
    <3>3. a # x
      <4>1. ResultSize \in Int /\ OutputBase \in Int /\ x \in Int /\ a \in Int
        BY <3>1, VolumeType, SettingsResult, SizeAssumption DEF UnitsInv, Typed, ResultSize, Addr
      <4> QED
        BY <2>1, <3>2, <4>1
    <3>4. IsStore(ram)
      BY DEF UnitsInv, Typed
    <3> QED
      BY <2>2, <3>2, <3>3, <3>4, WordWritten
  <2> QED
    BY <1>3, <2>3, <2>4
<1> QED
  BY <1>1, <1>2, <1>3, RamMoves

(* The operands stay, and nothing beyond the result is written, whatever the
   pipeline holds of the operation before: for every configuration whose
   tensors fit their regions of the RAM (Fits).                            *)
THEOREM OutsideUntouched == Spec => []OutsideResultIsKept
<1>1. Init => OutsideResultIsKept
  BY DEF Init, OutsideResultIsKept
<1> QED
  BY <1>1, OutsideInductive, UnitsInvariance, PTL DEF Spec

-----------------------------------------------------------------------------
(* The positions the block has passed, images outermost and columns innermost,
   and what it has left there.                                             *)
Passed(p) ==
  \/ p[1] < cnt.batch
  \/ /\ p[1] = cnt.batch
     /\ \/ p[4] < cnt.channel
        \/ /\ p[4] = cnt.channel
           /\ p[2] < cnt.out_h \/ (p[2] = cnt.out_h /\ p[3] < cnt.out_w)

Reached(p) == p[1] = cnt.batch /\ p[4] = cnt.channel /\ p[2] = cnt.out_h /\ p[3] = cnt.out_w

Where(p) ==
  OutputBase + ((p[1] * output_height + p[2]) * output_width + p[3]) * config.channels + p[4]

IsWhole(w) == \E s : w = Pooled(s) /\ Len(s) = config.pool_size * config.pool_size
Whole(p)   == IsWhole(ram[Where(p)])

WholeSoFar ==
  Fits /\ selected_operation = "POOL" =>
    \A p \in Positions :
      /\ pool_state = "POOL_COMPUTE" /\ Passed(p) => Whole(p)
      /\ pool_state \in {"WRITE_OUTPUT", "DONE_ST"} \/ top_state = "DONE_ST" => Whole(p)

LEMMA PositionsResult ==
  ASSUME config \in Configs, NEW p \in Positions
  PROVE  /\ p[1] \in 0 .. config.batch_size - 1 /\ p[4] \in 0 .. config.channels - 1
         /\ p[2] \in 0 .. output_height - 1 /\ p[3] \in 0 .. output_width - 1
         /\ {p[1], p[2], p[3], p[4]} \subseteq Nat
BY DEF Positions

LEMMA WhereResult ==
  ASSUME config \in Configs, Fits, NEW p \in Positions
  PROVE  Where(p) = Place(p[1], p[4], p[2], p[3]) + OutputBase /\ Where(p) \in Addr
<1>1. /\ p[1] \in 0 .. config.batch_size - 1 /\ p[4] \in 0 .. config.channels - 1
      /\ p[2] \in 0 .. output_height - 1 /\ p[3] \in 0 .. output_width - 1
  BY PositionsResult
<1> DEFINE a == Place(p[1], p[4], p[2], p[3])
           x == (p[1] * output_height + p[2]) * output_width + p[3]
<1>2. a \in 0 .. Volume - 1
  BY <1>1, PlaceResult
<1>3. Volume \in Int /\ Volume <= Size - OutputBase
  BY VolumeType DEF Fits
<1>4. a + OutputBase \in Addr
  BY <1>2, <1>3, InResult
<1>5. Where(p) = a + OutputBase
  <2>1. {p[1], p[2], p[3], p[4], output_height, output_width, config.channels} \subseteq Int
    BY <1>1, SettingsResult, Dimensions
  <2>2. x \in Int
    BY <2>1
  <2>3. Where(p) = OutputBase + x * config.channels + p[4] /\ a = x * config.channels + p[4]
    BY DEF Where, Place
  <2> HIDE DEF a, x
  <2>4. x * config.channels \in Int /\ OutputBase \in Int
    BY <2>1, <2>2, SizeAssumption
  <2> QED
    BY <2>1, <2>3, <2>4
<1> QED
  BY <1>4, <1>5

(* Past a window there is one position more, and past the last all of them. *)
LEMMA PassedNext ==
  ASSUME config \in Configs, cnt \in Counters, ~last_output, cnt' = NextPosition,
         NEW p \in Positions, Passed(p)'
  PROVE  Passed(p) \/ Reached(p)
<1>1. /\ p[1] \in 0 .. config.batch_size - 1 /\ p[4] \in 0 .. config.channels - 1
      /\ p[2] \in 0 .. output_height - 1 /\ p[3] \in 0 .. output_width - 1
      /\ {p[1], p[2], p[3], p[4]} \subseteq Nat
  BY PositionsResult
<1>2. /\ {cnt.batch, cnt.channel, cnt.out_h, cnt.out_w} \subseteq Nat
      /\ {config.batch_size, config.channels, output_height, output_width} \subseteq Nat
  BY Ranges
<1> DEFINE n == cnt'
<1>3. \/ p[1] < n.batch
      \/ /\ p[1] = n.batch
         /\ \/ p[4] < n.channel
            \/ /\ p[4] = n.channel
               /\ p[2] < n.out_h \/ (p[2] = n.out_h /\ p[3] < n.out_w)
  BY DEF Passed
<1>4. \/ /\ cnt.out_w < output_width - 1
         /\ At(n, cnt.batch, cnt.channel, cnt.out_h, cnt.out_w + 1)
      \/ /\ cnt.out_w = output_width - 1 /\ cnt.out_h < output_height - 1
         /\ At(n, cnt.batch, cnt.channel, cnt.out_h + 1, 0)
      \/ /\ cnt.out_w = output_width - 1 /\ cnt.out_h = output_height - 1
         /\ cnt.channel + 1 < config.channels
         /\ At(n, cnt.batch, cnt.channel + 1, 0, 0)
      \/ /\ cnt.out_w = output_width - 1 /\ cnt.out_h = output_height - 1
         /\ cnt.channel + 1 = config.channels /\ cnt.batch < config.batch_size - 1
         /\ At(n, cnt.batch + 1, 0, 0, 0)
  BY NextPositionResult
<1> HIDE DEF n
<1>5. CASE At(n, cnt.batch, cnt.channel, cnt.out_h, cnt.out_w + 1)
  BY <1>1, <1>2, <1>3, <1>5 DEF At, Passed, Reached
<1>6. CASE /\ cnt.out_w = output_width - 1
           /\ At(n, cnt.batch, cnt.channel, cnt.out_h + 1, 0)
  BY <1>1, <1>2, <1>3, <1>6 DEF At, Passed, Reached
<1>7. CASE /\ cnt.out_w = output_width - 1 /\ cnt.out_h = output_height - 1
           /\ At(n, cnt.batch, cnt.channel + 1, 0, 0)
  BY <1>1, <1>2, <1>3, <1>7 DEF At, Passed, Reached
<1>8. CASE /\ cnt.out_w = output_width - 1 /\ cnt.out_h = output_height - 1
           /\ cnt.channel + 1 = config.channels
           /\ At(n, cnt.batch + 1, 0, 0, 0)
  BY <1>1, <1>2, <1>3, <1>8 DEF At, Passed, Reached
<1> QED
  BY <1>4, <1>5, <1>6, <1>7, <1>8

LEMMA PassedLast ==
  ASSUME config \in Configs, cnt \in Counters, last_output, NEW p \in Positions
  PROVE  Passed(p) \/ Reached(p)
<1>1. /\ p[1] \in 0 .. config.batch_size - 1 /\ p[4] \in 0 .. config.channels - 1
      /\ p[2] \in 0 .. output_height - 1 /\ p[3] \in 0 .. output_width - 1
      /\ {p[1], p[2], p[3], p[4]} \subseteq Nat
  BY PositionsResult
<1>2. /\ {cnt.batch, cnt.channel, cnt.out_h, cnt.out_w} \subseteq Nat
      /\ {config.batch_size, config.channels, output_height, output_width} \subseteq Nat
      /\ cnt.channel < config.channels
  BY Ranges
<1> QED
  BY <1>1, <1>2 DEF last_output, Passed, Reached

(* The last position is not reached before samples come. *)
LEMMA OverIsValid ==
  ASSUME UnitsInv, PoolCompute, PoolIsOver
  PROVE  feed["POOL"].valid
<1> SUFFICES ASSUME ~feed["POOL"].valid PROVE FALSE
  OBVIOUS
<1>1. cnt = NoCount /\ config \in Configs
  BY DEF PoolCompute, UnitsInv, Fed, Typed
<1>2. /\ config.pool_size - 1 = 0 /\ output_height - 1 = 0 /\ output_width - 1 = 0
  BY <1>1 DEF PoolIsOver, last_output, window_complete, NoCount
<1>3. output_height \in Nat /\ output_width \in Nat /\ config.pool_size \in Nat
  BY <1>1, SettingsResult, Dimensions
<1>4. config.pool_size > 1 \/ output_height > 1 \/ output_width > 1
  BY <1>1, SettingsResult DEF output_height, output_width
<1> QED
  BY <1>2, <1>3, <1>4

(* What is whole stays so, since all that is written is whole. *)
LEMMA WholeStays ==
  ASSUME UnitsInv, Fits, config' = config, NEW p \in Positions,
         PoolWrites, Whole(p) \/ Reached(p)
  PROVE  Whole(p)'
<1>1. config \in Configs /\ cnt \in Counters /\ IsStore(ram) /\ Sampled
  BY DEF UnitsInv, Typed
<1> DEFINE w == Pooled(Append(window, feed["POOL"].data))
           x == pool_output_addr + OutputBase
           a == Where(p)
<1>2. Volume \in Int /\ Volume <= Size - OutputBase
  BY <1>1, VolumeType DEF Fits
<1>3. x \in Addr /\ (pool_output_addr + OutputBase) % Size = x
  BY <1>1, <1>2, OutputAddress, InResult
<1>4. ram' = [ram EXCEPT ![x] = w]
  BY <1>3 DEF PoolWrites
<1>5. IsWhole(w)
  <2>1. Len(window) + 1 = config.pool_size * config.pool_size
    BY <1>1, NextSampleResult DEF Sampled, PoolWrites
  <2>2. Len(Append(window, feed["POOL"].data)) = config.pool_size * config.pool_size
    BY <1>1, <2>1, Appended DEF Sampled
  <2> QED
    BY <2>2 DEF IsWhole
<1>6. a \in Addr /\ (Reached(p) => a = x)
  BY <1>1, WhereResult, OutputAddress DEF Reached
<1>7. Whole(p)' = IsWhole(ram'[a])
  BY DEF Whole, IsWhole, Where, output_height, output_width
<1> HIDE DEF w, x, a
<1>8. ram'[x] = w /\ \A b \in Addr : b # x => ram'[b] = ram[b]
  BY <1>1, <1>3, <1>4, WordWritten
<1>9. CASE a = x
  BY <1>5, <1>7, <1>8, <1>9
<1>10. CASE a # x
  BY <1>6, <1>7, <1>8, <1>10 DEF Whole, a
<1> QED
  BY <1>9, <1>10

LEMMA WholeInductive == UnitsInv /\ WholeSoFar /\ [Next]_vars => WholeSoFar'
<1> SUFFICES ASSUME UnitsInv, WholeSoFar, [Next]_vars, Fits', selected_operation' = "POOL",
                    NEW p \in Positions'
             PROVE  /\ pool_state' = "POOL_COMPUTE" /\ Passed(p)' => Whole(p)'
                    /\ pool_state' \in {"WRITE_OUTPUT", "DONE_ST"} \/ top_state' = "DONE_ST" =>
                         Whole(p)'
  BY DEF WholeSoFar
<1>1. config \in Configs /\ cnt \in Counters /\ Control
  BY DEF UnitsInv, Typed
<1>2. ASSUME Stays PROVE Fits /\ selected_operation = "POOL" /\ p \in Positions
  BY <1>2 DEF Stays, Fits, Volume, Positions, output_height, output_width
<1>3. ASSUME Stays, ram' = ram PROVE Whole(p)' = Whole(p)
  BY <1>3 DEF Stays, Whole, IsWhole, Where, output_height, output_width
<1>4. CASE Reset \/ LaunchActivation
  BY <1>4 DEF Reset, LaunchActivation, Launch
<1>5. CASE LaunchPooling
  BY <1>5 DEF LaunchPooling
<1>6. CASE SetupDims
  <2>1. cnt' = NoCount /\ pool_state' = "POOL_COMPUTE" /\ top_state' = "POOL_OP" /\ Stays
    BY <1>1, <1>6 DEF SetupDims, UnitsInv, Fed, Control, top, Stays
  <2>2. p \in Positions /\ {p[1], p[2], p[3], p[4]} \subseteq Nat
    BY <1>1, <1>2, <2>1, PositionsResult
  <2>3. ~Passed(p)'
    BY <2>1, <2>2 DEF Passed, NoCount
  <2> QED
    BY <2>1, <2>3
<1>7. CASE PoolCompute
  <2>1. /\ Stays /\ top_state' = "POOL_OP" /\ pool_state = "POOL_COMPUTE"
        /\ pool_state' = IF PoolIsOver THEN "WRITE_OUTPUT" ELSE "POOL_COMPUTE"
        /\ cnt' = IF feed["POOL"].valid THEN NextSample ELSE cnt
    BY <1>1, <1>7 DEF PoolCompute, Control, top, Stays
  <2>2. Fits /\ selected_operation = "POOL" /\ p \in Positions /\ (Passed(p) => Whole(p))
    BY <1>2, <2>1 DEF WholeSoFar
  <2>3. CASE feed["POOL"].valid /\ window_complete
    <3>1. PoolWrites
      BY <1>7, <2>3 DEF PoolCompute, ReadUnlessWritten, PoolWrites
    <3>2. Passed(p) \/ Reached(p) => Whole(p)'
      BY <2>1, <2>2, <3>1, WholeStays DEF Stays
    <3>3. CASE last_output
      BY <1>1, <2>2, <3>2, <3>3, PassedLast
    <3>4. CASE ~last_output
      <4>1. pool_state' = "POOL_COMPUTE" /\ cnt' = NextPosition
        BY <1>1, <2>1, <2>3, <3>4, NextSampleResult DEF PoolIsOver
      <4>2. Passed(p)' => Passed(p) \/ Reached(p)
        BY <1>1, <2>2, <3>4, <4>1, PassedNext
      <4> QED
        BY <2>1, <3>2, <4>1, <4>2
    <3> QED
      BY <3>3, <3>4
  <2>4. CASE ~(feed["POOL"].valid /\ window_complete)
    <3>1. ram' = ram
      BY <1>7, <2>4 DEF PoolCompute, ReadUnlessWritten
    <3>2. ~PoolIsOver
      BY <1>7, <2>4, OverIsValid DEF PoolIsOver
    <3>3. At(cnt', cnt.batch, cnt.channel, cnt.out_h, cnt.out_w)
      BY <1>1, <2>1, <2>4, NextSampleResult DEF At
    <3>4. Passed(p)' => Passed(p)
      BY <3>3 DEF Passed, At
    <3> QED
      BY <1>3, <2>1, <2>2, <3>1, <3>2, <3>4
  <2> QED
    BY <2>3, <2>4
<1>8. CASE WriteOutput \/ FinishPooling \/ Settle \/ UNCHANGED vars
  <2>1. Stays /\ ram' = ram
    BY <1>8 DEF WriteOutput, FinishPooling, Settle, Read, vars, port, top, Stays
  <2>2. /\ pool_state' = "POOL_COMPUTE" => pool_state = "POOL_COMPUTE" /\ cnt' = cnt
        /\ pool_state' \in {"WRITE_OUTPUT", "DONE_ST"} \/ top_state' = "DONE_ST" =>
             pool_state \in {"WRITE_OUTPUT", "DONE_ST"} \/ top_state = "DONE_ST"
    BY <1>1, <1>8 DEF WriteOutput, FinishPooling, Settle, PoolIdle, vars, top, pool, Control
  <2>3. cnt' = cnt => Passed(p)' = Passed(p)
    BY DEF Passed
  <2> QED
    BY <1>2, <1>3, <2>1, <2>2, <2>3 DEF WholeSoFar
<1>9. CASE InitLut \/ Process \/ PipelineFlush \/ FinishActivation
  <2>1. selected_operation' = "ACT"
    BY <1>1, <1>9 DEF InitLut, Process, PipelineFlush, FinishActivation, top, Control
  <2> QED
    BY <2>1
<1> QED
  BY <1>4, <1>5, <1>6, <1>7, <1>8, <1>9 DEF Next, Clock

(* A window that is pooled is whole, in every position of the result and none
   left out, though the block leaves its loop at the last position without
   asking for a sample: samples have come on every clock since the third.  *)
THEOREM WindowsWhole == Spec => []PooledWindowsAreWhole
<1>1. Init => WholeSoFar
  BY DEF Init, WholeSoFar
<1>2. WholeSoFar => PooledWindowsAreWhole
  <2> SUFFICES ASSUME WholeSoFar, top_state = "DONE_ST", selected_operation = "POOL", Fits,
                      NEW p \in Positions
               PROVE  /\ PooledWord(p) \notin {Loaded(a) : a \in Addr}
                      /\ Len(PooledWord(p).window) = config.pool_size * config.pool_size
    BY DEF PooledWindowsAreWhole
  <2>1. IsWhole(PooledWord(p))
    BY DEF WholeSoFar, Whole, Where, PooledWord
  <2>2. PICK s : PooledWord(p) = Pooled(s) /\ Len(s) = config.pool_size * config.pool_size
    BY <2>1 DEF IsWhole
  <2>3. Pooled(s).window = s
    BY DEF Pooled
  <2>4. ASSUME NEW a PROVE Pooled(s) # Loaded(a)
    <3>1. DOMAIN Pooled(s) = {"window"} /\ DOMAIN Loaded(a) = {"at"}
      BY DEF Pooled, Loaded
    <3> QED
      BY <3>1
  <2> QED
    BY <2>2, <2>3, <2>4
<1> QED
  BY <1>1, <1>2, WholeInductive, UnitsInvariance, PTL DEF Spec
=============================================================================
