--------------------------- MODULE ChannelPatterns --------------------------
(***************************************************************************)
(* The programs of pattern/ and the channel programs of LeetCode/ as       *)
(* networks, with fewer goroutines and values where the code has many of   *)
(* one kind, and what must hold of them.                                   *)
(***************************************************************************)
EXTENDS ChannelNetwork

\* A producer that does not close its channel.
ProducerLeavesOpen(values, ch) == [Node EXCEPT !.emits = values, !.outs = <<ch>>]

Producer(values, ch) == [Node EXCEPT !.emits = values, !.outs = <<ch>>, !.closes = {ch}]

\* The one that logs what comes.
Sink(chs) == [Node EXCEPT !.ins = chs, !.logs = TRUE]

\* pattern/pipeline: gen, square, double.
Pipeline(nums) ==
  [gen |-> Producer(nums, 1),
   square |-> [Node EXCEPT !.ins = {1}, !.square = TRUE, !.outs = <<2>>, !.closes = {2}],
   double |-> [Node EXCEPT !.ins = {2}, !.times = 2, !.outs = <<3>>, !.closes = {3}],
   main |-> Sink({3})]

\* pattern/pipelineWithCancel: main takes one value and cancels.
PipelineWithCancel ==
  [gen |-> [Producer(<<1, 2, 3>>, 1) EXCEPT !.send = "select"],
   square |-> [Node EXCEPT !.ins = {1}, !.square = TRUE, !.outs = <<2>>,
                           !.send = "select", !.closes = {2}],
   main |-> [Sink({2}) EXCEPT !.takes = 1, !.cancels = TRUE]]

\* pattern/fanIn: main closes the channel when the workers are through; the
\* consumer's last message, which main waits for, is its end.
FanIn(tasks) ==
  [g \in DOMAIN tasks \union {"closer", "consumer", "main"} |->
     CASE g = "closer" -> [Node EXCEPT !.awaits = DOMAIN tasks, !.closes = {1}]
       [] g = "consumer" -> Sink({1})
       [] g = "main" -> [Node EXCEPT !.awaits = {"closer", "consumer"}]
       [] OTHER -> ProducerLeavesOpen(tasks[g], 1)]

\* pattern/fanOut.
FanOut(jobs, workers) ==
  [g \in workers \union {"producer", "main"} |->
     CASE g = "producer" -> Producer(jobs, 1)
       [] g = "main" -> [Node EXCEPT !.awaits = workers]
       [] OTHER -> Sink({1})]

\* pattern/workerPool: workers on one side of the channel, consumers on the other.
WorkerPool(tasks, consumers) ==
  [g \in DOMAIN tasks \union consumers \union {"closer", "main"} |->
     CASE g = "closer" -> [Node EXCEPT !.awaits = DOMAIN tasks, !.closes = {1}]
       [] g = "main" -> [Node EXCEPT !.awaits = consumers \union {"closer"}]
       [] g \in consumers -> Sink({1})
       [] OTHER -> ProducerLeavesOpen(tasks[g], 1)]

\* pattern/tee: every value goes to out1 and then to out2.
Tee ==
  [producer |-> Producer(<<1, 2>>, 1),
   tee |-> [Node EXCEPT !.ins = {1}, !.outs = <<2, 3>>, !.closes = {2, 3}],
   a |-> Sink({2}), b |-> Sink({3}),
   main |-> [Node EXCEPT !.awaits = {"a", "b"}]]

\* pattern/bridge: channels 2 and 3 come through channel 1, in that order.
Bridge ==
  [producer2 |-> Producer(<<11, 12>>, 2),
   producer3 |-> Producer(<<13>>, 3),
   outer |-> Producer(<<2, 3>>, 1),
   bridge |-> [Node EXCEPT !.ins = {1}, !.inner = TRUE, !.outs = <<4>>, !.closes = {4}],
   main |-> Sink({4})]

\* pattern/orDone: main closes done for every large value, not only the first.
OrDone ==
  [producer |-> Producer(<<1, 2, 3>>, 1),
   orDone |-> [Node EXCEPT !.ins = {1}, !.recv = "select", !.send = "check",
                           !.times = 2, !.outs = <<2>>, !.closes = {2}],
   main |-> [Sink({2}) EXCEPT !.stops = {4, 6}, !.twice = TRUE]]

\* pattern/fanInCancelation: merge, with one forwarder for each producer.
FanInCancelation ==
  LET Canceling(node) == [node EXCEPT !.recv = "select", !.send = "select"]
      Forward(ch) == Canceling([Node EXCEPT !.ins = {ch}, !.outs = <<3>>])
  IN
  [producer1 |-> Canceling(Producer(<<1, 2>>, 1)),
   producer2 |-> Canceling(Producer(<<3, 4>>, 2)),
   forward1 |-> Forward(1), forward2 |-> Forward(2),
   closer |-> [Node EXCEPT !.awaits = {"forward1", "forward2"}, !.closes = {3}],
   main |-> [Sink({3}) EXCEPT !.stops = {3, 4}]]

\* pattern/doneSignal: a worker that stops when main closes done.
DoneSignal ==
  [worker |-> [Node EXCEPT !.ins = {1}, !.recv = "select"],
   main |-> [Node EXCEPT !.cancels = TRUE]]

\* pattern/dynamicSelectDisable: main receives from both until both are closed.
DynamicSelectDisable ==
  [first |-> Producer(<<10>>, 1), second |-> Producer(<<20>>, 2), main |-> Sink({1, 2})]

\* pattern/firstResponder: main takes the first answer and closes the channel;
\* whoever has answered cancels the others.
FirstResponder ==
  LET Server(answer) ==
        [Node EXCEPT !.emits = <<answer>>, !.send = "check", !.outs = <<1>>, !.cancels = TRUE]
  IN
  [serverA |-> Server(1), serverB |-> Server(2), serverC |-> Server(3),
   main |-> [Sink({1}) EXCEPT !.takes = 1, !.closes = {1}]]

\* A third that waits for the channel of second.
PrintAnyOrder ==
  [first |-> [Node EXCEPT !.emits = <<1>>, !.logs = TRUE, !.outs = <<1>>],
   second |-> [Node EXCEPT !.ins = {1}, !.takes = 1, !.says = <<2>>, !.logs = TRUE,
                           !.outs = <<2>>],
   third |-> [Node EXCEPT !.ins = {1}, !.takes = 1, !.says = <<3>>, !.logs = TRUE]]

\* LeetCode/1114: first, second and third, started in any order.
PrintInOrder ==
  [first |-> [Node EXCEPT !.emits = <<1>>, !.logs = TRUE, !.outs = <<1>>],
   second |-> [Node EXCEPT !.ins = {1}, !.takes = 1, !.says = <<2>>, !.logs = TRUE,
                           !.outs = <<2>>],
   third |-> [Node EXCEPT !.ins = {2}, !.takes = 1, !.says = <<3>>, !.logs = TRUE]]

\* n times the same.
Times(n, what) == [i \in 1 .. n |-> what]

\* LeetCode/1115: foo and bar pass the turn to one another.
FooBar(n) ==
  [foo |-> [Node EXCEPT !.ins = {1}, !.takes = n, !.says = Times(n, 1), !.logs = TRUE,
                        !.outs = <<2>>],
   bar |-> [Node EXCEPT !.ins = {2}, !.takes = n, !.says = Times(n, 2), !.logs = TRUE,
                        !.outs = <<1>>, !.quiet = TRUE],
   main |-> [Node EXCEPT !.emits = <<0>>, !.outs = <<1>>, !.awaits = {"bar"},
                         !.closes = {1, 2}]]

\* LeetCode/1116: zero passes the turn to odd and even alternately; who prints n
\* closes the channel of zero.  wg counts a number before it is printed, so main
\* waits for its receipt only.
ZeroEvenOdd(n) ==
  LET Printer(count, number(_), ch, isLast) ==
        [Node EXCEPT !.ins = {ch}, !.takes = count, !.outs = <<1>>, !.logs = TRUE,
                     !.says = [i \in 1 .. count |-> number(i)], !.quiet = isLast,
                     !.closes = IF isLast THEN {1, ch} ELSE {ch}]
      OddNumber(i) == 2 * i - 1
      EvenNumber(i) == 2 * i
  IN
  [zero |-> [Node EXCEPT !.ins = {1}, !.says = Times(n, 0), !.logs = TRUE,
                         !.outs = <<2, 3>>, !.turns = TRUE],
   odd |-> Printer((n + 1) \div 2, OddNumber, 2, n % 2 = 1),
   even |-> Printer(n \div 2, EvenNumber, 3, n % 2 = 0),
   main |-> [Node EXCEPT !.emits = <<0>>, !.outs = <<1>>, !.taken = {"odd", "even"}]]

Patterns ==
  [pipeline |-> Pipeline(<<1, 2, 3>>), pipelineWithCancel |-> PipelineWithCancel,
   fanIn |-> FanIn([worker1 |-> <<1, 2>>, worker2 |-> <<3>>, worker3 |-> <<>>]),
   fanOut |-> FanOut(<<1, 2, 3>>, {"worker1", "worker2", "worker3"}),
   workerPool |-> WorkerPool([worker1 |-> <<1, 2>>, worker2 |-> <<3>>],
                             {"consumer1", "consumer2"}),
   tee |-> Tee, bridge |-> Bridge,
   orDone |-> OrDone, fanInCancelation |-> FanInCancelation, doneSignal |-> DoneSignal,
   dynamicSelectDisable |-> DynamicSelectDisable, firstResponder |-> FirstResponder,
   printInOrder |-> PrintInOrder, fooBar |-> FooBar(2), zeroEvenOdd |-> ZeroEvenOdd(4)]

\* What Pipeline, FooBar and ZeroEvenOdd log.
PipelineOutput(nums) == [i \in 1 .. Len(nums) |-> 2 * (nums[i] * nums[i])]
FooBarOutput(n) == [i \in 1 .. 2 * n |-> IF i % 2 = 1 THEN 1 ELSE 2]
ZeroEvenOddOutput(n) == [i \in 1 .. 2 * n |-> IF i % 2 = 1 THEN 0 ELSE i \div 2]

Outputs ==
  [pipeline |-> PipelineOutput(<<1, 2, 3>>), pipelineWithCancel |-> <<1>>,
   fanIn |-> <<1, 2, 3>>, fanOut |-> <<1, 2, 3>>, workerPool |-> <<1, 2, 3>>,
   tee |-> <<1, 1, 2, 2>>, bridge |-> <<11, 12, 13>>, orDone |-> <<2, 4, 6>>,
   fanInCancelation |-> <<1, 2, 3, 4>>, doneSignal |-> <<>>,
   dynamicSelectDisable |-> <<10, 20>>, firstResponder |-> <<1, 2, 3>>,
   printInOrder |-> <<1, 2, 3>>, fooBar |-> FooBarOutput(2),
   zeroEvenOdd |-> ZeroEvenOddOutput(4)]

InOrder ==
  {"pipeline", "pipelineWithCancel", "bridge", "orDone", "printInOrder", "fooBar",
   "zeroEvenOdd"}
-----------------------------------------------------------------------------
\* Nothing is logged twice or out of thin air; programs with one path from
\* source to log, and those that exist for their order, log in order; and when
\* main has ended, and so the process, everything has been logged, unless main
\* cancels or takes one answer only.  1116 may miss its last number, against
\* its text (1116/main.go:19: "the length of the series must be 2n").
LogsFollowResults ==
  /\ ToBag(log) \sqsubseteq ToBag(Results[prog])
  /\ prog \in InOrder => IsPrefix(log, Results[prog])
  /\ "main" \in Goroutines /\ pc["main"] = "done" =>
       Len(Results[prog]) - Len(log) <=
         CASE prog = "zeroEvenOdd" -> 1
           [] prog = "firstResponder" -> 2
           [] prog \in {"orDone", "fanInCancelation"} /\ cancelled -> 3
           [] OTHER -> 0

\* Every goroutine ends, cancelled or not, and no channel is closed twice or
\* sent on when closed.  But orDone may close done twice, and its producer may
\* stay behind with a value nobody wants; firstResponder closes the channel on
\* which a slower server may be sending.
NobodyLeft(g) == pc[g] = "done" \/ (prog = "orDone" /\ g = "producer" /\ cancelled)
EverybodyEnds ==
  <>(\/ panicked /\ prog \in {"orDone", "firstResponder"}
     \/ \A g \in Goroutines : NobodyLeft(g))
=============================================================================
