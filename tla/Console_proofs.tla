--------------------------- MODULE Console_proofs ---------------------------
(***************************************************************************)
(* Proofs about the console, for every length of the buffers and of the    *)
(* device's FIFOs, every timeout, with and without a system clock: no      *)
(* character is lost, repeated or reordered in either direction, and       *)
(* neither side waits for an interrupt that the other has disabled.        *)
(***************************************************************************)
EXTENDS Console, TLAPS

-----------------------------------------------------------------------------
(* The circular buffers.                                                   *)

Index == 0 .. BUF_LEN - 1

\* Characters between two indices, and the place of a cell among them.
fill(in, out) == IF in >= out THEN in - out ELSE BUF_LEN + in - out
place(i, out) == fill(i, out)

LEMMA Indices ==
  /\ BUF_LEN \in Nat /\ BUF_LEN >= 2
  /\ \A i \in Index : i \in Nat /\ i <= BUF_LEN - 1
  BY BufferAssumption DEF Index

LEMMA ZeroIndex == 0 \in Index
  BY BufferAssumption DEF Index

LEMMA Wrap ==
  ASSUME NEW i \in Nat, i <= BUF_LEN
  PROVE  i % BUF_LEN = IF i = BUF_LEN THEN 0 ELSE i
  <1>1. BUF_LEN \in Nat /\ BUF_LEN > 0
    BY BufferAssumption
  <1>2. CASE i = BUF_LEN
    <2>1. BUF_LEN % BUF_LEN = 0
      BY <1>1
    <2> QED
      BY <1>2, <2>1
  <1>3. CASE i < BUF_LEN
    BY <1>1, <1>3
  <1> QED
    BY <1>1, <1>2, <1>3

LEMMA NextIndex ==
  ASSUME NEW i \in Index
  PROVE  next(i) \in Index /\ next(i) # i /\ next(i) = IF i + 1 = BUF_LEN THEN 0 ELSE i + 1
  <1>1. i \in Nat /\ i + 1 <= BUF_LEN /\ BUF_LEN \in Nat /\ BUF_LEN >= 2
    BY BufferAssumption DEF Index
  <1>2. next(i) = IF i + 1 = BUF_LEN THEN 0 ELSE i + 1
    BY <1>1, Wrap DEF next
  <1> QED
    BY <1>1, <1>2 DEF Index

LEMMA Fill ==
  ASSUME NEW in \in Index, NEW out \in Index
  PROVE  fill(in, out) \in Index /\ (fill(in, out) = 0 <=> in = out)
  BY BufferAssumption DEF fill, Index

\* The side that puts in n characters moves its index.
LEMMA Filled ==
  ASSUME NEW in \in Index, NEW out \in Index, NEW m \in Nat,
         in + m <= BUF_LEN, fill(in, out) + m <= BUF_LEN - 1
  PROVE  /\ (in + m) % BUF_LEN \in Index
         /\ fill((in + m) % BUF_LEN, out) = fill(in, out) + m
  <1>1. BUF_LEN \in Nat /\ BUF_LEN >= 2 /\ in + m \in Nat
    BY BufferAssumption DEF Index
  <1>2. (in + m) % BUF_LEN = IF in + m = BUF_LEN THEN 0 ELSE in + m
    BY <1>1, Wrap
  <1> QED
    BY <1>1, <1>2 DEF fill, Index

\* The side that takes out n characters moves the other one.
LEMMA Emptied ==
  ASSUME NEW in \in Index, NEW out \in Index, NEW m \in Nat,
         out + m <= BUF_LEN, m <= fill(in, out)
  PROVE  /\ (out + m) % BUF_LEN \in Index
         /\ fill(in, (out + m) % BUF_LEN) = fill(in, out) - m
         /\ \A i \in Index : place(i, (out + m) % BUF_LEN) < BUF_LEN - m =>
              place(i, out) = place(i, (out + m) % BUF_LEN) + m
  <1>1. BUF_LEN \in Nat /\ BUF_LEN >= 2 /\ out + m \in Nat
    BY BufferAssumption DEF Index
  <1>2. (out + m) % BUF_LEN = IF out + m = BUF_LEN THEN 0 ELSE out + m
    BY <1>1, Wrap
  <1> QED
    BY <1>1, <1>2 DEF fill, place, Index

\* A run of cells that begins at in and does not reach the end has the places
\* after those that are filled, and no other cell has one of these.
LEMMA Placed ==
  ASSUME NEW in \in Index, NEW out \in Index, NEW m \in Nat, NEW i \in Index,
         in + m <= BUF_LEN, fill(in, out) + m <= BUF_LEN - 1
  PROVE  IF in <= i /\ i < in + m
           THEN place(i, out) = fill(in, out) + i - in
           ELSE place(i, out) < fill(in, out) + m => place(i, out) < fill(in, out)
  BY BufferAssumption DEF fill, place, Index

-----------------------------------------------------------------------------
(* Which steps concern which direction.                                    *)

\* All other steps leave a direction alone: the call it is in goes on, or
\* the program is at something else before and after.
Elsewhere(places) ==
  (pc' = pc /\ n' = n) \/ (pc \notin places /\ pc' \notin places)

writing == {"write_copy", "write_post"}
reading == {"read_copy", "read_post"}

OutputRests ==
  UNCHANGED <<tx_buf, tx_in, tx_out, output, written>> /\ Elsewhere(writing)
InputRests ==
  UNCHANGED <<rx_buf, rx_in, rx_out, typed, fetched, input>> /\ Elsewhere(reading)

LEMMA StartRests ==
  ASSUME Start
  PROVE  OutputRests /\ InputRests
  BY DEF Start, BootInterrupts, BootDevice, RegisterBegin, RegisterHandler,
         RegisterEnable, RegisterEnd, StartAlarm, Boot, callRest, driverRest, deviceVars, rxVars,
         txVars, OutputRests, InputRests, Elsewhere, writing, reading

LEMMA AskRests ==
  ASSUME Ask \/ Exit
  PROVE  OutputRests /\ InputRests
  <1>1. ASSUME NEW where \in {"write", "read", "close"}, NEW nb \in BOOLEAN,
               NEW length \in Lengths \union {0}, Call(where, nb, length)
        PROVE  OutputRests /\ InputRests
    BY <1>1 DEF Call, deviceSide, deviceVars, rxVars, txVars, OutputRests, InputRests,
                Elsewhere, writing, reading
  <1>2. ASSUME NEW value \in Timeouts, TIOCSTIMEOUT(value)
        PROVE  OutputRests /\ InputRests
    BY <1>2 DEF TIOCSTIMEOUT, deviceVars, rxVars, txVars, callVars, OutputRests, InputRests, Elsewhere
  <1>3. CASE Exit
    BY <1>3 DEF Exit, deviceSide, deviceVars, rxVars, txVars, callRest, OutputRests, InputRests,
                Elsewhere, writing, reading
  <1> QED
    BY <1>1, <1>2, <1>3 DEF Ask, Write, Read

LEMMA InterruptRests ==
  ASSUME Interrupts \/ Second
  PROVE  /\ OutputRests \/ (ServeUart /\ IsrSend)
         /\ InputRests \/ (ServeUart /\ (IsrReceive \/ IsrLate))
  <1>1. CASE Enter \/ Leave \/ Serve \/ Second
    BY <1>1 DEF Enter, Leave, Serve, Second, uartVars, vars, callVars, deviceVars, rxVars, txVars,
                OutputRests, InputRests, Elsewhere
  <1>2. CASE ServeTimer
    BY <1>2 DEF ServeTimer, Timeout, callVars, rxVars, txVars, OutputRests, InputRests, Elsewhere
  <1>3. CASE ServeUart
    <2>1. CASE IsrPoll
      BY <2>1 DEF IsrPoll, callVars, deviceVars, rxVars, txVars, OutputRests, InputRests, Elsewhere
    <2>2. CASE IsrReceive
      BY <1>3, <2>2 DEF IsrReceive, callVars, txVars, OutputRests, Elsewhere
    <2>3. CASE IsrFull \/ IsrNothing
      BY <2>3 DEF IsrFull, IsrNothing, callVars, deviceVars, rxVars, txVars, OutputRests, InputRests, Elsewhere
    <2>4. CASE IsrSend
      BY <1>3, <2>4 DEF IsrSend, callVars, rxVars, InputRests, Elsewhere
    <2>5. CASE IsrSent
      BY <2>5 DEF IsrSent, callVars, deviceVars, rxVars, txVars, OutputRests, InputRests, Elsewhere
    <2>6. CASE IsrLate
      BY <1>3, <2>6 DEF IsrLate, callVars, txVars, OutputRests, Elsewhere
    <2> QED
      BY <1>3, <2>1, <2>2, <2>3, <2>4, <2>5, <2>6 DEF ServeUart, Isr
  <1> QED
    BY <1>1, <1>2, <1>3 DEF Interrupts

LEMMA CallRests ==
  ASSUME Step
  PROVE  /\ OutputRests \/ WriteLook \/ WriteCopy \/ WritePost
         /\ InputRests \/ ReadLook \/ ReadCopy \/ ReadPost
  <1> USE DEF deviceSide, deviceVars, rxVars, txVars, Return, OutputRests, InputRests, Elsewhere, writing, reading
  <1>1. CASE WriteLook \/ WriteCopy \/ WritePost
    BY <1>1 DEF WriteLook, WriteCopy, WritePost
  <1>2. CASE ReadLook \/ ReadCopy \/ ReadPost
    BY <1>2 DEF ReadLook, ReadCopy, ReadPost
  <1>3. CASE WriteKick \/ WriteWait \/ WriteWaited
    BY <1>3 DEF WriteKick, WriteWait, WriteWaited
  <1>4. CASE ReadEmpty
    BY <1>4 DEF ReadEmpty
  <1>5. CASE ReadEnable \/ ReadWait \/ Close
    BY <1>5 DEF ReadEnable, ReadWait, Close
  <1> QED
    BY <1>1, <1>2, <1>3, <1>4, <1>5 DEF Step

LEMMA OutputSteps ==
  ASSUME [Next]_allVars
  PROVE  OutputRests \/ IsrSend \/ WriteLook \/ WriteCopy \/ WritePost
  <1>1. CASE Terminal
    BY <1>1 DEF Terminal, Types, Listens, Pauses, HostSends, HostTakes, HostPauses, callVars, txVars, OutputRests, Elsewhere
  <1>2. CASE UNCHANGED allVars
    BY <1>2 DEF allVars, uartVars, vars, callVars, deviceVars, txVars, OutputRests, Elsewhere
  <1> QED
    BY <1>1, <1>2, StartRests, AskRests, InterruptRests, CallRests DEF Next, Program

\* A character comes in, by itself or in the middle of a read that finds nothing.
Arrival == Arrives /\ UNCHANGED <<fetched, rx_buf, rx_in, rx_out, input, pc, n>>

LEMMA InputSteps ==
  ASSUME [Next]_allVars
  PROVE  InputRests \/ Arrival \/ IsrReceive \/ ReadLook \/ ReadCopy \/ ReadPost
  <1>1. CASE Terminal
    BY <1>1 DEF Terminal, Types, Listens, Pauses, HostSends, HostTakes, HostPauses, callVars, rxVars,
                Arrival, InputRests, Elsewhere
  <1>1a. CASE IsrLate
    BY <1>1a DEF IsrLate, callVars, rxVars, Arrival
  <1>2. CASE UNCHANGED allVars
    BY <1>2 DEF allVars, uartVars, vars, callVars, deviceVars, rxVars, InputRests, Elsewhere
  <1> QED
    BY <1>1, <1>1a, <1>2, StartRests, AskRests, InterruptRests, CallRests DEF Next, Program

-----------------------------------------------------------------------------
(* From the program to the host.                                           *)

sent == Len(output)

\* Characters that WriteLook has found room for, and those of them that are
\* in the buffer but not yet posted.
claimed == IF pc \in writing THEN n ELSE 0
unposted == IF pc = "write_post" THEN n ELSE 0

OutputTypes ==
  /\ tx_in \in Index /\ tx_out \in Index /\ written \in Nat
  /\ DOMAIN tx_buf = Index
  /\ output \in Seq(Nat)
  /\ pc \in writing => n \in Nat /\ tx_in + n <= BUF_LEN

\* What is in the buffer is what was written and not sent, in order.
OutputRing ==
  /\ fill(tx_in, tx_out) + claimed <= BUF_LEN - 1
  /\ written = sent + fill(tx_in, tx_out) + unposted
  /\ \A i \in Index : place(i, tx_out) < written - sent => tx_buf[i] = sent + place(i, tx_out) + 1
  /\ \A c \in 1 .. sent : output[c] = c

Outgoing == OutputTypes /\ OutputRing

LEMMA OutgoingInit ==
  ASSUME Init
  PROVE  Outgoing
  BY BufferAssumption DEF Init, Outgoing, OutputTypes, OutputRing, fill, place, claimed, unposted, sent, writing, Index

LEMMA OutgoingRests ==
  ASSUME Outgoing, OutputRests
  PROVE  Outgoing'
  <1>1. claimed' = claimed /\ unposted' = unposted /\ sent' = sent
    BY DEF OutputRests, Elsewhere, claimed, unposted, sent, writing
  <1>2. OutputTypes'
    BY DEF Outgoing, OutputTypes, OutputRests, Elsewhere
  <1>3. OutputRing'
    BY <1>1 DEF Outgoing, OutputRing, OutputRests, fill, place
  <1> QED
    BY <1>2, <1>3 DEF Outgoing

LEMMA OutgoingIsrSend ==
  ASSUME Outgoing, IsrSend
  PROVE  Outgoing'
  <1> USE DEF Outgoing, OutputTypes
  <1>0. tx_out \in Index /\ BUF_LEN \in Nat /\ BUF_LEN >= 2 /\ output \in Seq(Nat) /\ sent \in Nat
    BY BufferAssumption DEF sent
  <1>1. tx_in # tx_out /\ tx_in' = tx_in /\ tx_buf' = tx_buf /\ written' = written
        /\ pc' = pc /\ n' = n
    BY DEF IsrSend, txVars, callVars
  <1>2. tx_out' = (tx_out + 1) % BUF_LEN /\ output' = Append(output, tx_buf[tx_out])
    BY DEF IsrSend, next
  <1>3. fill(tx_in, tx_out) \in Index /\ fill(tx_in, tx_out) >= 1
    BY <1>1, Fill DEF Index
  <1>4. /\ tx_out' \in Index
        /\ fill(tx_in, tx_out') = fill(tx_in, tx_out) - 1
        /\ \A i \in Index : place(i, tx_out') < BUF_LEN - 1 => place(i, tx_out) = place(i, tx_out') + 1
    BY <1>0, <1>2, <1>3, Emptied DEF Index
  <1>5. claimed' = claimed /\ unposted' = unposted
    BY <1>1 DEF claimed, unposted
  <1>5a. unposted \in Nat /\ claimed \in Nat /\ unposted <= claimed
    BY DEF claimed, unposted, writing
  <1>6. tx_buf[tx_out] = sent + 1
    <2>1. place(tx_out, tx_out) = 0
      BY <1>0 DEF place, fill, Index
    <2>2. written - sent >= 1
      BY <1>0, <1>3, <1>5a DEF OutputRing, Index
    <2> QED
      BY <1>0, <2>1, <2>2 DEF OutputRing
  <1>7. output' \in Seq(Nat) /\ sent' = sent + 1
        /\ \A c \in 1 .. sent' : output'[c] = c
    <2>1. sent + 1 \in Nat
      BY <1>0
    <2>2. output' = Append(output, sent + 1)
      BY <1>2, <1>6
    <2> QED
      BY <1>0, <2>1, <2>2 DEF sent, OutputRing
  <1>7a. fill(tx_in, tx_out)' = fill(tx_in, tx_out) - 1
    BY <1>1, <1>4 DEF fill
  <1>8. written' = sent' + fill(tx_in, tx_out)' + unposted'
    BY <1>0, <1>1, <1>3, <1>7a, <1>5, <1>5a, <1>7 DEF OutputRing, Index
  <1>9. \A i \in Index : place(i, tx_out') < written' - sent' => tx_buf'[i] = sent' + place(i, tx_out') + 1
    <2> TAKE i \in Index
    <2> HAVE place(i, tx_out') < written' - sent'
    <2>1. written - sent <= BUF_LEN - 1 /\ written - sent \in Nat
      BY <1>0, <1>3, <1>5a DEF OutputRing, Index
    <2>2. place(i, tx_out') \in Index /\ place(i, tx_out) \in Index
      BY <1>0, <1>4, Fill DEF place
    <2>3. place(i, tx_out) = place(i, tx_out') + 1
      BY <1>0, <1>1, <1>4, <1>7, <2>1, <2>2 DEF Index
    <2>4. place(i, tx_out) < written - sent
      BY <1>0, <1>1, <1>7, <2>1, <2>2, <2>3 DEF Index
    <2> QED
      BY <1>0, <1>1, <1>7, <2>2, <2>3, <2>4 DEF OutputRing, Index
  <1>10. fill(tx_in, tx_out)' + claimed' <= BUF_LEN - 1
    BY <1>0, <1>3, <1>7a, <1>5, <1>5a DEF OutputRing, Index
  <1>11. OutputRing'
    BY <1>7, <1>8, <1>9, <1>10 DEF OutputRing, place, fill
  <1> QED
    BY <1>1, <1>4, <1>7, <1>11

LEMMA Room ==
  ASSUME NEW in \in Index, NEW out \in Index
  PROVE  /\ write_space(in, out) \in Index
         /\ in + write_space(in, out) <= BUF_LEN
         /\ fill(in, out) + write_space(in, out) <= BUF_LEN - 1
  BY BufferAssumption DEF write_space, fill, Index

LEMMA NoMore ==
  ASSUME NEW a \in Nat, NEW b \in Nat, NEW c \in Nat, NEW d \in Nat, NEW e \in Nat,
         a + b = c + d, b <= d, a <= e
  PROVE  c <= e
  OBVIOUS

LEMMA Shorter ==
  ASSUME NEW a \in Nat, NEW b \in Nat, NEW c \in Nat, NEW d \in Nat, a + b <= c, d <= b
  PROVE  a + d <= c
  OBVIOUS

LEMMA OutgoingWriteLook ==
  ASSUME Outgoing, WriteLook, count \in Nat
  PROVE  Outgoing'
  <1> USE DEF Outgoing, OutputTypes
  <1>1. UNCHANGED <<tx_buf, tx_in, tx_out, output, written>> /\ pc = "write"
    BY DEF WriteLook, txVars, deviceSide, deviceVars
  <1>2. claimed = 0 /\ unposted = 0 /\ unposted' = 0 /\ sent' = sent
    BY <1>1 DEF claimed, unposted, sent, writing, WriteLook
  <1>2a. write_space(tx_in, tx_out) \in Nat /\ tx_in \in Nat /\ BUF_LEN \in Nat
         /\ fill(tx_in, tx_out) \in Nat
    BY Room, Fill, Indices
  <1>3. \/ pc' = "write_copy" /\ n' \in Nat /\ n' <= write_space(tx_in, tx_out)
        \/ pc' = "write_kick"
    BY <1>2a DEF WriteLook, atMost
  <1>4. claimed' \in Nat /\ fill(tx_in, tx_out) + claimed' <= BUF_LEN - 1
        /\ (pc' \in writing => n' \in Nat /\ tx_in + n' <= BUF_LEN)
    <2>1. tx_in + write_space(tx_in, tx_out) <= BUF_LEN
          /\ fill(tx_in, tx_out) + write_space(tx_in, tx_out) <= BUF_LEN - 1
      BY Room
    <2>2. CASE pc' = "write_copy" /\ n' \in Nat /\ n' <= write_space(tx_in, tx_out)
      <3>1. claimed' = n'
        BY <2>2 DEF claimed, writing
      <3> QED
        <4>1. claimed' \in Nat /\ fill(tx_in, tx_out) + claimed' <= BUF_LEN - 1
          BY <1>2a, <2>1, <2>2, <3>1
        <4>2. n' \in Nat /\ tx_in + n' <= BUF_LEN
          <5>1. n' \in Nat /\ n' <= write_space(tx_in, tx_out)
            BY <2>2
          <5>2. tx_in + write_space(tx_in, tx_out) <= BUF_LEN
            BY <2>1
          <5> QED
            BY <1>2a, <5>1, <5>2, Shorter
        <4> QED
          BY <4>1, <4>2
    <2>3. CASE pc' = "write_kick"
      <3>1. claimed' = 0 /\ pc' \notin writing
        BY <2>3 DEF claimed, writing
      <3> QED
        BY <1>2a, <2>1, <3>1
    <2> QED
      BY <1>3, <2>2, <2>3
  <1>5. OutputRing'
    BY <1>1, <1>2, <1>4 DEF OutputRing, fill, place
  <1> QED
    BY <1>1, <1>4, <1>5

LEMMA OutgoingWriteCopy ==
  ASSUME Outgoing, WriteCopy
  PROVE  Outgoing'
  <1> USE DEF Outgoing, OutputTypes
  <1>0. BUF_LEN \in Nat /\ BUF_LEN >= 2 /\ sent \in Nat /\ tx_in \in Index /\ tx_out \in Index
        /\ fill(tx_in, tx_out) \in Index
    BY BufferAssumption, Fill DEF sent
  <1>1. /\ UNCHANGED <<tx_in, tx_out, output, n>> /\ pc = "write_copy" /\ pc' = "write_post"
        /\ written' = written + n
    BY DEF WriteCopy, deviceSide, deviceVars
  <1>2. n \in Nat /\ tx_in + n <= BUF_LEN /\ claimed = n /\ claimed' = n
        /\ unposted = 0 /\ unposted' = n /\ sent' = sent
    BY <1>1 DEF claimed, unposted, writing, sent
  <1>3. tx_buf' = [i \in Index |->
          IF tx_in <= i /\ i < tx_in + n THEN written + 1 + i - tx_in ELSE tx_buf[i]]
    BY DEF WriteCopy
  <1>4. written = sent + fill(tx_in, tx_out) /\ fill(tx_in, tx_out) + n <= BUF_LEN - 1
    BY <1>0, <1>2 DEF OutputRing, Index
  <1>5. \A i \in Index : place(i, tx_out) < written' - sent => tx_buf'[i] = sent + place(i, tx_out) + 1
    <2> TAKE i \in Index
    <2>1. place(i, tx_out) \in Index
      BY <1>0, Fill DEF place
    <2>2. IF tx_in <= i /\ i < tx_in + n
           THEN place(i, tx_out) = fill(tx_in, tx_out) + i - tx_in
           ELSE place(i, tx_out) < fill(tx_in, tx_out) + n => place(i, tx_out) < fill(tx_in, tx_out)
      BY <1>0, <1>2, <1>4, Placed
    <2>3. tx_buf'[i] = IF tx_in <= i /\ i < tx_in + n THEN written + 1 + i - tx_in ELSE tx_buf[i]
      BY <1>3
    <2>4. place(i, tx_out) < fill(tx_in, tx_out) => tx_buf[i] = sent + place(i, tx_out) + 1
      BY <1>0, <1>4 DEF OutputRing, Index
    <2> QED
      <3>1. CASE tx_in <= i /\ i < tx_in + n
        <4>1. tx_buf'[i] = written + 1 + i - tx_in /\ place(i, tx_out) = fill(tx_in, tx_out) + i - tx_in
          BY <2>2, <2>3, <3>1
        <4>2. i \in Nat /\ tx_in \in Nat /\ fill(tx_in, tx_out) \in Nat /\ sent \in Nat
          BY <1>0, Indices
        <4> QED
          BY <1>4, <4>1, <4>2
      <3>2. CASE ~(tx_in <= i /\ i < tx_in + n)
        <4>1. written' - sent = fill(tx_in, tx_out) + n
          BY <1>0, <1>1, <1>2, <1>4 DEF Index
        <4> QED
          BY <4>1, <2>2, <2>3, <2>4, <3>2
      <3> QED
        BY <3>1, <3>2
  <1>6. OutputRing'
    BY <1>0, <1>1, <1>2, <1>4, <1>5 DEF OutputRing, fill, place, Index, sent
  <1> QED
    BY <1>0, <1>1, <1>2, <1>3, <1>4, <1>6 DEF Index

LEMMA OutgoingWritePost ==
  ASSUME Outgoing, WritePost
  PROVE  Outgoing'
  <1> USE DEF Outgoing, OutputTypes
  <1>1. /\ UNCHANGED <<tx_buf, tx_out, output, written>> /\ pc = "write_post" /\ pc' = "write"
        /\ tx_in' = (tx_in + n) % BUF_LEN
    BY DEF WritePost, deviceSide, deviceVars
  <1>2. n \in Nat /\ tx_in + n <= BUF_LEN /\ claimed = n /\ claimed' = 0
        /\ unposted = n /\ unposted' = 0 /\ sent' = sent
    BY <1>1 DEF claimed, unposted, writing, sent
  <1>3. tx_in' \in Index /\ fill(tx_in', tx_out) = fill(tx_in, tx_out) + n
    BY <1>1, <1>2, Filled DEF OutputRing
  <1>4. sent \in Nat /\ fill(tx_in, tx_out) \in Nat
    BY Fill DEF sent, Index
  <1>5. OutputRing'
    BY <1>1, <1>2, <1>3, <1>4 DEF OutputRing, fill, place
  <1> QED
    BY <1>1, <1>3, <1>5 DEF writing

-----------------------------------------------------------------------------
(* From the host to the program.                                           *)

got == Len(input)

\* Characters that ReadLook has found, and those of them that the program has
\* and the buffer still counts.
wanted == IF pc \in reading THEN n ELSE 0
freeing == IF pc = "read_post" THEN n ELSE 0

InputTypes ==
  /\ rx_in \in Index /\ rx_out \in Index
  /\ typed \in Nat /\ fetched \in Nat
  /\ DOMAIN rx_buf = Index
  /\ input \in Seq(Nat)
  /\ pc \in reading => n \in Nat /\ rx_out + n <= BUF_LEN

\* What is in the buffer is what was fetched and not read, in order.
InputRing ==
  /\ fetched <= typed /\ typed - fetched <= FifoDepth
  /\ wanted <= fill(rx_in, rx_out)
  /\ fetched + freeing = got + fill(rx_in, rx_out)
  /\ \A i \in Index : place(i, rx_out) < fill(rx_in, rx_out) =>
       rx_buf[i] = fetched - fill(rx_in, rx_out) + place(i, rx_out) + 1
  /\ \A c \in 1 .. got : input[c] = c

Incoming == InputTypes /\ InputRing

LEMMA IncomingInit ==
  ASSUME Init
  PROVE  Incoming
  BY BufferAssumption, FifoAssumption DEF Init, Incoming, InputTypes, InputRing, fill, place, wanted, freeing, got, reading, Index

LEMMA IncomingRests ==
  ASSUME Incoming, InputRests
  PROVE  Incoming'
  <1>1. wanted' = wanted /\ freeing' = freeing /\ got' = got
    BY DEF InputRests, Elsewhere, wanted, freeing, got, reading
  <1>2. InputTypes'
    BY DEF Incoming, InputTypes, InputRests, Elsewhere
  <1>3. InputRing'
    BY <1>1 DEF Incoming, InputRing, InputRests, fill, place
  <1> QED
    BY <1>2, <1>3 DEF Incoming

LEMMA IncomingArrival ==
  ASSUME Incoming, Arrival
  PROVE  Incoming'
  <1> USE DEF Incoming, InputTypes
  <1>1. UNCHANGED <<fetched, rx_buf, rx_in, rx_out, input, pc, n>>
    BY DEF Arrival
  <1>2. typed' = typed + 1 /\ typed - fetched < FifoDepth
    BY DEF Arrival, Arrives, rx_level
  <1>3. wanted' = wanted /\ freeing' = freeing /\ got' = got
    BY <1>1 DEF wanted, freeing, got
  <1>4. typed' \in Nat /\ fetched' <= typed' /\ typed' - fetched' <= FifoDepth
    BY <1>1, <1>2, FifoAssumption DEF InputRing
  <1>5. InputRing'
    BY <1>1, <1>3, <1>4 DEF InputRing, fill, place
  <1> QED
    BY <1>1, <1>4, <1>5

LEMMA IncomingIsrReceive ==
  ASSUME Incoming, IsrReceive
  PROVE  Incoming'
  <1> USE DEF Incoming, InputTypes
  <1>1. /\ UNCHANGED <<typed, rx_out, input, pc, n>>
        /\ fetched' = fetched + 1 /\ rx_in' = next(rx_in)
        /\ rx_buf' = [rx_buf EXCEPT ![rx_in] = fetched + 1]
        /\ next(rx_in) # rx_out /\ typed - fetched > 0
    BY DEF IsrReceive, rx_full, rx_level, callVars
  <1>2. rx_in \in Nat /\ rx_out \in Nat /\ BUF_LEN \in Nat /\ BUF_LEN >= 2
        /\ rx_in <= BUF_LEN - 1 /\ rx_out <= BUF_LEN - 1
    BY Indices
  <1>3. fill(rx_in, rx_out) + 1 <= BUF_LEN - 1 /\ fill(rx_in, rx_out) \in Nat
    <2>1. next(rx_in) = IF rx_in + 1 = BUF_LEN THEN 0 ELSE rx_in + 1
      BY NextIndex
    <2> QED
      BY <1>1, <1>2, <2>1 DEF fill
  <1>4. rx_in' \in Index /\ fill(rx_in', rx_out) = fill(rx_in, rx_out) + 1
    <2>1. next(rx_in) = (rx_in + 1) % BUF_LEN
      BY DEF next
    <2> QED
      BY <1>1, <1>2, <1>3, <2>1, Filled
  <1>5. fill(rx_in, rx_out)' = fill(rx_in, rx_out) + 1
    BY <1>1, <1>4 DEF fill
  <1>6. wanted' = wanted /\ freeing' = freeing /\ got' = got
    BY <1>1 DEF wanted, freeing, got
  <1>7. wanted \in Nat /\ freeing \in Nat /\ got \in Nat
    BY DEF wanted, freeing, got, reading
  <1>8. fetched' \in Nat /\ fetched' <= typed' /\ typed' - fetched' <= FifoDepth
    BY <1>1, FifoAssumption DEF InputRing
  <1>9. wanted' <= fill(rx_in, rx_out)' /\ fetched' + freeing' = got' + fill(rx_in, rx_out)'
    <2>1. wanted <= fill(rx_in, rx_out) /\ fetched + freeing = got + fill(rx_in, rx_out)
      BY DEF InputRing
    <2>2. wanted' <= fill(rx_in, rx_out)'
      BY <1>3, <1>5, <1>6, <1>7, <2>1
    <2>3. fetched' + freeing' = got' + fill(rx_in, rx_out)'
      <3>1. (fetched + 1) + freeing = got + (fill(rx_in, rx_out) + 1)
        BY <1>3, <1>7, <2>1
      <3> QED
        BY <1>1, <1>5, <1>6, <3>1
    <2> QED
      BY <2>2, <2>3
  <1>10. \A i \in Index : place(i, rx_out) < fill(rx_in, rx_out)' =>
           rx_buf'[i] = fetched' - fill(rx_in, rx_out)' + place(i, rx_out) + 1
    <2> TAKE i \in Index
    <2>1. IF rx_in <= i /\ i < rx_in + 1
            THEN place(i, rx_out) = fill(rx_in, rx_out) + i - rx_in
            ELSE place(i, rx_out) < fill(rx_in, rx_out) + 1 => place(i, rx_out) < fill(rx_in, rx_out)
      <3>1. rx_in + 1 <= BUF_LEN
        BY <1>2
      <3> QED
        BY <1>3, <3>1, Placed
    <2>2. i \in Nat /\ place(i, rx_out) \in Nat
      BY Fill, Indices DEF place
    <2>3. CASE i = rx_in
      <3>1. rx_buf'[i] = fetched + 1 /\ place(i, rx_out) = fill(rx_in, rx_out)
        BY <1>1, <1>2, <1>3, <2>1, <2>3
      <3> QED
        BY <1>1, <1>3, <1>5, <3>1
    <2>4. CASE i # rx_in
      <3>1. rx_buf'[i] = rx_buf[i]
        BY <1>1, <2>4
      <3>2. place(i, rx_out) < fill(rx_in, rx_out) + 1 => place(i, rx_out) < fill(rx_in, rx_out)
        BY <1>2, <2>1, <2>2, <2>4
      <3>3. place(i, rx_out) < fill(rx_in, rx_out) =>
              rx_buf[i] = fetched - fill(rx_in, rx_out) + place(i, rx_out) + 1
        BY DEF InputRing
      <3>4. fetched' - fill(rx_in, rx_out)' = fetched - fill(rx_in, rx_out)
        BY <1>1, <1>3, <1>5
      <3> QED
        BY <1>3, <1>5, <2>2, <3>1, <3>2, <3>3, <3>4
    <2> QED
      BY <2>3, <2>4
  <1>11. InputRing'
    BY <1>1, <1>6, <1>8, <1>9, <1>10 DEF InputRing, place, fill, got
  <1> QED
    BY <1>1, <1>4, <1>8, <1>11

LEMMA Available ==
  ASSUME NEW in \in Index, NEW out \in Index
  PROVE  /\ read_data(in, out) \in Index
         /\ out + read_data(in, out) <= BUF_LEN
         /\ read_data(in, out) <= fill(in, out)
         /\ read_data(in, out) = 0 <=> in = out
  BY BufferAssumption DEF read_data, fill, Index

LEMMA IncomingReadLook ==
  ASSUME Incoming, ReadLook, count \in Nat
  PROVE  Incoming'
  <1> USE DEF Incoming, InputTypes
  <1>1. /\ UNCHANGED <<rx_buf, rx_in, rx_out, typed, fetched, input>>
        /\ pc = "read" /\ pc' = "read_copy"
    BY DEF ReadLook, deviceSide, deviceVars, rxVars
  <1>2. wanted' = n' /\ freeing = 0 /\ freeing' = 0 /\ got' = got
    BY <1>1 DEF wanted, freeing, got, reading
  <1>3. /\ read_data(rx_in, rx_out) \in Nat /\ rx_out \in Nat /\ BUF_LEN \in Nat
        /\ fill(rx_in, rx_out) \in Nat
    BY Available, Fill, Indices
  <1>4. n' \in Nat /\ n' <= read_data(rx_in, rx_out)
    BY <1>3 DEF ReadLook, atMost
  <1>5. rx_out + n' <= BUF_LEN
    BY <1>3, <1>4, Available, Shorter
  <1>6. n' <= fill(rx_in, rx_out)
    <2>1. read_data(rx_in, rx_out) <= fill(rx_in, rx_out)
      BY Available
    <2> QED
      BY <1>3, <1>4, <2>1
  <1>7. InputRing'
    BY <1>1, <1>2, <1>6 DEF InputRing, fill, place
  <1> QED
    BY <1>1, <1>4, <1>5, <1>7

LEMMA IncomingReadCopy ==
  ASSUME Incoming, ReadCopy
  PROVE  Incoming'
  <1> USE DEF Incoming, InputTypes
  <1>1. /\ UNCHANGED <<rx_buf, rx_in, rx_out, typed, fetched, n>>
        /\ pc = "read_copy" /\ pc' = "read_post"
    BY DEF ReadCopy, deviceSide, deviceVars, rxVars
  <1>2. n \in Nat /\ rx_out + n <= BUF_LEN /\ wanted = n /\ wanted' = n
        /\ freeing = 0 /\ freeing' = n
    BY <1>1 DEF wanted, freeing, reading
  <1>3. got \in Nat /\ fill(rx_in, rx_out) \in Nat /\ rx_out \in Nat /\ rx_in \in Nat
        /\ BUF_LEN \in Nat
    BY Fill, Indices DEF got
  <1>4. n <= fill(rx_in, rx_out) /\ fetched = got + fill(rx_in, rx_out)
    BY <1>2, <1>3 DEF InputRing
  <1>5. input' = [c \in 1 .. got + n |-> IF c <= got THEN input[c] ELSE rx_buf[rx_out + c - got - 1]]
    BY DEF ReadCopy, got
  <1>6. \A c \in 1 .. got + n : input'[c] = c
    <2> TAKE c \in 1 .. got + n
    <2>1. input'[c] = IF c <= got THEN input[c] ELSE rx_buf[rx_out + c - got - 1]
      BY <1>5
    <2>2. CASE c <= got
      BY <1>3, <2>1, <2>2 DEF InputRing
    <2>3. CASE c > got
      <3>1. PICK i : i = rx_out + c - got - 1
        OBVIOUS
      <3>2. i \in Index /\ place(i, rx_out) = c - got - 1
        BY <1>2, <1>3, <2>3, <3>1 DEF Index, place, fill
      <3>3. place(i, rx_out) < fill(rx_in, rx_out)
        BY <1>2, <1>3, <1>4, <2>3, <3>2
      <3>4. rx_buf[i] = fetched - fill(rx_in, rx_out) + place(i, rx_out) + 1
        BY <3>2, <3>3 DEF InputRing
      <3>5. rx_buf[i] = c
        BY <1>3, <1>4, <2>3, <3>2, <3>4
      <3>6. input'[c] = rx_buf[i]
        BY <1>3, <2>1, <2>3, <3>1
      <3> QED
        BY <3>5, <3>6
    <2> QED
      BY <1>2, <1>3, <2>2, <2>3
  <1>7. input' \in Seq(Nat) /\ got' = got + n
    <2>1. \A c \in 1 .. got + n : input'[c] \in Nat
      BY <1>6
    <2>2. input' \in [1 .. got + n -> Nat] /\ got + n \in Nat
      BY <1>2, <1>3, <1>5, <2>1
    <2> QED
      BY <2>2 DEF got
  <1>8. InputRing'
    <2>1. fetched' + freeing' = got' + fill(rx_in, rx_out)
      BY <1>1, <1>2, <1>3, <1>4, <1>7
    <2>2. wanted' <= fill(rx_in, rx_out)
      BY <1>2, <1>4
    <2>3. fill(rx_in, rx_out)' = fill(rx_in, rx_out)
      BY <1>1 DEF fill
    <2>4. \A c \in 1 .. got' : input'[c] = c
      BY <1>6, <1>7
    <2>5. /\ fetched' <= typed' /\ typed' - fetched' <= FifoDepth
          /\ \A i \in Index : place(i, rx_out)' < fill(rx_in, rx_out)' =>
               rx_buf'[i] = fetched' - fill(rx_in, rx_out)' + place(i, rx_out)' + 1
      BY <1>1, <2>3 DEF InputRing, place, fill
    <2> QED
      BY <2>1, <2>2, <2>3, <2>4, <2>5 DEF InputRing
  <1> QED
    BY <1>1, <1>2, <1>7, <1>8

LEMMA IncomingReadPost ==
  ASSUME Incoming, ReadPost
  PROVE  Incoming'
  <1> USE DEF Incoming, InputTypes
  <1>1. /\ UNCHANGED <<rx_buf, rx_in, typed, fetched, input>>
        /\ pc = "read_post" /\ pc' \in {"read", "read_enable"}
        /\ rx_out' = (rx_out + n) % BUF_LEN
    BY DEF ReadPost, deviceSide, deviceVars, rxVars
  <1>2. n \in Nat /\ rx_out + n <= BUF_LEN /\ wanted = n /\ wanted' = 0
        /\ freeing = n /\ freeing' = 0 /\ got' = got
    BY <1>1 DEF wanted, freeing, reading, got
  <1>3. got \in Nat /\ fill(rx_in, rx_out) \in Nat /\ fill(rx_in, rx_out) <= BUF_LEN - 1
        /\ BUF_LEN \in Nat /\ n <= fill(rx_in, rx_out)
    BY <1>2, Fill, Indices DEF got, InputRing
  <1>4. /\ rx_out' \in Index
        /\ fill(rx_in, rx_out') = fill(rx_in, rx_out) - n
        /\ \A i \in Index : place(i, rx_out') < BUF_LEN - n =>
             place(i, rx_out) = place(i, rx_out') + n
    BY <1>1, <1>2, <1>3, Emptied
  <1>5. fill(rx_in, rx_out)' = fill(rx_in, rx_out) - n
    BY <1>1, <1>4 DEF fill
  <1>6. fetched + n = got + fill(rx_in, rx_out)
    BY <1>2 DEF InputRing
  <1>7. \A i \in Index : place(i, rx_out') < fill(rx_in, rx_out) - n =>
          rx_buf[i] = fetched - (fill(rx_in, rx_out) - n) + place(i, rx_out') + 1
    <2> TAKE i \in Index
    <2> HAVE place(i, rx_out') < fill(rx_in, rx_out) - n
    <2>1. place(i, rx_out') \in Nat
      BY <1>4, Fill, Indices DEF place
    <2>2. place(i, rx_out) = place(i, rx_out') + n
      BY <1>2, <1>3, <1>4, <2>1
    <2>3. rx_buf[i] = fetched - fill(rx_in, rx_out) + place(i, rx_out) + 1
      BY <1>2, <1>3, <2>1, <2>2 DEF InputRing
    <2> QED
      BY <1>2, <1>3, <2>1, <2>2, <2>3
  <1>8. InputRing'
    <2>1. wanted' <= fill(rx_in, rx_out)' /\ fetched' + freeing' = got' + fill(rx_in, rx_out)'
      <3>1. 0 <= fill(rx_in, rx_out) - n /\ fetched + 0 = got + (fill(rx_in, rx_out) - n)
        BY <1>2, <1>3, <1>6
      <3> QED
        BY <1>1, <1>2, <1>5, <3>1
    <2>2. \A i \in Index : place(i, rx_out)' < fill(rx_in, rx_out)' =>
            rx_buf'[i] = fetched' - fill(rx_in, rx_out)' + place(i, rx_out)' + 1
      BY <1>1, <1>5, <1>7 DEF place, fill
    <2>3. /\ fetched' <= typed' /\ typed' - fetched' <= FifoDepth
          /\ \A c \in 1 .. got' : input'[c] = c
      BY <1>1, <1>2 DEF InputRing
    <2> QED
      BY <2>1, <2>2, <2>3 DEF InputRing
  <1> QED
    BY <1>1, <1>4, <1>8 DEF reading

-----------------------------------------------------------------------------
(* What keeps the parts of TypeOK that the buffers say nothing about.      *)

\* The locals of a call.
Locals ==
  /\ count \in Nat /\ seen \in Index /\ n \in Index
  /\ nonblock \in BOOLEAN /\ some \in BOOLEAN
  /\ pc \in {"write_copy", "read_copy"} => n <= count
  /\ pc \in {"write_post", "read_post", "read_enable"} => some
  /\ pc \notin {"idle", "exited"} => result = "none"

\* The handler has room in the device for what it is about to write.
Device ==
  /\ shown \in Nat /\ shown <= sent /\ tx_level <= FifoDepth
  /\ AC \in BOOLEAN /\ pause_irq \in BOOLEAN
  /\ isr \in {"off", "poll", "receive", "send"} /\ ravail \in BOOLEAN
  /\ control \in [ri : BOOLEAN, wi : BOOLEAN, space : 0 .. FifoDepth]
  /\ isr \in {"receive", "send"} => control.space + tx_level <= FifoDepth

Registers ==
  /\ irq_enable \subseteq {"RE", "WE"}
  /\ host_inactive \in 0 .. IntMax - 2 /\ timeout \in 2 .. IntMax

Processor ==
  /\ alt_irq_active \subseteq {Uart, Timer} /\ alt_irq \subseteq {Uart, Timer}
  /\ serving \in {Thread, Scan, Uart, Timer}

LEMMA InitTypes ==
  ASSUME Init
  PROVE  Locals /\ Device /\ Registers /\ Processor
  <1>1. Locals
    BY ZeroIndex DEF Init, Locals
  <1>2. Device
    <2>1. sent = 0 /\ tx_level = 0 /\ shown = 0
      BY DEF Init, tx_level, sent
    <2>2. 0 <= FifoDepth /\ 0 \in 0 .. FifoDepth
      BY FifoAssumption
    <2>3. control \in [ri : BOOLEAN, wi : BOOLEAN, space : 0 .. FifoDepth]
      BY <2>2 DEF Init, NoControl
    <2> QED
      <3>1. shown \in Nat /\ shown <= sent /\ tx_level <= FifoDepth
        BY <2>1, <2>2
      <3>2. AC = FALSE /\ pause_irq = FALSE /\ isr = "off" /\ ravail = FALSE
        BY DEF Init
      <3> QED
        BY <2>3, <3>1, <3>2 DEF Device
  <1>3. Registers
    BY TimeoutAssumption DEF Init, Registers
  <1>4. Processor
    BY DEF Init, CPU!Init, Processor
  <1> QED
    BY <1>1, <1>2, <1>3, <1>4

LocalsRest == UNCHANGED <<pc, nonblock, count, seen, n, some, result>>

LEMMA LocalsSteps ==
  ASSUME [Next]_allVars
  PROVE  LocalsRest \/ Start \/ (Program /\ (Ask \/ Step \/ Exit))
  <1>1. CASE Enter \/ Leave \/ Serve \/ Second \/ ServeTimer \/ Terminal
    BY <1>1 DEF Enter, Leave, Serve, Second, ServeTimer, Terminal, Timeout, uartVars, vars, callVars, LocalsRest
  <1>2. CASE ServeUart
    BY <1>2 DEF ServeUart, Isr, IsrPoll, IsrReceive, IsrFull, IsrNothing, IsrLate, IsrSend, IsrSent, callVars, LocalsRest
  <1>3. CASE UNCHANGED allVars
    BY <1>3 DEF allVars, uartVars, vars, callVars, LocalsRest
  <1> QED
    BY <1>1, <1>2, <1>3 DEF Next, Interrupts, Program

LEMMA LocalsReturn ==
  ASSUME NEW code, Return(code)
  PROVE  Locals'
  BY ZeroIndex DEF Return, Locals

LEMMA LocalsStep ==
  ASSUME Locals, OutputTypes, InputTypes, Step
  PROVE  Locals'
  <1>1. CASE WriteLook
    <2>1. write_space(tx_in, tx_out) \in Index
      BY Room DEF OutputTypes
    <2>2. n' \in Index /\ (pc' \in {"write_copy", "read_copy"} => n' <= count)
      BY <1>1, <2>1, Indices DEF WriteLook, atMost, Locals, Index
    <2>3. seen' \in Index /\ UNCHANGED <<nonblock, count, some, result>>
          /\ pc = "write" /\ pc' \in {"write_copy", "write_kick"}
      BY <1>1, BufferAssumption DEF WriteLook, OutputTypes, Index
    <2> QED
      BY <2>2, <2>3 DEF Locals
  <1>2. CASE WriteCopy \/ ReadCopy
    <2>1. count' = count - n /\ some' = TRUE /\ UNCHANGED <<n, nonblock, seen, result>>
          /\ pc \in {"write_copy", "read_copy"} /\ pc' \in {"write_post", "read_post"}
      BY <1>2 DEF WriteCopy, ReadCopy
    <2>2. count' \in Nat
      BY <2>1, Indices DEF Locals
    <2> QED
      BY <2>1, <2>2 DEF Locals
  <1>3. CASE WritePost \/ ReadPost
    <2>1. n' = 0 /\ UNCHANGED <<count, nonblock, seen, some, result>>
          /\ pc \in {"write_post", "read_post"} /\ pc' \in {"write", "read", "read_enable"}
      BY <1>3 DEF WritePost, ReadPost
    <2>2. n' \in Index
      BY <2>1, BufferAssumption DEF Index
    <2> QED
      BY <2>1, <2>2 DEF Locals
  <1>4. CASE WriteKick
    BY <1>4, LocalsReturn DEF WriteKick, Locals
  <1>5. CASE WriteWait \/ WriteWaited
    BY <1>5, LocalsReturn DEF WriteWait, WriteWaited, Locals
  <1>6. CASE ReadLook
    <2>1. read_data(rx_in, rx_out) \in Index
      BY Available DEF InputTypes
    <2>2. n' \in Index /\ n' <= count
      BY <1>6, <2>1, Indices DEF ReadLook, atMost, Locals, Index
    <2> QED
      BY <1>6, <2>2 DEF ReadLook, Locals
  <1>7. CASE ReadEmpty
    BY <1>7, LocalsReturn DEF ReadEmpty, Locals, InputTypes
  <1>8. CASE ReadEnable \/ ReadWait
    BY <1>8, LocalsReturn DEF ReadEnable, ReadWait, Locals
  <1>9. CASE Close
    BY <1>9, LocalsReturn DEF Close
  <1> QED
    BY <1>1, <1>2, <1>3, <1>4, <1>5, <1>6, <1>7, <1>8, <1>9 DEF Step

LEMMA LocalsKept ==
  ASSUME Locals, OutputTypes, InputTypes, [Next]_allVars
  PROVE  Locals'
  <1>1. CASE LocalsRest
    BY <1>1 DEF LocalsRest, Locals
  <1>2. CASE Start
    BY <1>2 DEF Start, BootInterrupts, BootDevice, RegisterBegin, RegisterHandler,
         RegisterEnable, RegisterEnd, StartAlarm, Boot, callRest, Locals
  <1>3. ASSUME NEW where \in {"write", "read", "close"}, NEW nb \in BOOLEAN,
               NEW length \in Nat, Call(where, nb, length)
        PROVE  Locals'
    BY <1>3, ZeroIndex DEF Call, Locals
  <1>4. CASE Ask
    <2>1. ASSUME NEW value \in Timeouts, TIOCSTIMEOUT(value)
          PROVE  LocalsRest
      BY <2>1 DEF TIOCSTIMEOUT, callVars, LocalsRest
    <2> QED
      BY <1>1, <1>3, <1>4, <2>1, LengthsAssumption DEF Ask, Write, Read
  <1>5. CASE Exit
    BY <1>5 DEF Exit, callRest, Locals
  <1> QED
    BY <1>1, <1>2, <1>4, <1>5, LocalsSteps, LocalsStep

LEMMA DeviceStep ==
  ASSUME Device, InputTypes, output \in Seq(Nat), [Next]_allVars
  PROVE  Device'
  <1>0. sent \in Nat /\ shown \in Nat /\ FifoDepth \in Nat /\ FifoDepth > 0 /\ tx_level = sent - shown
        /\ shown <= sent /\ tx_level <= FifoDepth
    BY FifoAssumption DEF Device, tx_level, sent
  <1>1. ASSUME UNCHANGED <<shown, output>>
        PROVE  tx_level' = tx_level /\ sent' = sent /\ shown' \in Nat /\ shown' <= sent' /\ tx_level' <= FifoDepth
    BY <1>0, <1>1 DEF tx_level, sent
  <1>2. ASSUME UNCHANGED <<shown, output, isr, control, ravail>>, AC' \in BOOLEAN, pause_irq' \in BOOLEAN
        PROVE  Device'
    BY <1>1, <1>2 DEF Device
  <1>3. CASE Start \/ Enter \/ Leave \/ Second \/ ServeTimer \/ UNCHANGED allVars
    <2>1. UNCHANGED <<shown, output, isr, control, ravail>>
      BY <1>3 DEF Start, BootInterrupts, BootDevice, RegisterBegin, RegisterHandler, RegisterEnable,
         RegisterEnd, StartAlarm, driverRest, Enter, Leave, Second, ServeTimer, Timeout, allVars,
         uartVars, vars, deviceVars, isrVars
    <2>2. (AC' = AC \/ AC' = FALSE) /\ pause_irq' = pause_irq
      BY <1>3 DEF Start, BootInterrupts, BootDevice, RegisterBegin, RegisterHandler, RegisterEnable,
         RegisterEnd, StartAlarm, driverRest, Enter, Leave, Second, ServeTimer, Timeout, allVars,
         uartVars, vars, deviceVars
    <2> QED
      BY <1>2, <2>1, <2>2 DEF Device
  <1>4. CASE Program
    <2>1. UNCHANGED <<shown, output, isr, control, ravail, AC, pause_irq>>
      <3>1. CASE Step
        BY <3>1 DEF Step, WriteLook, WriteCopy, WritePost, WriteKick, WriteWait, WriteWaited, ReadLook,
             ReadEmpty, ReadCopy, ReadPost, ReadEnable, ReadWait, Close, deviceSide, deviceVars, isrVars
      <3>2. CASE Ask
        BY <3>2 DEF Ask, Write, Read, Call, TIOCSTIMEOUT, deviceSide, deviceVars, isrVars
      <3>3. CASE Exit
        BY <3>3 DEF Exit, deviceSide, deviceVars, isrVars
      <3> QED
        BY <1>4, <3>1, <3>2, <3>3 DEF Program
    <2> QED
      BY <1>2, <2>1 DEF Device
  <1>5. CASE Serve
    <2>1. UNCHANGED <<shown, output, AC, pause_irq, control, ravail>> /\ isr' \in {"poll", isr}
      BY <1>5 DEF Serve, deviceVars
    <2> QED
      BY <1>1, <2>1 DEF Device
  <1>6. CASE Terminal
    <2>1. UNCHANGED <<output, isr, control, ravail>>
          /\ (shown' = shown \/ (tx_level > 0 /\ shown' = shown + 1))
      BY <1>6 DEF Terminal, Types, Listens, Pauses, Arrives, HostSends, HostTakes, HostPauses, isrVars
    <2>1a. AC' \in {AC, TRUE} /\ pause_irq' \in {pause_irq, TRUE}
      <3>1. (rx_level > 0) \in BOOLEAN
        BY DEF InputTypes, rx_level
      <3> QED
        BY <1>6, <3>1, Zenon DEF Device, Terminal, Types, Listens, Pauses, Arrives, HostSends, HostTakes, HostPauses
    <2>2. shown' \in Nat /\ shown' <= sent' /\ tx_level' <= tx_level /\ tx_level' \in Nat /\ tx_level \in Nat
      BY <1>0, <2>1 DEF sent, tx_level
    <2>3. tx_level' <= FifoDepth
      BY <1>0, <2>2
    <2>4. isr \in {"receive", "send"} => control.space + tx_level' <= FifoDepth
      <3>1. CASE isr \in {"receive", "send"}
        <4>1. control.space \in Nat /\ control.space + tx_level <= FifoDepth
          BY <1>0, <3>1 DEF Device
        <4> QED
          BY <1>0, <2>2, <4>1, Shorter
      <3> QED
        BY <3>1
    <2> QED
      BY <2>1, <2>1a, <2>2, <2>3, <2>4 DEF Device
  <1>7. CASE ServeUart
    <2>1. CASE IsrPoll
      <3>1. /\ UNCHANGED <<shown, output, AC, pause_irq>> /\ isr' \in {"off", "receive", "send"} /\ ravail' \in BOOLEAN
            /\ control' = (IF ~RI /\ ~WI THEN NoControl ELSE [ri |-> RI, wi |-> WI, space |-> FifoDepth - tx_level])
            /\ isr' # "off" => ~(~RI /\ ~WI)
        BY <2>1 DEF IsrPoll, deviceVars
      <3>2. control' \in [ri : BOOLEAN, wi : BOOLEAN, space : 0 .. FifoDepth]
        <4>1. FifoDepth - tx_level \in 0 .. FifoDepth /\ 0 \in 0 .. FifoDepth
          BY <1>0
        <4>2. RI \in BOOLEAN /\ WI \in BOOLEAN
          BY DEF RI, WI
        <4> QED
          BY <3>1, <4>1, <4>2 DEF NoControl
      <3>3. isr' # "off" => control'.space + tx_level <= FifoDepth
        <4>1. isr' # "off" => control'.space = FifoDepth - tx_level
          BY <3>1
        <4> QED
          BY <1>0, <4>1
      <3> QED
        BY <1>1, <3>1, <3>2, <3>3 DEF Device
    <2>2. CASE IsrReceive \/ IsrFull \/ IsrNothing \/ IsrLate
      <3>1. UNCHANGED <<shown, output, control>> /\ isr = "receive" /\ isr' \in {"receive", "send"}
            /\ AC' \in {AC, TRUE} /\ pause_irq' \in {pause_irq, FALSE}
        BY <2>2 DEF IsrReceive, IsrFull, IsrNothing, IsrLate, FindsNothing, Arrives, deviceVars
      <3>2. (rx_level > 1) \in BOOLEAN
        BY DEF rx_level, InputTypes
      <3>3. ravail' = (rx_level > 1) \/ ravail' = ravail
        BY <2>2 DEF IsrReceive, IsrFull, IsrNothing, IsrLate
      <3>4. ravail' \in BOOLEAN
        BY <3>2, <3>3, Zenon DEF Device
      <3> QED
        BY <1>1, <3>1, <3>4 DEF Device
    <2>3. CASE IsrSend
      <3>1. /\ UNCHANGED <<shown, AC, pause_irq, isr, ravail>> /\ isr = "send" /\ control.space > 0
            /\ control' = [control EXCEPT !.space = @ - 1] /\ output' = Append(output, tx_buf[tx_out])
        BY <2>3 DEF IsrSend
      <3>2. sent' = sent + 1
        BY <3>1 DEF sent
      <3>3. control.space \in 0 .. FifoDepth /\ control.space + tx_level <= FifoDepth
        BY <3>1 DEF Device
      <3>4. control'.space = control.space - 1 /\ control.space - 1 \in 0 .. FifoDepth
        <4>1. control'.space = control.space - 1
          BY <3>1 DEF Device
        <4> QED
          BY <1>0, <3>1, <3>3, <4>1
      <3>5. control' \in [ri : BOOLEAN, wi : BOOLEAN, space : 0 .. FifoDepth]
        BY <3>1, <3>4 DEF Device
      <3>6. tx_level' = tx_level + 1 /\ shown' \in Nat /\ shown' <= sent'
        BY <1>0, <3>1, <3>2 DEF tx_level, sent
      <3>7. tx_level' <= FifoDepth /\ control'.space + tx_level' <= FifoDepth
        BY <1>0, <3>1, <3>3, <3>4, <3>6
      <3> QED
        BY <3>1, <3>5, <3>6, <3>7 DEF Device
    <2>4. CASE IsrSent
      <3>1. UNCHANGED <<shown, output, AC, pause_irq, control, ravail>> /\ isr' = "poll"
        BY <2>4 DEF IsrSent, deviceVars
      <3> QED
        BY <1>1, <3>1 DEF Device
    <2> QED
      BY <1>7, <2>1, <2>2, <2>3, <2>4 DEF ServeUart, Isr
  <1> QED
    BY <1>3, <1>4, <1>5, <1>6, <1>7 DEF Next, Interrupts

LEMMA RegistersStep ==
  ASSUME Registers, [Next]_allVars
  PROVE  Registers'
  <1>0. IntMax \in Nat /\ DefaultTimeout \in Nat /\ IntMax > 3
    BY TimeoutAssumption
  <1>1. ASSUME UNCHANGED <<host_inactive, timeout>>,
               irq_enable' \subseteq irq_enable \/ (\E bit \in {"RE", "WE"} : irq_enable' = irq_enable \union {bit})
        PROVE  Registers'
    BY <1>1 DEF Registers
  <1>2. CASE Start
    <2>1. CASE BootDevice
      BY <2>1 DEF BootDevice, driverRest, timeVars, Registers
    <2>2. CASE StartAlarm
      <3>1. UNCHANGED <<irq_enable, host_inactive>> /\ timeout' \in {timeout, IntMax}
        BY <2>2 DEF StartAlarm
      <3>2. IntMax \in 2 .. IntMax
        BY <1>0
      <3> QED
        BY <3>1, <3>2 DEF Registers
    <2>3. CASE BootInterrupts \/ RegisterBegin \/ RegisterHandler \/ RegisterEnable \/ RegisterEnd
      BY <1>1, <2>3 DEF BootInterrupts, RegisterBegin, RegisterHandler, RegisterEnable, RegisterEnd, driverRest, timeVars
    <2> QED
      BY <1>2, <2>1, <2>2, <2>3 DEF Start
  <1>3. CASE Program
    <2>1. CASE Step
      BY <1>1, <2>1 DEF Step, WriteLook, WriteCopy, WritePost, WriteKick, WriteWait, WriteWaited, ReadLook,
           ReadEmpty, ReadCopy, ReadPost, ReadEnable, ReadWait, Close, deviceSide, timeVars
    <2>2. ASSUME NEW where, NEW nb, NEW length, Call(where, nb, length)
          PROVE  Registers'
      BY <1>1, <2>2 DEF Call, deviceSide, timeVars
    <2>3. ASSUME NEW value \in Timeouts, TIOCSTIMEOUT(value)
          PROVE  Registers'
      <3>1. UNCHANGED <<irq_enable, host_inactive>>
            /\ timeout' = IF value >= 2 /\ value < IntMax THEN value ELSE IntMax - 1
        BY <2>3 DEF TIOCSTIMEOUT
      <3>2. value \in Nat
        BY LengthsAssumption
      <3>3. timeout' \in 2 .. IntMax
        BY <1>0, <3>1, <3>2
      <3> QED
        BY <3>1, <3>3 DEF Registers
    <2>4. CASE Exit
      BY <1>1, <2>4 DEF Exit, deviceSide, timeVars
    <2> QED
      BY <1>3, <2>1, <2>2, <2>3, <2>4 DEF Program, Ask, Write, Read
  <1>4. CASE ServeTimer
    <2>1. UNCHANGED <<irq_enable, timeout>>
      BY <1>4 DEF ServeTimer, Timeout
    <2>2. host_inactive' = CASE AC -> 0
                             [] ~AC /\ host_inactive < IntMax - 2 -> host_inactive + 1
                             [] OTHER -> host_inactive
      BY <1>4 DEF ServeTimer, Timeout
    <2>3. host_inactive \in 0 .. IntMax - 2
      BY DEF Registers
    <2>4. host_inactive' \in 0 .. IntMax - 2
      BY <1>0, <2>2, <2>3
    <2> QED
      BY <2>1, <2>4 DEF Registers
  <1>5. CASE ServeUart
    BY <1>1, <1>5 DEF ServeUart, Isr, IsrPoll, IsrReceive, IsrFull, IsrNothing, IsrLate, TurnOff, IsrSend, IsrSent, timeVars
  <1>6. CASE Enter \/ Leave \/ Serve \/ Second \/ Terminal \/ UNCHANGED allVars
    BY <1>1, <1>6 DEF Enter, Leave, Serve, Second, Terminal, allVars, uartVars, vars, timeVars
  <1> QED
    BY <1>2, <1>3, <1>4, <1>5, <1>6 DEF Next, Interrupts

LEMMA LowestLine ==
  ASSUME NEW S, S \subseteq {Uart, Timer}, S # {}
  PROVE  CPU!Min(S) \in S
  <1>1. \E x \in S : \A y \in S : x <= y
    <2>1. Uart <= Timer \/ Timer <= Uart
      BY LinesAssumption
    <2>2. Uart <= Uart /\ Timer <= Timer
      BY LinesAssumption
    <2>3. CASE Uart \in S /\ Timer \in S
      BY <2>1, <2>2, <2>3
    <2>4. CASE Uart \notin S \/ Timer \notin S
      BY <2>2, <2>4
    <2> QED
      BY <2>3, <2>4
  <1> QED
    BY <1>1 DEF CPU!Min

LEMMA ProcessorStep ==
  ASSUME Processor, [Next]_allVars
  PROVE  Processor'
  <1>1. CASE Start
    BY <1>1 DEF Start, BootInterrupts, BootDevice, RegisterBegin, RegisterHandler, RegisterEnable,
         RegisterEnd, StartAlarm, cpuVars, CPU!alt_irq_init, CPU!alt_irq_enable, Processor
  <1>2. CASE Program \/ Second \/ Terminal \/ UNCHANGED allVars
    BY <1>2 DEF Program, Second, Terminal, allVars, cpuVars, Processor
  <1>3. CASE Serve
    <2>1. serving' = CPU!Min(CPU!ipending(up)) /\ CPU!ipending(up) # {}
          /\ UNCHANGED <<alt_irq_active, alt_irq>>
      BY <1>3 DEF Serve, CPU!Dispatch
    <2>2. CPU!ipending(up) \subseteq {Uart, Timer}
      BY DEF CPU!ipending, Processor
    <2> QED
      BY <2>1, <2>2, LowestLine DEF Processor
  <1>4. CASE Enter \/ Leave
    BY <1>4 DEF Enter, Leave, CPU!Exception, CPU!Return, Processor
  <1>5. CASE ServeUart \/ ServeTimer
    BY <1>5 DEF ServeUart, ServeTimer, CPU!HandlerReturns, cpuVars, Processor
  <1> QED
    BY <1>1, <1>2, <1>3, <1>4, <1>5 DEF Next, Interrupts

\* The cells themselves.
Cells == rx_buf \in [Index -> Nat] /\ tx_buf \in [Index -> Nat]

LEMMA CellsStep ==
  ASSUME Cells, Locals, OutputTypes, InputTypes, [Next]_allVars
  PROVE  Cells'
  <1>1. tx_buf' \in [Index -> Nat]
    <2>1. CASE WriteCopy
      <3>1. tx_buf' = [i \in Index |->
              IF tx_in <= i /\ i < tx_in + n THEN written + 1 + i - tx_in ELSE tx_buf[i]]
        BY <2>1 DEF WriteCopy, Cells
      <3>2. \A i \in Index : tx_in <= i => written + 1 + i - tx_in \in Nat
        BY Indices DEF OutputTypes
      <3> QED
        BY <3>1, <3>2 DEF Cells
    <2>2. CASE ~WriteCopy
      <3>1. tx_buf' = tx_buf
        BY <2>2, OutputSteps DEF OutputRests, IsrSend, WriteLook, WritePost, txVars
      <3> QED
        BY <3>1 DEF Cells
    <2> QED
      BY <2>1, <2>2
  <1>2. rx_buf' \in [Index -> Nat]
    <2>1. CASE IsrReceive
      <3>1. rx_buf' = [rx_buf EXCEPT ![rx_in] = fetched + 1] /\ fetched + 1 \in Nat
        BY <2>1 DEF IsrReceive, InputTypes
      <3> QED
        BY <3>1 DEF Cells
    <2>2. CASE ~IsrReceive
      <3>1. rx_buf' = rx_buf
        BY <2>2, InputSteps DEF InputRests, Arrival, ReadLook, ReadCopy, ReadPost, deviceSide, rxVars
      <3> QED
        BY <3>1 DEF Cells
    <2> QED
      BY <2>1, <2>2
  <1> QED
    BY <1>1, <1>2 DEF Cells

-----------------------------------------------------------------------------
(* Nobody waits for an interrupt that is off.                              *)

starting == {"reset", "enable_device"}
enabling == {"write", "write_copy", "write_post", "write_kick"}

\* As WriterArmed, and in the handler too: the interrupt is turned off in the
\* very step that finds the buffer empty.
WriterOn ==
  /\ tx_in # tx_out => "WE" \in irq_enable \/ pc \in enabling
  /\ pc \in starting => tx_in = tx_out

LEMMA WriterStep ==
  ASSUME WriterOn, [Next]_allVars
  PROVE  WriterOn'
  <1>1. ASSUME UNCHANGED <<tx_in, tx_out>>,
               "WE" \in irq_enable => "WE" \in irq_enable',
               pc \in enabling => pc' \in enabling,
               pc' \in starting => pc \in starting
        PROVE  WriterOn'
    BY <1>1 DEF WriterOn
  <1>2. CASE Start
    <2>1. CASE BootDevice
      BY <2>1 DEF BootDevice, Boot, driverRest, txVars, WriterOn, starting, enabling
    <2>2. CASE BootInterrupts \/ RegisterBegin \/ RegisterHandler \/ RegisterEnable \/ RegisterEnd \/ StartAlarm
      BY <1>1, <2>2 DEF BootInterrupts, RegisterBegin, RegisterHandler, RegisterEnable, RegisterEnd, StartAlarm,
           Boot, driverRest, txVars, starting, enabling
    <2> QED
      BY <1>2, <2>1, <2>2 DEF Start
  <1>3. CASE Ask \/ Exit
    BY <1>1, <1>3 DEF Ask, Write, Read, Call, TIOCSTIMEOUT, Exit, deviceSide, txVars, callVars, starting, enabling
  <1>4. CASE Step
    <2>1. CASE WritePost
      BY <2>1 DEF WritePost, WriterOn, starting, enabling
    <2>2. CASE WriteKick
      BY <2>2 DEF WriteKick, Return, WriterOn, starting
    <2>3. CASE WriteLook \/ WriteCopy \/ WriteWait \/ WriteWaited
      BY <1>1, <2>3 DEF WriteLook, WriteCopy, WriteWait, WriteWaited, Return, deviceSide, txVars, starting, enabling
    <2>4. CASE ReadLook \/ ReadEmpty \/ ReadCopy \/ ReadPost \/ ReadEnable \/ ReadWait \/ Close
      BY <1>1, <2>4 DEF ReadLook, ReadEmpty, ReadCopy, ReadPost, ReadEnable, ReadWait, Close, Return,
           deviceSide, txVars, starting, enabling
    <2> QED
      BY <1>4, <2>1, <2>2, <2>3, <2>4 DEF Step
  <1>5. CASE ServeUart
    <2>1. CASE IsrSend
      <3>1. tx_in # tx_out /\ UNCHANGED <<pc, tx_in, irq_enable>>
        BY <2>1 DEF IsrSend, callVars, txVars
      <3> QED
        BY <3>1 DEF WriterOn
    <2>2. CASE IsrSent
      <3>1. UNCHANGED <<pc, tx_in, tx_out>>
            /\ (irq_enable' = irq_enable \/ tx_in = tx_out)
        BY <2>2 DEF IsrSent, callVars, txVars
      <3> QED
        BY <3>1 DEF WriterOn
    <2>3. CASE IsrPoll \/ IsrReceive \/ IsrFull \/ IsrNothing \/ IsrLate
      BY <1>1, <2>3 DEF IsrPoll, IsrReceive, IsrFull, IsrNothing, IsrLate, TurnOff, callVars, txVars
    <2> QED
      BY <1>5, <2>1, <2>2, <2>3 DEF ServeUart, Isr
  <1>6. CASE Enter \/ Leave \/ Serve \/ ServeTimer \/ Second \/ Terminal \/ UNCHANGED allVars
    BY <1>1, <1>6 DEF Enter, Leave, Serve, ServeTimer, Timeout, Second, Terminal, allVars, uartVars, vars, txVars, callVars
  <1> QED
    BY <1>2, <1>3, <1>4, <1>5, <1>6 DEF Next, Program, Interrupts

\* The handler runs alone, and its receive branch has a reason: a character is
\* there, or has just been put into the buffer.
Handler ==
  /\ serving # Uart => isr = "off"
  /\ pause_irq => rx_level > 0
  /\ isr = "receive" => rx_level > 0 \/ rx_in # rx_out

LEMMA HandlerStep ==
  ASSUME Handler, InputTypes, [Next]_allVars
  PROVE  Handler'
  <1>0. typed \in Nat /\ fetched \in Nat
    BY DEF InputTypes
  <1>1. ASSUME UNCHANGED <<typed, fetched, pause_irq, rx_in, rx_out, isr>>, serving' # Uart => serving # Uart
        PROVE  Handler'
    BY <1>1 DEF Handler, rx_level
  <1>2. CASE Start
    BY <1>1, <1>2 DEF Start, BootInterrupts, BootDevice, RegisterBegin, RegisterHandler, RegisterEnable,
         RegisterEnd, StartAlarm, Boot, driverRest, deviceVars, rxVars, isrVars, cpuVars,
         CPU!alt_irq_init, CPU!alt_irq_enable
  <1>3. CASE Program
    <2>1. UNCHANGED <<typed, fetched, pause_irq, isr, serving>>
      <3>1. CASE Step
        BY <1>3, <3>1 DEF Program, cpuVars, Step, WriteLook, WriteCopy, WritePost, WriteKick, WriteWait, WriteWaited,
             ReadLook, ReadEmpty, ReadCopy, ReadPost, ReadEnable, ReadWait, Close, deviceSide, deviceVars, isrVars
      <3>2. CASE Ask
        BY <1>3, <3>2 DEF Program, cpuVars, Ask, Write, Read, Call, TIOCSTIMEOUT, deviceSide, deviceVars, isrVars
      <3>3. CASE Exit
        BY <1>3, <3>3 DEF Program, cpuVars, Exit, deviceSide, deviceVars, isrVars
      <3> QED
        BY <1>3, <3>1, <3>2, <3>3 DEF Program
    <2>2. serving # Uart
      BY <1>3, ThreadAssumption DEF Program
    <2> QED
      BY <2>1, <2>2 DEF Handler, rx_level
  <1>4. CASE Enter \/ Leave
    <2>1. serving # Uart
      BY <1>4, ThreadAssumption DEF Enter, Leave, CPU!Exception, CPU!Return
    <2> QED
      BY <1>1, <1>4, <2>1 DEF Enter, Leave, uartVars, vars, deviceVars, rxVars, isrVars
  <1>5. CASE Serve
    <2>1. serving # Uart
      BY <1>5, ThreadAssumption DEF Serve, CPU!Dispatch
    <2>2. UNCHANGED <<typed, fetched, pause_irq>> /\ isr' \in {"poll", "off"}
          /\ (serving' # Uart => isr' = "off")
      BY <1>5, <2>1 DEF Serve, Handler, deviceVars
    <2> QED
      BY <2>2 DEF Handler, rx_level
  <1>6. CASE ServeTimer
    BY <1>1, <1>6, LinesAssumption DEF ServeTimer, Timeout, rxVars, isrVars
  <1>7. CASE Second \/ UNCHANGED allVars
    BY <1>1, <1>7 DEF Second, allVars, uartVars, vars, cpuVars, deviceVars, rxVars, isrVars
  <1>8. CASE Terminal
    <2>1. UNCHANGED <<fetched, rx_in, rx_out, isr, serving>>
          /\ (typed' = typed \/ typed' = typed + 1)
      BY <1>8 DEF Terminal, Types, Listens, Pauses, Arrives, HostSends, HostTakes, HostPauses, rxVars, isrVars, cpuVars
    <2>1a. pause_irq' => pause_irq \/ rx_level > 0
      BY <1>8, Zenon DEF Terminal, Types, Listens, Pauses, HostSends, HostTakes, HostPauses
    <2>2. rx_level > 0 => rx_level' > 0
      BY <1>0, <2>1 DEF rx_level
    <2> QED
      BY <2>1, <2>1a, <2>2 DEF Handler
  <1>9. CASE ServeUart
    <2>1. serving = Uart /\ (serving' # Uart => isr' = "off")
      BY <1>9 DEF ServeUart, cpuVars
    <2>2. CASE IsrPoll
      <3>1. UNCHANGED <<typed, fetched, pause_irq, rx_in, rx_out>> /\ (isr' = "receive" => RI)
        BY <2>2 DEF IsrPoll, deviceVars, rxVars
      <3>2. RI => rx_level > 0
        BY <1>0, FifoAssumption DEF RI, Handler, rx_level
      <3> QED
        BY <2>1, <3>1, <3>2 DEF Handler, rx_level
    <2>3. CASE IsrReceive
      <3>1. rx_in' # rx_out' /\ pause_irq' = FALSE
        BY <2>3 DEF IsrReceive, rx_full
      <3> QED
        BY <2>1, <3>1 DEF Handler
    <2>4. CASE IsrNothing \/ IsrLate
      <3>1. isr' = "send" /\ pause_irq' = FALSE
        BY <2>4 DEF IsrNothing, IsrLate, FindsNothing
      <3> QED
        BY <2>1, <3>1 DEF Handler
    <2>5. CASE IsrFull \/ IsrSend \/ IsrSent
      <3>1. isr' \in {"send", "poll"} /\ UNCHANGED <<typed, fetched, pause_irq>>
        BY <2>5 DEF IsrFull, IsrSend, IsrSent, deviceVars
      <3> QED
        BY <2>1, <3>1 DEF Handler, rx_level
    <2> QED
      BY <1>9, <2>2, <2>3, <2>4, <2>5 DEF ServeUart, Isr
  <1> QED
    BY <1>2, <1>3, <1>4, <1>5, <1>6, <1>7, <1>8, <1>9 DEF Next, Interrupts

LEMMA ReaderStep ==
  ASSUME ReaderArmed, Handler, InputTypes, Locals, [Next]_allVars
  PROVE  ReaderArmed'
  <1>1. ASSUME UNCHANGED <<rx_in, rx_out>>,
               "RE" \in irq_enable => "RE" \in irq_enable',
               ~(pc \in {"read", "read_enable"} /\ some) \/ UNCHANGED <<pc, some>>,
               pc \in starting => pc' \in starting \/ "RE" \in irq_enable'
        PROVE  ReaderArmed'
    BY <1>1 DEF ReaderArmed, starting
  <1>2. CASE Start
    <2>1. CASE BootDevice
      BY <2>1 DEF BootDevice, ReaderArmed
    <2>2. CASE BootInterrupts \/ RegisterBegin \/ RegisterHandler \/ RegisterEnable \/ RegisterEnd \/ StartAlarm
      BY <1>1, <2>2 DEF BootInterrupts, RegisterBegin, RegisterHandler, RegisterEnable, RegisterEnd, StartAlarm,
           Boot, driverRest, rxVars, starting
    <2> QED
      BY <1>2, <2>1, <2>2 DEF Start
  <1>3. CASE Ask \/ Exit
    BY <1>1, <1>3 DEF Ask, Write, Read, Call, TIOCSTIMEOUT, Exit, deviceSide, rxVars, callVars, starting
  <1>4. CASE Step
    <2>1. CASE ReadPost
      BY <2>1 DEF ReadPost, Locals, ReaderArmed
    <2>2. CASE ReadEnable
      BY <2>2 DEF ReadEnable, ReaderArmed
    <2>3. CASE ReadEmpty
      <3>1. CASE some
        BY <2>3, <3>1 DEF ReadEmpty, ReaderArmed, deviceSide, rxVars
      <3>2. CASE ~some
        BY <1>1, <2>3, <3>2 DEF ReadEmpty, Return, deviceSide, rxVars, starting
      <3> QED
        BY <3>1, <3>2
    <2>4. CASE ReadLook
      <3>1. rx_in # rx_out
        <4>1. read_data(rx_in, rx_out) > 0 /\ read_data(rx_in, rx_out) \in Nat
          BY <2>4, Available, Indices DEF ReadLook, InputTypes
        <4>2. read_data(rx_in, rx_out) # 0
          BY <4>1
        <4> QED
          BY <4>2, Available DEF InputTypes
      <3> QED
        BY <2>4, <3>1 DEF ReadLook, ReaderArmed, deviceSide, rxVars
    <2>5. CASE WriteLook \/ WriteCopy \/ WritePost \/ WriteKick \/ WriteWait \/ WriteWaited
      BY <1>1, <2>5 DEF WriteLook, WriteCopy, WritePost, WriteKick, WriteWait, WriteWaited, Return,
           deviceSide, rxVars, starting
    <2>6. CASE ReadCopy \/ ReadWait \/ Close
      BY <1>1, <2>6 DEF ReadCopy, ReadWait, Close, Return, deviceSide, rxVars, starting
    <2> QED
      BY <1>4, <2>1, <2>2, <2>3, <2>4, <2>5, <2>6 DEF Step
  <1>5. CASE ServeUart
    <2>1. CASE IsrReceive
      BY <2>1 DEF IsrReceive, rx_full, callVars, ReaderArmed
    <2>2. CASE IsrFull
      <3>1. UNCHANGED <<pc, some, rx_in, rx_out>> /\ next(rx_in) = rx_out
        BY <2>2 DEF IsrFull, rx_full, callVars, rxVars
      <3>2. next(rx_in) # rx_in
        BY NextIndex DEF InputTypes
      <3> QED
        BY <3>1, <3>2 DEF ReaderArmed
    <2>3. CASE IsrLate
      <3>1. UNCHANGED <<rx_in, rx_out>> /\ isr = "receive" /\ rx_level = 0
        BY <2>3 DEF IsrLate, FindsNothing, rxVars
      <3>2. rx_in # rx_out
        BY <3>1 DEF Handler
      <3> QED
        BY <3>1, <3>2 DEF ReaderArmed
    <2>4. CASE IsrPoll \/ IsrNothing \/ IsrSend \/ IsrSent
      BY <1>1, <2>4 DEF IsrPoll, IsrNothing, IsrSend, IsrSent, TurnOff, callVars, rxVars
    <2> QED
      BY <1>5, <2>1, <2>2, <2>3, <2>4 DEF ServeUart, Isr
  <1>6. CASE Enter \/ Leave \/ Serve \/ ServeTimer \/ Second \/ Terminal \/ UNCHANGED allVars
    BY <1>1, <1>6 DEF Enter, Leave, Serve, ServeTimer, Timeout, Second, Terminal, allVars, uartVars, vars, rxVars, callVars
  <1> QED
    BY <1>2, <1>3, <1>4, <1>5, <1>6 DEF Next, Program, Interrupts

-----------------------------------------------------------------------------
(* The invariant, and what follows from it.                                *)

ConsoleInv ==
  /\ Outgoing /\ Incoming /\ Cells /\ Locals /\ Device /\ Registers /\ Processor
  /\ WriterOn /\ Handler /\ ReaderArmed

LEMMA InvInit == Init => ConsoleInv
  <1> SUFFICES ASSUME Init PROVE ConsoleInv
    OBVIOUS
  <1>1. Cells
    BY DEF Init, Cells, Index
  <1>2. WriterOn /\ Handler /\ ReaderArmed
    BY DEF Init, WriterOn, Handler, ReaderArmed
  <1> QED
    BY <1>1, <1>2, OutgoingInit, IncomingInit, InitTypes DEF ConsoleInv

LEMMA InvStep == ConsoleInv /\ [Next]_allVars => ConsoleInv'
  <1> SUFFICES ASSUME ConsoleInv, [Next]_allVars PROVE ConsoleInv'
    OBVIOUS
  <1> USE DEF ConsoleInv
  <1>0. count \in Nat /\ OutputTypes /\ InputTypes /\ output \in Seq(Nat)
    BY DEF Locals, Outgoing, Incoming, OutputTypes
  <1>1. Outgoing'
    BY <1>0, OutputSteps, OutgoingRests, OutgoingIsrSend, OutgoingWriteLook, OutgoingWriteCopy, OutgoingWritePost
  <1>2. Incoming'
    BY <1>0, InputSteps, IncomingRests, IncomingArrival, IncomingIsrReceive, IncomingReadLook,
       IncomingReadCopy, IncomingReadPost
  <1>3. Cells' /\ Locals' /\ Device' /\ Registers' /\ Processor'
    BY <1>0, CellsStep, LocalsKept, DeviceStep, RegistersStep, ProcessorStep
  <1>4. WriterOn' /\ Handler' /\ ReaderArmed'
    BY <1>0, WriterStep, HandlerStep, ReaderStep
  <1> QED
    BY <1>1, <1>2, <1>3, <1>4

LEMMA Invariance == Spec => []ConsoleInv
  BY InvInit, InvStep, PTL DEF Spec

LEMMA InvTypes == ConsoleInv => TypeOK
  <1> SUFFICES ASSUME ConsoleInv PROVE TypeOK
    OBVIOUS
  <1> USE DEF ConsoleInv
  <1>1. {rx_in, rx_out, tx_in, tx_out, seen, n} \subseteq 0 .. BUF_LEN - 1
    BY DEF Outgoing, OutputTypes, Incoming, InputTypes, Locals, Index
  <1>2. rx_buf \in [0 .. BUF_LEN - 1 -> Nat] /\ tx_buf \in [0 .. BUF_LEN - 1 -> Nat]
    BY DEF Cells, Index
  <1>3. typed \in Nat /\ fetched \in 0 .. typed /\ rx_level <= FifoDepth
    BY DEF Incoming, InputTypes, InputRing, rx_level
  <1>4. shown \in 0 .. Len(output) /\ tx_level <= FifoDepth
    BY DEF Outgoing, OutputTypes, Device, sent
  <1>5. written \in Nat /\ output \in Seq(Nat) /\ input \in Seq(Nat)
    BY DEF Outgoing, OutputTypes, Incoming, InputTypes
  <1> QED
    BY <1>1, <1>2, <1>3, <1>4, <1>5 DEF TypeOK, Locals, Device, Registers, Processor

\* Every index stays in its buffer and every count in its range: the handler
\* never writes more into the device than it has room for, whatever the lengths
\* of buffers and FIFOs.
THEOREM ConsoleTypes == Spec => []TypeOK
  BY Invariance, InvTypes, PTL

\* Nobody waits for an interrupt that the other side has left off, in whatever
\* order program and handler turn it on and off.
THEOREM InterruptsAreOn == Spec => []Armed
  <1>1. ConsoleInv => Armed
    BY DEF ConsoleInv, Armed, WriterArmed, WriterOn, enabling
  <1> QED
    BY <1>1, Invariance, PTL

\* What is written and what of it is sent, as numbers.
OnTheWayOut ==
  /\ sent \in Nat /\ written \in Nat /\ sent <= written
  /\ claimed + fill(tx_in, tx_out) <= BUF_LEN - 1
  /\ claimed \in Nat /\ unposted \in Nat /\ fill(tx_in, tx_out) \in Nat
  /\ written = sent + fill(tx_in, tx_out) + unposted
  /\ output = [c \in 1 .. sent |-> c]

LEMMA OutgoingOnTheWay == Outgoing => OnTheWayOut
  <1> SUFFICES ASSUME Outgoing PROVE OnTheWayOut
    OBVIOUS
  <1>1. claimed \in Nat /\ unposted \in Nat
    BY DEF Outgoing, OutputTypes, claimed, unposted, writing
  <1>2. sent \in Nat /\ written \in Nat /\ fill(tx_in, tx_out) \in Nat
    BY Fill, Indices DEF Outgoing, OutputTypes, sent
  <1>3. written = sent + fill(tx_in, tx_out) + unposted
        /\ fill(tx_in, tx_out) + claimed <= BUF_LEN - 1
    BY DEF Outgoing, OutputRing
  <1>4. sent <= written /\ claimed + fill(tx_in, tx_out) <= BUF_LEN - 1
    BY <1>1, <1>2, <1>3, Indices
  <1>5. output = [c \in 1 .. sent |-> c]
    BY DEF Outgoing, OutputTypes, OutputRing, sent
  <1> QED
    BY <1>1, <1>2, <1>3, <1>4, <1>5 DEF OnTheWayOut

\* What is typed and what of it is read.
OnTheWayIn ==
  /\ got \in Nat /\ typed \in Nat /\ fetched \in Nat /\ freeing \in Nat
  /\ fill(rx_in, rx_out) \in Nat /\ fill(rx_in, rx_out) <= BUF_LEN - 1
  /\ freeing <= fill(rx_in, rx_out)
  /\ fetched + freeing = got + fill(rx_in, rx_out)
  /\ fetched <= typed /\ typed - fetched <= FifoDepth
  /\ input = [c \in 1 .. got |-> c]

LEMMA IncomingOnTheWay == Incoming => OnTheWayIn
  <1> SUFFICES ASSUME Incoming PROVE OnTheWayIn
    OBVIOUS
  <1>1. freeing \in Nat /\ freeing <= wanted /\ wanted \in Nat
    BY DEF Incoming, InputTypes, freeing, wanted, reading
  <1>2. /\ got \in Nat /\ typed \in Nat /\ fetched \in Nat
        /\ fill(rx_in, rx_out) \in Nat /\ fill(rx_in, rx_out) <= BUF_LEN - 1
    BY Fill, Indices DEF Incoming, InputTypes, got
  <1>3. /\ wanted <= fill(rx_in, rx_out)
        /\ fetched + freeing = got + fill(rx_in, rx_out)
        /\ fetched <= typed /\ typed - fetched <= FifoDepth
    BY DEF Incoming, InputRing
  <1>4. freeing <= fill(rx_in, rx_out)
    BY <1>1, <1>2, <1>3
  <1>5. input = [c \in 1 .. got |-> c]
    BY DEF Incoming, InputTypes, InputRing, got
  <1> QED
    BY <1>1, <1>2, <1>3, <1>4, <1>5 DEF OnTheWayIn

LEMMA RoomAhead ==
  ASSUME NEW s \in Nat, NEW w \in Nat, NEW f \in Nat, NEW m \in Nat, NEW capacity \in Nat,
         w = s + f + 0, m + f <= capacity
  PROVE  w + m \in w .. s + capacity
  OBVIOUS

\* Every character written reaches the device once and in order, whatever the
\* program and the handler are at when they meet in the buffer.
THEOREM OutputIsKept == Spec => KeepsOutput
  <1>1. Init => ToHost!Init
    BY DEF Init, ToHost!Init
  <1>2. ConsoleInv => OnTheWayOut
    BY OutgoingOnTheWay DEF ConsoleInv
  <1>3. ConsoleInv /\ ConsoleInv' /\ OnTheWayOut /\ OnTheWayOut' /\ [Next]_allVars => [ToHost!Next]_(ToHost!vars)
    <2> SUFFICES ASSUME ConsoleInv, ConsoleInv', OnTheWayOut, OnTheWayOut', [Next]_allVars
                 PROVE  ToHost!Next \/ UNCHANGED <<written, output>>
      BY DEF ToHost!vars
    <2>1. OnTheWayOut /\ OnTheWayOut'
      OBVIOUS
    <2>2. CASE WriteCopy
      <3>1. written' = written + n /\ output' = output /\ claimed = n /\ unposted = 0
        BY <2>2 DEF WriteCopy, deviceSide, deviceVars, claimed, unposted, writing
      <3>2. written' \in written .. Len(output) + (BUF_LEN - 1)
        <4>1. n \in Nat /\ n + fill(tx_in, tx_out) <= BUF_LEN - 1
          BY <2>1, <3>1 DEF OnTheWayOut
        <4>2. /\ sent \in Nat /\ written \in Nat /\ fill(tx_in, tx_out) \in Nat
              /\ written = sent + fill(tx_in, tx_out) + 0
          BY <2>1, <3>1 DEF OnTheWayOut
        <4>3. BUF_LEN - 1 \in Nat
          BY Indices
        <4>4. written + n \in written .. sent + (BUF_LEN - 1)
          BY <4>1, <4>2, <4>3, RoomAhead
        <4> QED
          BY <3>1, <4>4 DEF sent
      <3> QED
        BY <3>1, <3>2 DEF ToHost!Next, ToHost!Put
    <2>3. CASE IsrSend
      <3>1. written' = written /\ sent' = sent + 1
        BY <2>3 DEF IsrSend, callVars, sent, ConsoleInv, Outgoing, OutputTypes
      <3>2. output' = [c \in 1 .. sent' |-> c] /\ sent' \in Len(output) .. written
        BY <2>1, <3>1 DEF OnTheWayOut, sent
      <3> QED
        BY <3>1, <3>2 DEF ToHost!Next, ToHost!Take
    <2>4. CASE OutputRests \/ WriteLook \/ WritePost
      BY <2>4 DEF OutputRests, WriteLook, WritePost, deviceSide, deviceVars
    <2> QED
      BY <2>2, <2>3, <2>4, OutputSteps
  <1> QED
    BY <1>1, <1>2, <1>3, Invariance, PTL DEF Spec, KeepsOutput, ToHost!Spec

\* Every character typed reaches the program once and in order: the handler
\* takes none from the device that has no place in the buffer.
THEOREM InputIsKept == Spec => KeepsInput
  <1>1. Init => FromHost!Init
    BY DEF Init, FromHost!Init
  <1>2. ConsoleInv => OnTheWayIn
    BY IncomingOnTheWay DEF ConsoleInv
  <1>3. ConsoleInv /\ ConsoleInv' /\ OnTheWayIn /\ OnTheWayIn' /\ [Next]_allVars => [FromHost!Next]_(FromHost!vars)
    <2> SUFFICES ASSUME ConsoleInv, ConsoleInv', OnTheWayIn, OnTheWayIn', [Next]_allVars
                 PROVE  FromHost!Next \/ UNCHANGED <<typed, input>>
      BY DEF FromHost!vars
    <2>1. OnTheWayIn /\ OnTheWayIn'
      OBVIOUS
    <2>2. CASE Arrival
      <3>1. typed' = typed + 1 /\ input' = input /\ typed - fetched < FifoDepth
        BY <2>2 DEF Arrival, Arrives, rx_level
      <3>2. typed + 1 <= got + (BUF_LEN - 1 + FifoDepth)
        BY <2>1, <3>1, Indices, FifoAssumption DEF OnTheWayIn
      <3>3. typed' \in typed .. Len(input) + (BUF_LEN - 1 + FifoDepth)
        BY <2>1, <3>1, <3>2, Indices, FifoAssumption DEF OnTheWayIn, got
      <3> QED
        BY <3>1, <3>3 DEF FromHost!Next, FromHost!Put
    <2>3. CASE ReadCopy
      <3>1. typed' = typed /\ n \in Nat
        BY <2>3 DEF ReadCopy, deviceSide, deviceVars, ConsoleInv, Incoming, InputTypes, reading
      <3>2. got' = got + n
        <4>1. input' = [c \in 1 .. got + n |-> IF c <= got THEN input[c] ELSE rx_buf[rx_out + c - got - 1]]
          BY <2>3 DEF ReadCopy, got
        <4>2. got + n \in Nat /\ DOMAIN input' = 1 .. got + n
          BY <2>1, <3>1, <4>1 DEF OnTheWayIn
        <4>3. input' \in Seq(Nat)
          BY DEF ConsoleInv, Incoming, InputTypes
        <4> QED
          BY <4>2, <4>3 DEF got
      <3>3. got' <= typed'
        <4>1. /\ got' \in Nat /\ typed' \in Nat /\ fetched' \in Nat /\ freeing' \in Nat
              /\ fill(rx_in, rx_out)' \in Nat
          BY DEF OnTheWayIn
        <4>2. /\ fetched' + freeing' = got' + fill(rx_in, rx_out)'
              /\ freeing' <= fill(rx_in, rx_out)' /\ fetched' <= typed'
          BY DEF OnTheWayIn
        <4> QED
          BY <4>1, <4>2, NoMore
      <3>4. input' = [c \in 1 .. got' |-> c] /\ got' \in Len(input) .. typed
        BY <2>1, <3>1, <3>2, <3>3 DEF OnTheWayIn, got
      <3> QED
        BY <3>1, <3>4 DEF FromHost!Next, FromHost!Take
    <2>4. CASE InputRests \/ IsrReceive \/ ReadLook \/ ReadPost
      BY <2>4 DEF InputRests, IsrReceive, ReadLook, ReadPost, deviceSide, deviceVars, callVars
    <2> QED
      BY <2>2, <2>3, <2>4, InputSteps
  <1> QED
    BY <1>1, <1>2, <1>3, Invariance, PTL DEF Spec, KeepsInput, FromHost!Spec

\* close returns early only on a host that was silent for the time set, and
\* never if that time is for ever.
LEMMA CloseWaits ==
  ConsoleInv /\ [Next]_allVars =>
    (pc = "close" /\ result' = "closed" /\ Len(output) # written =>
       host_away /\ timeout < IntMax - 1)
  <1> SUFFICES ASSUME ConsoleInv, [Next]_allVars, pc = "close", result' = "closed", Len(output) # written
               PROVE  host_away /\ timeout < IntMax - 1
    OBVIOUS
  <1>1. result = "none"
    BY DEF ConsoleInv, Locals
  <1>2. Close
    <2>1. ~LocalsRest /\ ~Start /\ ~Ask /\ ~Exit
      BY <1>1 DEF LocalsRest, Start, BootInterrupts, BootDevice, RegisterBegin, RegisterHandler, RegisterEnable,
           RegisterEnd, StartAlarm, Boot, Ask, Write, Read, Call, TIOCSTIMEOUT, Exit
    <2>2. Step
      BY <2>1, LocalsSteps
    <2> QED
      BY <2>2 DEF Step, WriteLook, WriteCopy, WritePost, WriteKick, WriteWait, WriteWaited, ReadLook,
           ReadEmpty, ReadCopy, ReadPost, ReadEnable, ReadWait
  <1>3. tx_out # tx_in
    <2>1. unposted = 0
      BY DEF unposted
    <2>2. OnTheWayOut /\ sent # written
      BY OutgoingOnTheWay DEF ConsoleInv, sent
    <2>3. fill(tx_in, tx_out) # 0
      BY <2>1, <2>2 DEF OnTheWayOut
    <2> QED
      BY <2>3, Fill DEF ConsoleInv, Outgoing, OutputTypes
  <1>4. host_away
    <2>1. ~(result' = "EWOULDBLOCK")
      OBVIOUS
    <2> QED
      BY <1>2, <1>3, <2>1 DEF Close, Return
  <1>5. timeout < IntMax - 1
    <2>1. host_inactive \in 0 .. IntMax - 2 /\ timeout \in 2 .. IntMax /\ IntMax \in Nat
      BY TimeoutAssumption DEF ConsoleInv, Registers
    <2> QED
      BY <1>4, <2>1 DEF host_away
  <1> QED
    BY <1>4, <1>5

-----------------------------------------------------------------------------
(* Giving up.                                                              *)

\* Only a clock counts silence.
Counted ==
  /\ elapsed => clock
  /\ serving = Timer => clock
  /\ host_inactive > 0 => clock

LEMMA CountedStep ==
  ASSUME ConsoleInv, Counted, [Next]_allVars
  PROVE  Counted'
  <1>1. CASE Start
    BY <1>1 DEF Start, BootInterrupts, BootDevice, RegisterBegin, RegisterHandler, RegisterEnable, RegisterEnd,
         StartAlarm, Boot, driverRest, timeVars, clockVars, cpuVars, CPU!alt_irq_init, CPU!alt_irq_enable, Counted
  <1>2. CASE Program
    <2>1. UNCHANGED <<serving, clock, elapsed>>
      BY <1>2 DEF Program, cpuVars, clockVars
    <2>2. UNCHANGED host_inactive
      <3>1. CASE Ask
        BY <3>1 DEF Ask, Write, Read, Call, TIOCSTIMEOUT, deviceSide, timeVars
      <3>2. CASE Exit
        BY <3>2 DEF Exit, deviceSide, timeVars
      <3>3. CASE Step
        BY <3>3 DEF Step, WriteLook, WriteCopy, WritePost, WriteKick, WriteWait, WriteWaited, ReadLook,
             ReadEmpty, ReadCopy, ReadPost, ReadEnable, ReadWait, Close, deviceSide, timeVars
      <3> QED
        BY <1>2, <3>1, <3>2, <3>3 DEF Program
    <2> QED
      BY <2>1, <2>2 DEF Counted
  <1>3. CASE Serve
    <2>1. serving' = CPU!Min(CPU!ipending(up)) /\ CPU!ipending(up) # {}
      BY <1>3 DEF Serve, CPU!Dispatch
    <2>2. CPU!ipending(up) \subseteq {Uart, Timer}
      BY DEF CPU!ipending, ConsoleInv, Processor
    <2>3. serving' \in up
      BY <2>1, <2>2, LowestLine DEF CPU!ipending
    <2>4. serving' = Timer => elapsed
      BY <2>3, LinesAssumption DEF up
    <2>5. UNCHANGED <<clock, elapsed, host_inactive>>
      BY <1>3 DEF Serve, timeVars, clockVars
    <2> QED
      BY <2>4, <2>5 DEF Counted
  <1>4. CASE ServeTimer
    <2>1. clock /\ clock' = clock
      BY <1>4 DEF ServeTimer, Counted
    <2> QED
      BY <2>1 DEF Counted
  <1>5. CASE ServeUart
    <2>1. serving' \in {Uart, Scan}
      BY <1>5 DEF ServeUart, CPU!HandlerReturns, cpuVars
    <2>2. UNCHANGED <<clock, elapsed, host_inactive>>
      BY <1>5 DEF ServeUart, Isr, IsrPoll, IsrReceive, IsrFull, IsrNothing, IsrLate, TurnOff, IsrSend, IsrSent,
           timeVars, clockVars
    <2> QED
      BY <2>1, <2>2, LinesAssumption, ThreadAssumption DEF Counted
  <1>6. CASE Enter \/ Leave
    BY <1>6, ThreadAssumption DEF Enter, Leave, CPU!Exception, CPU!Return, uartVars, vars, timeVars, clockVars, Counted
  <1>7. CASE Second
    BY <1>7 DEF Second, uartVars, vars, timeVars, cpuVars, Counted
  <1>8. CASE Terminal \/ UNCHANGED allVars
    BY <1>8 DEF Terminal, allVars, uartVars, vars, timeVars, cpuVars, clockVars, Counted
  <1> QED
    BY <1>1, <1>2, <1>3, <1>4, <1>5, <1>6, <1>7, <1>8 DEF Next, Interrupts

LEMMA CallWaits ==
  ASSUME ConsoleInv, Counted, [Next]_allVars, pc' = "idle", ~nonblock
  PROVE  /\ pc \in writing_stages /\ count > 0 => clock /\ host_inactive > 0
         /\ pc \in reading_stages /\ ~some => clock /\ host_away /\ timeout < IntMax - 1
  <1> DEFINE writes == pc \in writing_stages /\ count > 0
             reads == pc \in reading_stages /\ ~some
  <1> SUFFICES ASSUME writes \/ reads
               PROVE  /\ writes => clock /\ host_inactive > 0
                      /\ reads => clock /\ host_away /\ timeout < IntMax - 1
    BY Zenon
  <1>1. host_inactive \in 0 .. IntMax - 2 /\ timeout \in 2 .. IntMax /\ IntMax \in Nat
    BY TimeoutAssumption DEF ConsoleInv, Registers
  <1>2. Step
    <2>1. ~LocalsRest /\ ~Start /\ ~Ask /\ ~Exit
      BY DEF writing_stages, reading_stages, LocalsRest, Start, BootInterrupts, BootDevice, RegisterBegin,
           RegisterHandler, RegisterEnable, RegisterEnd, StartAlarm, Boot, Ask, Write, Read, Call, TIOCSTIMEOUT, Exit
    <2> QED
      BY <2>1, LocalsSteps
  <1>3. ~ReadEnable
    BY DEF ReadEnable, writing_stages, ConsoleInv, Locals
  <1>4. WriteWaited \/ ReadWait
    BY <1>2, <1>3 DEF Step, WriteLook, WriteCopy, WritePost, WriteKick, WriteWait, ReadLook, ReadEmpty,
         ReadCopy, ReadPost, Close, writing_stages, reading_stages
  <1>5. CASE WriteWaited
    BY <1>1, <1>5 DEF WriteWaited, Counted, reading_stages
  <1>6. CASE ReadWait
    <2>1. host_away
      BY <1>6 DEF ReadWait
    <2> QED
      BY <1>1, <1>6, <2>1 DEF ReadWait, host_away, Counted, writing_stages
  <1> QED
    BY <1>4, <1>5, <1>6

\* A call that may wait comes back without what it was asked for only when the
\* clock has counted a silence of the host: a read and a close when it was as
\* long as set, and never if that is for ever.
THEOREM CallsArePatient == Spec => ShortOnSilence
  <1>1. Init => Counted
    BY ThreadAssumption DEF Init, CPU!Init, Counted
  <1>2. ConsoleInv /\ Counted /\ [Next]_allVars => Counted'
    BY CountedStep
  <1>3. ASSUME ConsoleInv, Counted, [Next]_allVars, pc = "close", result' = "closed", Len(output) # written
        PROVE  clock /\ host_away /\ timeout < IntMax - 1
    <2>1. host_away /\ timeout < IntMax - 1
      BY <1>3, CloseWaits
    <2>2. host_inactive > 0
      <3>1. host_inactive \in 0 .. IntMax - 2 /\ timeout \in 2 .. IntMax /\ IntMax \in Nat
        BY <1>3, TimeoutAssumption DEF ConsoleInv, Registers
      <3> QED
        BY <2>1, <3>1 DEF host_away
    <2> QED
      BY <1>3, <2>1, <2>2 DEF Counted
  <1>4. ConsoleInv /\ Counted /\ [Next]_allVars =>
          [/\ pc' = "idle" /\ ~nonblock =>
                /\ pc \in writing_stages /\ count > 0 => clock /\ host_inactive > 0
                /\ pc \in reading_stages /\ ~some => clock /\ host_away /\ timeout < IntMax - 1
           /\ pc = "close" /\ result' = "closed" /\ Len(output) # written =>
                clock /\ host_away /\ timeout < IntMax - 1]_allVars
    BY <1>3, CallWaits
  <1> QED
    BY <1>1, <1>2, <1>4, Invariance, PTL DEF Spec, ShortOnSilence
=============================================================================
