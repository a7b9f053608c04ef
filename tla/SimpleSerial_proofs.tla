------------------------ MODULE SimpleSerial_proofs ------------------------
(***************************************************************************)
(* The serial target, for any commands and any hosts: its types and its    *)
(* receiver, the resynchronisation at a newline, and, for a host that      *)
(* leaves the device its time, what a callback runs on and under which key *)
(* a block is answered.                                                    *)
(***************************************************************************)
EXTENDS SimpleSerial, SequenceTheorems, WellFoundedInduction, TLAPS

Char == 0..255
Registration ==
    [c : 0..255, len : Nat,
     fp : {"check_version", "get_key", "get_pt", "reset"}]
Entry == [c : Char, len : 0..MAX_SS_LEN,
          fp : {"check_version", "get_key", "get_pt", "reset"}]

LEMMA EachRegistration ==
    /\ Len(Registrations) \in Nat
    /\ DOMAIN Registrations = 1..Len(Registrations)
    /\ \A i \in 1..Len(Registrations) :
          /\ Registrations[i] \in Registration
          /\ Registrations[i].len \in Nat
<1>1. Registrations \in Seq(Registration)
  BY SimpleSerialAssumption DEF Registration
<1>2. \A r \in Registration : r.len \in Nat
  BY DEF Registration
<1> QED
  BY <1>1, <1>2

\* The smallest of some numbers.
LEMMA FirstIn ==
    ASSUME NEW I, I \subseteq Nat, I # {}
    PROVE  First(I) \in I /\ \A j \in I : First(I) <= j
<1>1. IsWellFoundedOn(OpToRel(<, Nat), Nat)
  BY NatLessThanWellFounded
<1>2. PICK i \in I : \A j \in I : ~(<<j, i>> \in OpToRel(<, Nat))
  BY <1>1, WFMin
<1>3. ASSUME NEW j \in I PROVE i <= j
  <2>1. j \in Nat /\ i \in Nat /\ <<j, i>> \in Nat \X Nat
    OBVIOUS
  <2>2. ~(j < i)
    BY <1>2, <2>1 DEF OpToRel
  <2> QED
    BY <2>1, <2>2
<1> QED
  BY <1>3 DEF First

-----------------------------------------------------------------------------
(* Types, the command in progress, and the receiver. *)

Pcs == {"register", "getch", "wait", "callback", "ack"}

DeviceTypeOK ==
    /\ pc \in Pcs
    /\ tried \in 0..Len(Registrations)
    /\ commands \in Seq(Entry) /\ Len(commands) <= tried
    /\ stage \in {"command", "data", "end"}
    /\ cmd \in 0..Len(commands)
    /\ ascii_buf \in Seq(Char)
    /\ rdr \in Char \cup {None}

\* How much of a command's data has come, by where simpleserial_get is.
BufferInv ==
    /\ cmd = 0 => ascii_buf = <<>> /\ stage = "command" /\ pc \notin {"callback", "ack"}
    /\ cmd # 0 => Len(ascii_buf) <= 2 * commands[cmd].len
    /\ stage = "data" => Len(ascii_buf) < 2 * commands[cmd].len
    /\ stage = "end" => Len(ascii_buf) = 2 * commands[cmd].len
    /\ pc \in {"callback", "ack"} =>
          stage = "command" /\ Len(ascii_buf) = 2 * commands[cmd].len
    /\ pc = "register" => cmd = 0

HostInv ==
    /\ host \in Hosts
    /\ line \in host.lines \cup {<<>>}
    /\ rest \in Seq(Char) /\ Len(rest) <= Len(line)

DeviceInv == DeviceTypeOK /\ BufferInv /\ HostInv

LEMMA DeviceInit == Init => DeviceInv
<1> SUFFICES ASSUME Init PROVE DeviceInv
  OBVIOUS
<1>1. Len(Registrations) \in Nat
  BY SimpleSerialAssumption
<1>2. commands \in Seq(Entry) /\ ascii_buf \in Seq(Char) /\ rest \in Seq(Char)
  BY DEF Init
<1> QED
  BY <1>1, <1>2 DEF Init, DeviceInv, DeviceTypeOK, BufferInv, HostInv, Pcs

\* Registering appends at most one command, and none whose data is too long.
LEMMA RegisterStep ==
    ASSUME DeviceInv, Register
    PROVE  DeviceInv'
<1>1. /\ tried < Len(Registrations) /\ tried' = tried + 1
      /\ simpleserial_addcmd(Registrations[tried + 1])
      /\ UNCHANGED <<pc, stage, cmd, ascii_buf, rdr, host, line, rest>>
      /\ pc = "register"
  BY DEF Register, sender
<1>2. /\ tried \in Nat /\ Len(Registrations) \in Nat /\ Len(commands) \in Nat
      /\ Len(commands) <= tried
  BY SimpleSerialAssumption DEF DeviceInv, DeviceTypeOK
<1>3. PICK new : new = Registrations[tried + 1]
  OBVIOUS
<1>4. new \in Registration
  <2>1. tried + 1 \in 1..Len(Registrations)
    BY <1>1, <1>2
  <2> QED
    BY <1>3, <2>1, EachRegistration
<1>5. commands' \in Seq(Entry) /\ Len(commands') <= Len(commands) + 1
      /\ Len(commands) <= Len(commands')
  <2>1. CASE commands' = commands
    BY <1>2, <2>1 DEF DeviceInv, DeviceTypeOK
  <2>2. CASE new.len <= MAX_SS_LEN /\ commands' = Append(commands, new)
    <3>1. new.len \in 0..MAX_SS_LEN
      <4>1. new.len \in Nat
        BY <1>4 DEF Registration
      <4>2. new.len <= MAX_SS_LEN
        BY <2>2
      <4>3. MAX_SS_LEN \in Nat
        BY DEF MAX_SS_LEN
      <4> QED
        BY <4>1, <4>2, <4>3
    <3>2. new \in Entry
      <4>1. new = [c |-> new.c, len |-> new.len, fp |-> new.fp]
        BY <1>4 DEF Registration
      <4>2. /\ new.c \in 0..255
            /\ new.fp \in {"check_version", "get_key", "get_pt", "reset"}
        BY <1>4 DEF Registration
      <4> QED
        BY <3>1, <4>1, <4>2 DEF Entry, Char
    <3> QED
      <4>1. commands \in Seq(Entry)
        BY DEF DeviceInv, DeviceTypeOK
      <4> HIDE DEF Entry
      <4> QED
        BY <1>2, <2>2, <3>2, <4>1
  <2> QED
    BY <1>1, <1>3, <1>4, <2>1, <2>2 DEF simpleserial_addcmd, MAX_SS_LEN, Registration
<1>6. cmd = 0
  BY <1>1 DEF DeviceInv, BufferInv
<1> QED
  BY <1>1, <1>2, <1>5, <1>6
     DEF DeviceInv, DeviceTypeOK, BufferInv, HostInv, Pcs

\* What simpleserial_get does with a character.
LEMMA GetStep ==
    ASSUME DeviceTypeOK, BufferInv, pc = "wait", NEW c \in Char, simpleserial_get(c),
           UNCHANGED <<tried, commands>>, rdr' \in Char \cup {None}
    PROVE  DeviceTypeOK' /\ BufferInv'
<1>1. /\ commands \in Seq(Entry) /\ Len(commands) \in Nat
      /\ \A i \in 1..Len(commands) : commands[i].len \in Nat
      /\ ascii_buf \in Seq(Char) /\ Len(ascii_buf) \in Nat
  <2>1. /\ commands \in Seq(Entry) /\ Len(commands) \in Nat
        /\ ascii_buf \in Seq(Char) /\ Len(ascii_buf) \in Nat
    BY DEF DeviceTypeOK
  <2>2. \A i \in 1..Len(commands) : commands[i] \in Entry
    BY <2>1
  <2>3. \A e \in Entry : e.len \in Nat
    BY DEF Entry, MAX_SS_LEN
  <2> QED
    BY <2>1, <2>2, <2>3
<1>2. CASE Command(c)
  <2>1. CASE Matches(c) = {}
    <3>1. /\ UNCHANGED <<stage, cmd>> /\ ascii_buf' = <<>> /\ pc' = "getch"
          /\ stage = "command"
      BY <1>2, <2>1 DEF Command
    <3>2. ascii_buf' \in Seq(Char) /\ Len(ascii_buf') = 0
      BY <3>1
    <3>3. cmd # 0 => commands[cmd].len \in Nat
      BY <1>1 DEF DeviceTypeOK
    <3> QED
      BY <3>1, <3>2, <3>3 DEF DeviceTypeOK, BufferInv, Pcs
  <2>2. CASE Matches(c) # {}
    <3>1. First(Matches(c)) \in 1..Len(commands)
      <4>1. Matches(c) \subseteq 1..Len(commands)
        BY <1>1 DEF Matches
      <4> QED
        BY <1>1, <2>2, <4>1, FirstIn
    <3>2. /\ cmd' \in 1..Len(commands) /\ ascii_buf' = <<>> /\ pc' = "getch"
          /\ stage' = IF commands[cmd'].len = 0 THEN "end" ELSE "data"
      BY <1>2, <2>2, <3>1 DEF Command
    <3>3. ascii_buf' \in Seq(Char) /\ Len(ascii_buf') = 0 /\ commands[cmd'].len \in Nat
      BY <1>1, <3>2
    <3> QED
      BY <1>1, <3>2, <3>3 DEF DeviceTypeOK, BufferInv, Pcs
  <2> QED
    BY <2>1, <2>2
<1>3. CASE Data(c)
  <2>1. /\ stage = "data" /\ cmd' = cmd /\ pc' = "getch"
        /\ cmd \in 1..Len(commands) /\ commands[cmd].len \in Nat
        /\ Len(ascii_buf) < 2 * commands[cmd].len
    BY <1>1, <1>3 DEF Data, DeviceTypeOK, BufferInv
  <2>2. CASE stage' = "command" /\ UNCHANGED ascii_buf
    BY <2>1, <2>2 DEF DeviceTypeOK, BufferInv, Pcs
  <2>3. CASE /\ ascii_buf' = Append(ascii_buf, c)
             /\ stage' = IF Len(ascii_buf') = 2 * commands[cmd].len
                         THEN "end" ELSE "data"
    <3>1. ascii_buf' \in Seq(Char) /\ Len(ascii_buf') = Len(ascii_buf) + 1
      BY <1>1, <2>3
    <3> QED
      BY <1>1, <2>1, <2>3, <3>1 DEF DeviceTypeOK, BufferInv, Pcs
  <2> QED
    BY <1>3, <2>2, <2>3 DEF Data
<1>4. CASE End(c)
  <2>1. /\ stage = "end" /\ stage' = "command" /\ UNCHANGED <<cmd, ascii_buf>>
        /\ pc' \in {"callback", "getch"}
    BY <1>4 DEF End
  <2> QED
    BY <1>1, <2>1 DEF DeviceTypeOK, BufferInv, Pcs
<1> QED
  BY <1>2, <1>3, <1>4 DEF simpleserial_get

\* The host sends its lines' bytes.
LEMMA SenderStep ==
    ASSUME DeviceInv, Sender
    PROVE  DeviceInv'
<1>1. UNCHANGED <<pc, tried, commands, stage, cmd, ascii_buf, host>>
  BY DEF Sender, SendByte, NextLine, device
<1>2. rest \in Seq(Char) /\ host \in Hosts /\ host.lines \subseteq Seq(Char)
  BY SimpleSerialAssumption DEF DeviceInv, HostInv, Char
<1>3. rdr' \in Char \cup {None} /\ HostInv'
  <2>1. CASE SendByte
    <3>1. /\ rest # <<>> /\ rest' = Tail(rest) /\ line' = line
          /\ rdr' \in {rdr, Head(rest)}
      BY <2>1 DEF SendByte
    <3>2. Head(rest) \in Char /\ rest' \in Seq(Char) /\ Len(rest') = Len(rest) - 1
      BY <1>2, <3>1
    <3>3. Len(line) \in Nat
      BY <1>2 DEF DeviceInv, HostInv
    <3> QED
      BY <1>1, <1>2, <3>1, <3>2, <3>3 DEF DeviceInv, DeviceTypeOK, HostInv
  <2>2. ASSUME NEW l \in host.lines, NextLine(l)
        PROVE  rdr' \in Char \cup {None} /\ HostInv'
    <3>1. line' = l /\ rest' = l /\ rdr' = rdr
      BY <2>2 DEF NextLine
    <3>2. l \in Seq(Char) /\ Len(l) \in Nat
      BY <1>2
    <3> QED
      BY <1>1, <1>2, <3>1, <3>2 DEF DeviceInv, DeviceTypeOK, HostInv
  <2> QED
    BY <2>1, <2>2 DEF Sender
<1> QED
  BY <1>1, <1>3 DEF DeviceInv, DeviceTypeOK, BufferInv

\* Every step keeps the types and the buffer within its command's length.
LEMMA DeviceStep ==
    ASSUME DeviceInv, [Next]_vars
    PROVE  DeviceInv'
<1> USE DEF DeviceInv
<1>1. CASE Register
  BY <1>1, RegisterStep
<1>2. CASE Registered
  BY <1>2 DEF Registered, sender, DeviceTypeOK, BufferInv, HostInv, Pcs
<1>3. CASE Receive
  BY <1>3 DEF Receive, sender, DeviceTypeOK, BufferInv, HostInv, Pcs
<1>4. CASE Received
  <2>1. /\ pc = "wait" /\ rdr \in Char /\ rdr' = None
        /\ simpleserial_get(rdr) /\ UNCHANGED <<tried, commands, host, line, rest>>
    BY <1>4 DEF Received, sender, DeviceTypeOK
  <2> QED
    BY <2>1, GetStep DEF HostInv
<1>5. ASSUME NEW c \in host.garbage, ReceiveTimeout(c)
      PROVE  DeviceInv'
  <2>1. c \in Char
    BY SimpleSerialAssumption DEF HostInv, Char
  <2>2. /\ pc = "wait" /\ rdr' = rdr /\ simpleserial_get(c)
        /\ UNCHANGED <<tried, commands, host, line, rest>>
    BY <1>5 DEF ReceiveTimeout, sender
  <2>3. rdr' \in Char \cup {None}
    BY <2>2 DEF DeviceTypeOK
  <2> QED
    BY <2>1, <2>2, <2>3, GetStep DEF HostInv
<1>6. CASE Callback
  BY <1>6 DEF Callback, sender, DeviceTypeOK, BufferInv, HostInv, Pcs
<1>7. CASE Acknowledge
  BY <1>7 DEF Acknowledge, sender, DeviceTypeOK, BufferInv, HostInv, Pcs
<1>8. CASE Sender
  BY <1>8, SenderStep
<1>9. CASE UNCHANGED vars
  BY <1>9 DEF vars, device, sender, DeviceTypeOK, BufferInv, HostInv
<1> QED
  BY <1>1, <1>2, <1>3, <1>4, <1>5, <1>6, <1>7, <1>8, <1>9 DEF Next, Device

LEMMA DeviceInvariance == Spec => []DeviceInv
<1>1. DeviceInv /\ [Next]_vars => DeviceInv'
  BY DeviceStep
<1> QED
  BY DeviceInit, <1>1, PTL DEF Spec


\* The receive handle is free except in the wait.
ReceiverInv == rxReady = (pc # "wait") /\ locked = (pc = "wait")

LEMMA ReceiverInvariance == Spec => []ReceiverInv
<1>1. Init => ReceiverInv
  BY DEF Init, ReceiverInv
<1>2. ASSUME ReceiverInv, [Next]_vars
      PROVE  ReceiverInv'
  <2>1. CASE Register
    BY <1>2, <2>1 DEF Register, ReceiverInv
  <2>2. CASE Registered
    BY <1>2, <2>2 DEF Registered, ReceiverInv
  <2>3. CASE Receive
    BY <1>2, <2>3 DEF Receive, ReceiverInv
  <2>4. ASSUME NEW c, simpleserial_get(c), Restore
        PROVE  ReceiverInv'
    <3>1. pc' \in {"getch", "callback"}
      BY <2>4 DEF simpleserial_get, Command, Data, End
    <3> QED
      BY <2>4, <3>1 DEF Restore, ReceiverInv
  <2>5. CASE Received
    BY <2>4, <2>5 DEF Received
  <2>6. ASSUME NEW c, ReceiveTimeout(c)
        PROVE  ReceiverInv'
    BY <2>4, <2>6 DEF ReceiveTimeout
  <2>7. CASE Callback
    BY <1>2, <2>7 DEF Callback, ReceiverInv
  <2>8. CASE Acknowledge
    BY <1>2, <2>8 DEF Acknowledge, ReceiverInv
  <2>9. CASE UNCHANGED vars \/ Sender
    BY <1>2, <2>9 DEF vars, device, Sender, SendByte, NextLine, ReceiverInv
  <2> QED
    BY <1>2, <2>1, <2>2, <2>3, <2>5, <2>6, <2>7, <2>8, <2>9 DEF Next, Device
<1> QED
  BY <1>1, <1>2, PTL DEF Spec

\* SimpleSerial.TypeOK: types, the buffer within the command's length, and the
\* command table never ahead of the registrations.
THEOREM SerialTypeCorrect == Spec => []TypeOK
<1>1. ASSUME DeviceInv, ReceiverInv
      PROVE  TypeOK
  <2>1. rxReady \in BOOLEAN /\ locked \in BOOLEAN
    BY <1>1 DEF ReceiverInv
  <2>2. cmd # 0 => commands[cmd].len \in 0..MAX_SS_LEN
    <3>1. cmd # 0 => commands[cmd] \in Entry
      BY <1>1 DEF DeviceInv, DeviceTypeOK
    <3> QED
      BY <3>1 DEF Entry
  <2>3. Len(ascii_buf) <= 2 * MAX_SS_LEN
    <3>1. Len(ascii_buf) \in Nat /\ MAX_SS_LEN \in Nat
      BY <1>1 DEF DeviceInv, DeviceTypeOK, MAX_SS_LEN
    <3>2. CASE cmd = 0
      <4>1. ascii_buf = <<>>
        BY <1>1, <3>2 DEF DeviceInv, BufferInv
      <4> QED
        BY <3>1, <4>1
    <3>3. CASE cmd # 0
      <4>1. Len(ascii_buf) <= 2 * commands[cmd].len
        BY <1>1, <3>3 DEF DeviceInv, BufferInv
      <4> QED
        BY <2>2, <3>1, <3>3, <4>1
    <3> QED
      BY <3>2, <3>3
  <2> QED
    BY <1>1, <2>1, <2>3
       DEF DeviceInv, DeviceTypeOK, BufferInv, HostInv, TypeOK, Pcs, Char
<1> QED
  BY <1>1, DeviceInvariance, ReceiverInvariance, PTL

\* SimpleSerial.ReceiverNeverBusy: every way out of HAL_UART_Receive leaves the
\* handle free, so each getch starts a reception of its own.
THEOREM NeverBusy == Spec => []ReceiverNeverBusy
<1>1. ReceiverInv => ReceiverNeverBusy
  BY DEF ReceiverInv, ReceiverNeverBusy
<1> QED
  BY <1>1, ReceiverInvariance, PTL

-----------------------------------------------------------------------------
(* The command table of a program that keeps to simpleserial.h. *)

TableInv ==
    /\ Len(commands) = tried
    /\ \A i \in 1..tried : commands[i] = Registrations[i]
    /\ pc # "register" => tried = Len(Registrations)

LEMMA TableInit == Init => TableInv
<1> SUFFICES ASSUME Init PROVE TableInv
  OBVIOUS
<1>1. Len(Registrations) \in Nat
  BY SimpleSerialAssumption
<1> QED
  BY <1>1 DEF Init, TableInv

LEMMA TableStep ==
    ASSUME ProgramCommands, DeviceTypeOK, TableInv, [Next]_vars
    PROVE  TableInv'
<1>1. /\ tried \in Nat /\ Len(Registrations) \in Nat /\ MaxCmds \in Nat
      /\ Len(Registrations) <= MaxCmds
      /\ commands \in Seq(Entry)
  BY SimpleSerialAssumption DEF DeviceTypeOK, ProgramCommands
<1>2. CASE Register
  <2>1. /\ pc' = pc /\ pc = "register"
        /\ tried < Len(Registrations) /\ tried' = tried + 1
        /\ simpleserial_addcmd(Registrations[tried + 1])
    BY <1>2 DEF Register
  <2>2. PICK new : new = Registrations[tried + 1]
    OBVIOUS
  <2>3. new.len <= MAX_SS_LEN
    BY <1>1, <2>1, <2>2, SimpleSerialAssumption DEF ProgramCommands
  <2>4. ~(Len(commands) > MaxCmds)
    BY <1>1, <2>1 DEF TableInv
  <2>5. ~(new.len > MAX_SS_LEN)
    <3>1. new.len \in Nat /\ MAX_SS_LEN \in Nat
      <4>1. tried + 1 \in 1..Len(Registrations)
        BY <1>1, <2>1
      <4> QED
        BY <2>2, <4>1, EachRegistration DEF MAX_SS_LEN
    <3> QED
      BY <2>3, <3>1
  <2>6. commands' = Append(commands, new)
    BY <2>1, <2>2, <2>4, <2>5 DEF simpleserial_addcmd
  <2>7. /\ Len(commands') = Len(commands) + 1
        /\ commands'[Len(commands) + 1] = new
        /\ \A i \in 1..Len(commands) : commands'[i] = commands[i]
    BY <1>1, <2>6
  <2> QED
    BY <1>1, <2>1, <2>2, <2>7 DEF TableInv
<1>3. CASE Registered
  BY <1>3 DEF Registered, TableInv
<1>4. CASE /\ UNCHANGED <<tried, commands>>
           /\ pc # "register" \/ pc' = pc
  BY <1>4 DEF TableInv
<1>5. CASE Receive \/ Callback \/ Acknowledge \/ Received
  BY <1>4, <1>5 DEF Receive, Callback, Acknowledge, Received
<1>6. ASSUME NEW c, ReceiveTimeout(c)
      PROVE  TableInv'
  BY <1>4, <1>6 DEF ReceiveTimeout
<1>7. CASE Sender \/ UNCHANGED vars
  BY <1>4, <1>7 DEF Sender, SendByte, NextLine, vars, device
<1> QED
  BY <1>2, <1>3, <1>5, <1>6, <1>7 DEF Next, Device

LEMMA TableInvariance == ProgramCommands /\ Spec => []TableInv
<1> SUFFICES ASSUME ProgramCommands PROVE Spec => []TableInv
  OBVIOUS
<1>1. TableInv /\ DeviceInv /\ [Next]_vars => TableInv'
  BY TableStep DEF DeviceInv
<1> QED
  BY <1>1, TableInit, DeviceInvariance, PTL DEF Spec

\* The letters the device matches are those of the registrations.
LEMMA MatchesLetter ==
    ASSUME ProgramCommands, DeviceTypeOK, TableInv, pc = "wait", NEW c
    PROVE  /\ Matches(c) = {i \in DOMAIN Registrations : Registrations[i].c = c}
           /\ Matches(c) = {} <=> c \notin Letters
           /\ c \in Newline => c \notin Letters
<1>1. /\ Len(commands) = Len(Registrations)
      /\ \A i \in 1..Len(Registrations) : commands[i] = Registrations[i]
      /\ DOMAIN commands = 1..Len(commands)
      /\ DOMAIN Registrations = 1..Len(Registrations)
  BY SimpleSerialAssumption DEF TableInv, DeviceTypeOK
<1>2. Matches(c) = {i \in DOMAIN Registrations : Registrations[i].c = c}
  BY <1>1 DEF Matches
<1>3. Matches(c) = {} <=> c \notin Letters
  BY <1>2 DEF Letters
<1>4. c \in Newline => c \notin Letters
  BY DEF Letters, ProgramCommands
<1> QED
  BY <1>2, <1>3, <1>4

\* SimpleSerial.NewlineResynchronises: whatever was lost or garbled before, the
\* next end of line read leaves simpleserial_get at the start of a command.
THEOREM Resynchronises == ProgramCommands /\ Spec => NewlineResynchronises
<1> SUFFICES ASSUME ProgramCommands PROVE Spec => NewlineResynchronises
  OBVIOUS
<1>1. ASSUME DeviceInv, TableInv, [Next]_vars, rdr' = None, rdr \in Newline
      PROVE  stage' = "command"
  <2>1. rdr # None
    BY <1>1 DEF Newline, None, LF, CR
  <2>2. Received
    BY <1>1, <2>1 DEF Next, Device, Register, Registered, Receive, ReceiveTimeout,
                      Callback, Acknowledge, Sender, SendByte, NextLine, vars
  <2>3. pc = "wait" /\ simpleserial_get(rdr)
    BY <2>2 DEF Received
  <2>4. Matches(rdr) = {}
    BY <1>1, <2>3, MatchesLetter DEF DeviceInv
  <2> QED
    BY <1>1, <2>3, <2>4 DEF simpleserial_get, Command, Data, End
<1>2. DeviceInv /\ TableInv /\ [Next]_vars
          => [rdr' = None /\ rdr \in Newline => stage' = "command"]_vars
  BY <1>1
<1> QED
  BY <1>2, DeviceInvariance, TableInvariance, PTL DEF Spec, NewlineResynchronises


-----------------------------------------------------------------------------
(* Characters: what hex_decode makes of a digit is what simpleserial_put    *)
(* writes, in either case of the letters.                                   *)

LEMMA DigitWritten ==
    ASSUME NEW c \in HexDigit
    PROVE  Nibble(c) \in 0..15 /\ hex_lookup[Nibble(c)] = Upcase(c)
<1>1. CASE c \in 48..57
  <2>1. Nibble(c) = c - 48
    BY <1>1 DEF Nibble
  <2> QED
    BY <1>1, <2>1 DEF hex_lookup, Upcase
<1>2. CASE c \in 65..70
  <2>1. Nibble(c) = c - 55
    BY <1>2 DEF Nibble
  <2> QED
    BY <1>2, <2>1 DEF hex_lookup, Upcase
<1>3. CASE c \in 97..102
  <2>1. Nibble(c) = c - 87
    BY <1>3 DEF Nibble
  <2> QED
    BY <1>3, <2>1 DEF hex_lookup, Upcase
<1> QED
  BY <1>1, <1>2, <1>3 DEF HexDigit

LEMMA WrittenIsDigit ==
    ASSUME NEW c \in Char, NEW n \in 0..15, Upcase(c) = hex_lookup[n]
    PROVE  c \in HexDigit
  BY DEF Char, Upcase, hex_lookup, HexDigit

LEMMA LookupInjective ==
    ASSUME NEW m \in 0..15, NEW n \in 0..15, hex_lookup[m] = hex_lookup[n]
    PROVE  m = n
  BY DEF hex_lookup

LEMMA NibbleOfLookup ==
    ASSUME NEW m \in 0..15
    PROVE  hex_lookup[m] \in HexDigit /\ Nibble(hex_lookup[m]) = m
<1>1. CASE m < 10
  <2>1. hex_lookup[m] = 48 + m /\ 48 + m \in 48..57
    BY <1>1 DEF hex_lookup
  <2> QED
    BY <1>1, <2>1 DEF HexDigit, Nibble
<1>2. CASE m >= 10
  <2>1. hex_lookup[m] = 55 + m /\ 55 + m \in 65..70
    BY <1>2 DEF hex_lookup
  <2> QED
    BY <2>1 DEF HexDigit, Nibble
<1> QED
  BY <1>1, <1>2

LEMMA ByteOfNibbles ==
    ASSUME NEW m \in 0..15, NEW n \in 0..15
    PROVE  /\ 16 * m + n \in Char
           /\ (16 * m + n) \div 16 = m
           /\ (16 * m + n) % 16 = n
           /\ \A b \in Char : b \div 16 = m /\ b % 16 = n => b = 16 * m + n
  BY DEF Char

\* The byte two digits stand for is the one that is written like them.
ByteOf(c, d) == CHOOSE b \in 0..255 : PutByte(b) = <<Upcase(c), Upcase(d)>>

LEMMA ByteWritten ==
    ASSUME NEW c \in HexDigit, NEW d \in HexDigit
    PROVE  ByteOf(c, d) = 16 * Nibble(c) + Nibble(d)
<1>1. /\ Nibble(c) \in 0..15 /\ hex_lookup[Nibble(c)] = Upcase(c)
      /\ Nibble(d) \in 0..15 /\ hex_lookup[Nibble(d)] = Upcase(d)
  BY DigitWritten
<1>2. PICK m \in 0..15 : m = Nibble(c)
  BY <1>1
<1>3. PICK n \in 0..15 : n = Nibble(d)
  BY <1>1
<1>4. PutByte(16 * m + n) = <<Upcase(c), Upcase(d)>>
  BY <1>1, <1>2, <1>3, ByteOfNibbles DEF PutByte
<1>5. ASSUME NEW b \in Char, PutByte(b) = <<Upcase(c), Upcase(d)>>
      PROVE  b = 16 * m + n
  <2>1. hex_lookup[b \div 16] = hex_lookup[m] /\ hex_lookup[b % 16] = hex_lookup[n]
    BY <1>1, <1>2, <1>3, <1>5 DEF PutByte
  <2>2. b \div 16 \in 0..15 /\ b % 16 \in 0..15
    BY DEF Char
  <2>3. b \div 16 = m /\ b % 16 = n
    BY <2>1, <2>2, LookupInjective
  <2> QED
    BY <2>3, ByteOfNibbles
<1>6. 16 * m + n \in Char
  BY ByteOfNibbles
<1> QED
  BY <1>2, <1>3, <1>4, <1>5, <1>6 DEF Char, ByteOf

LEMMA ByteDecoded ==
    ASSUME NEW b \in Char
    PROVE  /\ hex_lookup[b \div 16] \in HexDigit /\ hex_lookup[b % 16] \in HexDigit
           /\ 16 * Nibble(hex_lookup[b \div 16]) + Nibble(hex_lookup[b % 16]) = b
<1>1. b \div 16 \in 0..15 /\ b % 16 \in 0..15
  BY DEF Char
<1>2. PICK m \in 0..15 : m = b \div 16
  BY <1>1
<1>3. PICK n \in 0..15 : n = b % 16
  BY <1>1
<1>4. b = 16 * m + n
  BY <1>2, <1>3, ByteOfNibbles
<1>5. /\ hex_lookup[m] \in HexDigit /\ Nibble(hex_lookup[m]) = m
      /\ hex_lookup[n] \in HexDigit /\ Nibble(hex_lookup[n]) = n
  BY NibbleOfLookup
<1> QED
  BY <1>2, <1>3, <1>4, <1>5

\* hex_decode gives back any bytes that were written as simpleserial_put
\* writes them, and accepts them all.
THEOREM HexRoundTrip ==
    ASSUME NEW data \in Seq(Char), NEW text \in Seq(Char),
           \A i \in 1..Len(data) : <<text[2 * i - 1], text[2 * i]>> = PutByte(data[i])
    PROVE  hex_decode(Len(data), text) = [ok |-> TRUE, data |-> data]
<1>1. PICK n \in Nat : n = Len(data)
  OBVIOUS
<1>2. ASSUME NEW i \in 1..n
      PROVE  /\ text[2 * i - 1] \in HexDigit /\ text[2 * i] \in HexDigit
             /\ 16 * Nibble(text[2 * i - 1]) + Nibble(text[2 * i]) = data[i]
  <2>1. PICK b \in Char : b = data[i]
    BY <1>1
  <2>2. text[2 * i - 1] = hex_lookup[b \div 16] /\ text[2 * i] = hex_lookup[b % 16]
    BY <1>1, <2>1 DEF PutByte
  <2> QED
    BY <2>1, <2>2, ByteDecoded
<1>3. \A j \in 1..(2 * n) : text[j] \in HexDigit
  <2> TAKE j \in 1..(2 * n)
  <2>1. PICK i \in 1..n : j = 2 * i - 1 \/ j = 2 * i
    <3>1. (j + 1) \div 2 \in 1..n
          /\ (j = 2 * ((j + 1) \div 2) - 1 \/ j = 2 * ((j + 1) \div 2))
      OBVIOUS
    <3> QED
      BY <3>1
  <2>2. text[2 * i - 1] \in HexDigit /\ text[2 * i] \in HexDigit
    BY <1>2, <2>1
  <2> QED
    BY <2>1, <2>2
<1>4. data = [i \in 1..n |-> data[i]]
  BY <1>1
<1>5. [i \in 1..n |-> 16 * Nibble(text[2 * i - 1]) + Nibble(text[2 * i])] = data
  BY <1>2, <1>4
<1> QED
  BY <1>1, <1>3, <1>5 DEF hex_decode

-----------------------------------------------------------------------------
(* The line a host sends, and the part of it that is its command.           *)

Known(l) == {i \in DOMAIN l : l[i] \in Letters}
Start(l) == First(Known(l))

\* t is l from its i-th to its k-th character.
Piece(t, l, i, k) ==
    /\ t \in Seq(Char) /\ Len(t) = k - i + 1
    /\ \A j \in 1..Len(t) : t[j] = l[i + j - 1]

LEMMA PieceIsSubSeq ==
    ASSUME NEW l \in Seq(Char), NEW i \in 1..Len(l), NEW k \in i..Len(l), NEW t,
           Piece(t, l, i, k)
    PROVE  t = SubSeq(l, i, k)
<1>1. \A j \in i..k : l[j] \in Char
  OBVIOUS
<1>2. /\ SubSeq(l, i, k) \in Seq(Char)
      /\ Len(SubSeq(l, i, k)) = k - i + 1
      /\ \A j \in 1..(k - i + 1) : SubSeq(l, i, k)[j] = l[i + j - 1]
  BY <1>1, SubSeqProperties
<1>3. t \in Seq(Char) /\ Len(t) = k - i + 1 /\ \A j \in 1..Len(t) : t[j] = l[i + j - 1]
  BY DEF Piece
<1> QED
  BY <1>2, <1>3, SeqEqual

LEMMA SubSeqIsPiece ==
    ASSUME NEW l \in Seq(Char), NEW i \in 1..Len(l), NEW k \in i..Len(l)
    PROVE  Piece(SubSeq(l, i, k), l, i, k)
<1>1. \A j \in i..k : l[j] \in Char
  OBVIOUS
<1>2. /\ SubSeq(l, i, k) \in Seq(Char)
      /\ Len(SubSeq(l, i, k)) = k - i + 1
      /\ \A j \in 1..(k - i + 1) : SubSeq(l, i, k)[j] = l[i + j - 1]
  BY <1>1, SubSeqProperties
<1> QED
  BY <1>2 DEF Piece

LEMMA StartOfLine ==
    ASSUME NEW l \in Seq(Char)
    PROVE  /\ Known(l) = {} => Stripped(l) = <<>>
           /\ Known(l) # {} =>
                 /\ Start(l) \in 1..Len(l) /\ l[Start(l)] \in Letters
                 /\ \A j \in 1..(Start(l) - 1) : l[j] \notin Letters
                 /\ Stripped(l) = SubSeq(l, Start(l), Len(l))
                 /\ Piece(Stripped(l), l, Start(l), Len(l))
                 /\ Len(Stripped(l)) = Len(l) - Start(l) + 1
                 /\ Stripped(l)[1] = l[Start(l)]
<1>1. Known(l) \subseteq 1..Len(l) /\ Known(l) \subseteq Nat
  BY DEF Known
<1>2. Stripped(l) = IF Known(l) = {} THEN <<>> ELSE SubSeq(l, Start(l), Len(l))
  BY DEF Stripped, Known, Start
<1>3. CASE Known(l) # {}
  <2>1. Start(l) \in Known(l) /\ \A j \in Known(l) : Start(l) <= j
    BY <1>1, <1>3, FirstIn DEF Start
  <2>2. Start(l) \in 1..Len(l) /\ l[Start(l)] \in Letters
    BY <1>1, <2>1 DEF Known
  <2>3. ASSUME NEW j \in 1..(Start(l) - 1)
        PROVE  l[j] \notin Letters
    <3>1. j \notin Known(l) /\ j \in 1..Len(l)
      BY <2>1, <2>2, <2>3
    <3> QED
      BY <3>1 DEF Known
  <2>4. Piece(SubSeq(l, Start(l), Len(l)), l, Start(l), Len(l))
    BY <2>2, SubSeqIsPiece
  <2>5. Stripped(l) = SubSeq(l, Start(l), Len(l))
    BY <1>2, <1>3
  <2>6. Len(Stripped(l)) = Len(l) - Start(l) + 1 /\ Stripped(l) # <<>>
    <3>1. Len(Stripped(l)) = Len(l) - Start(l) + 1
      BY <2>4, <2>5 DEF Piece
    <3>2. Len(l) \in Nat
      OBVIOUS
    <3> QED
      BY <2>2, <3>1, <3>2
  <2> QED
    BY <1>3, <2>2, <2>3, <2>4, <2>5, <2>6
<1> QED
  BY <1>2, <1>3

\* The command part of a line is a line with the same command part.
LEMMA StrippedTwice ==
    ASSUME NEW l \in Seq(Char), Known(l) # {}
    PROVE  /\ Stripped(Stripped(l)) = Stripped(l)
           /\ Meant(Stripped(l)) = Meant(l)
           /\ Sound(Stripped(l)) <=> Sound(l)
           /\ DataOf(Stripped(l)) = DataOf(l)
<1>1. PICK s : s = Stripped(l)
  OBVIOUS
<1>2. s \in Seq(Char) /\ Len(s) \in Nat \ {0} /\ s[1] \in Letters
  BY <1>1, StartOfLine DEF Piece
<1>3. 1 \in Known(s)
  BY <1>2 DEF Known
<1>4. Start(s) = 1
  <2>1. Start(s) \in 1..Len(s) /\ \A j \in 1..(Start(s) - 1) : s[j] \notin Letters
    BY <1>2, <1>3, StartOfLine
  <2> QED
    BY <1>2, <2>1
<1>5. Piece(Stripped(s), s, 1, Len(s))
  BY <1>2, <1>3, <1>4, StartOfLine
<1>6. Stripped(s) = s
  <2>1. /\ Stripped(s) \in Seq(Char) /\ Len(Stripped(s)) = Len(s)
        /\ \A j \in 1..Len(s) : Stripped(s)[j] = s[j]
    BY <1>2, <1>5 DEF Piece
  <2> QED
    BY <1>2, <2>1, SeqEqual
<1>7. Meant(s) = Meant(l)
  BY <1>1, <1>6 DEF Meant
<1> QED
  BY <1>1, <1>6, <1>7 DEF Sound, DataOf

\* The command of a line with a registered letter is one of the registrations.
LEMMA KnownCommand ==
    ASSUME NEW l \in Seq(Char), Known(l) # {}
    PROVE  Meant(l).len \in Nat
<1>1. \E i \in DOMAIN Registrations : Registrations[i].c = Stripped(l)[1]
  BY StartOfLine DEF Letters
<1>2. PICK i \in DOMAIN Registrations : Meant(l) = Registrations[i]
  BY <1>1 DEF Meant
<1> QED
  BY <1>2, EachRegistration

\* The command a letter names is the one registered for it.
LEMMA MeantCommand ==
    ASSUME ProgramCommands, NEW l \in Seq(Char), Known(l) # {},
           NEW i \in DOMAIN Registrations, Registrations[i].c = l[Start(l)]
    PROVE  Meant(l) = Registrations[i]
<1>1. Stripped(l)[1] = l[Start(l)]
  BY StartOfLine
<1>2. \A j \in DOMAIN Registrations : Registrations[j].c = l[Start(l)] => j = i
  BY DEF ProgramCommands
<1> QED
  BY <1>1, <1>2 DEF Meant


-----------------------------------------------------------------------------
(* A paced host: no byte of a line is lost, and the characters read so far  *)
(* are the line's first Read ones.                                          *)

Read == Len(line) - Len(rest) - (IF rdr = None THEN 0 ELSE 1)

FeedInv ==
    /\ \A j \in 1..Len(rest) : rest[j] = line[Len(line) - Len(rest) + j]
    /\ rdr # None => Len(rest) < Len(line) /\ rdr = line[Len(line) - Len(rest)]

\* A command in progress is a piece of the line up to the last character read,
\* and the line's end is still to come.
CutInv ==
    stage # "command" =>
        Read < Len(line) /\ \E i \in 1..Read : Piece(taken, line, i, Read)

LEMMA NoneIsNoChar ==
    ASSUME NEW c \in Char
    PROVE  c # None
<1>1. c >= 0
  BY DEF Char
<1> QED
  BY <1>1 DEF None

LEMMA PacedLine ==
    ASSUME HostInv, host.paced
    PROVE  /\ line \in Seq(Char)
           /\ \A i \in 1..Len(line) : line[i] \in Newline <=> i = Len(line)
           /\ \A l \in host.lines : l \in Seq(Char)
           /\ host.garbage = {}
<1>1. host \in Hosts /\ host.lines \subseteq Seq(Char)
  BY SimpleSerialAssumption DEF HostInv, Char
<1>2. /\ host.garbage = {}
      /\ \A l \in host.lines : \A i \in DOMAIN l : l[i] \in Newline <=> i = Len(l)
  BY <1>1, HostAssumption
<1>3. CASE line \in host.lines
  BY <1>1, <1>2, <1>3
<1>4. CASE line = <<>>
  <2>1. line \in Seq(Char) /\ Len(line) = 0
    BY <1>4
  <2> QED
    BY <1>1, <1>2, <2>1
<1> QED
  BY <1>3, <1>4 DEF HostInv

\* The steps a paced host leaves, and what they do to the line and the command.
LEMMA PacedSteps ==
    ASSUME DeviceInv, host.paced, [Next]_vars
    PROVE  \/ Received
           \/ SendByte
           \/ \E l \in host.lines : NextLine(l)
           \/ Callback
           \/ Acknowledge
           \/ /\ UNCHANGED <<key, taken, stage, cmd, ascii_buf, sent, rdr, sender>>
              /\ pc' = pc \/ {pc, pc'} \subseteq {"register", "getch", "wait"}
              /\ pc = "register" \/ UNCHANGED commands
<1>1. host.garbage = {}
  BY PacedLine DEF DeviceInv
<1>2. Register \/ Registered \/ Receive \/ Received \/ Callback \/ Acknowledge
      \/ SendByte \/ (\E l \in host.lines : NextLine(l)) \/ UNCHANGED vars
  BY <1>1 DEF Next, Device, Sender
<1>3. CASE Register \/ Registered \/ Receive
  BY <1>3 DEF Register, Registered, Receive
<1>4. CASE UNCHANGED vars
  BY <1>4 DEF vars, device
<1> QED
  BY <1>2, <1>3, <1>4

\* What a read, a sent byte and a new line do to the position.
LEMMA ReadStep ==
    ASSUME DeviceInv, FeedInv, host.paced, Received
    PROVE  /\ FeedInv' /\ pc = "wait" /\ rdr \in Char
           /\ Read \in 0..(Len(line) - 1) /\ Read' = Read + 1
           /\ rdr = line[Read + 1]
           /\ rdr \in Newline <=> Read + 1 = Len(line)
           /\ Read + 1 = Len(line) => rest = <<>>
           /\ simpleserial_get(rdr) /\ Remember(rdr) /\ rdr' = None
           /\ UNCHANGED <<commands, key, line, rest, host, hostKey>>
<1>1. /\ pc = "wait" /\ rdr # None /\ rdr' = None
      /\ simpleserial_get(rdr) /\ Remember(rdr)
      /\ UNCHANGED <<commands, key, line, rest, host, hostKey>>
  BY DEF Received, sender
<1>2. /\ line \in Seq(Char) /\ rest \in Seq(Char) /\ rdr \in Char
      /\ Len(line) \in Nat /\ Len(rest) \in Nat
      /\ Len(rest) < Len(line) /\ rdr = line[Len(line) - Len(rest)]
      /\ \A i \in 1..Len(line) : line[i] \in Newline <=> i = Len(line)
  BY <1>1, PacedLine DEF DeviceInv, DeviceTypeOK, HostInv, FeedInv
<1>3. Read = Len(line) - Len(rest) - 1 /\ Read' = Len(line) - Len(rest)
  BY <1>1 DEF Read
<1>4. Read + 1 = Len(line) => rest = <<>>
  <2>1. Len(rest) = 0 => rest = <<>>
    BY <1>2
  <2> QED
    BY <1>2, <1>3, <2>1
<1>5. FeedInv'
  BY <1>1 DEF FeedInv
<1> QED
  BY <1>1, <1>2, <1>3, <1>4, <1>5

LEMMA SendStep ==
    ASSUME DeviceInv, FeedInv, host.paced, SendByte
    PROVE  /\ FeedInv' /\ Read' = Read /\ Read \in 0..(Len(line) - 1)
           /\ rdr = None /\ rdr' # None
           /\ rest' = <<>> => Read = Len(line) - 1
           /\ UNCHANGED <<device, taken, host, line>>
<1>1. /\ rest # <<>> /\ rdr = None /\ rdr' = Head(rest) /\ rest' = Tail(rest)
      /\ UNCHANGED <<device, taken, host, line>>
  BY DEF SendByte
<1>2. /\ line \in Seq(Char) /\ rest \in Seq(Char)
      /\ Len(line) \in Nat /\ Len(rest) \in Nat /\ Len(rest) <= Len(line)
  BY PacedLine DEF DeviceInv, HostInv
<1>3. /\ Len(rest) > 0 /\ Len(rest') = Len(rest) - 1 /\ rest' \in Seq(Char)
      /\ rdr' = rest[1] /\ rdr' \in Char
      /\ \A j \in 1..(Len(rest) - 1) : rest'[j] = rest[j + 1]
  BY <1>1, <1>2
<1>4. rdr' # None
  BY <1>3, NoneIsNoChar
<1>5. \A j \in 1..Len(rest) : rest[j] = line[Len(line) - Len(rest) + j]
  BY DEF FeedInv
<1>6. rdr' = line[Len(line) - Len(rest')]
  BY <1>2, <1>3, <1>5
<1>7. ASSUME NEW j \in 1..Len(rest')
      PROVE  rest'[j] = line[Len(line) - Len(rest') + j]
  <2>1. rest'[j] = rest[j + 1] /\ j + 1 \in 1..Len(rest)
    BY <1>2, <1>3
  <2>2. rest[j + 1] = line[Len(line) - Len(rest) + (j + 1)]
    BY <1>5, <2>1
  <2>3. Len(line) - Len(rest) + (j + 1) = Len(line) - Len(rest') + j
    BY <1>2, <1>3
  <2> QED
    BY <2>1, <2>2, <2>3
<1>8. FeedInv'
  BY <1>1, <1>2, <1>3, <1>6, <1>7 DEF FeedInv
<1>9. Read = Len(line) - Len(rest) /\ Read' = Len(line) - Len(rest') - 1
  BY <1>1, <1>4 DEF Read
<1>10. rest' = <<>> => Len(rest') = 0
  OBVIOUS
<1> QED
  BY <1>1, <1>2, <1>3, <1>4, <1>8, <1>9, <1>10

LEMMA LineStep ==
    ASSUME DeviceInv, FeedInv, host.paced, NEW l \in host.lines, NextLine(l)
    PROVE  /\ FeedInv' /\ Read = Len(line) /\ Read' = 0
           /\ rdr = None /\ line' = l /\ l \in Seq(Char)
           /\ UNCHANGED <<device, taken, rdr, host, hostKey>>
<1>1. /\ rest = <<>> /\ rdr = None /\ line' = l /\ rest' = l
      /\ UNCHANGED <<device, taken, rdr, host, hostKey>>
  BY DEF NextLine
<1>2. line \in Seq(Char) /\ l \in Seq(Char) /\ Len(l) \in Nat /\ Len(line) \in Nat
  BY PacedLine DEF DeviceInv
<1>3. Len(rest) = 0
  BY <1>1
<1>4. Read = Len(line) /\ Read' = 0
  BY <1>1, <1>2, <1>3 DEF Read
<1>5. FeedInv'
  BY <1>1, <1>2 DEF FeedInv
<1> QED
  BY <1>1, <1>2, <1>4, <1>5

LEMMA PieceGrows ==
    ASSUME NEW l \in Seq(Char), NEW i \in Nat, NEW k \in Nat, NEW t,
           i <= k + 1, k + 1 \in 1..Len(l), Piece(t, l, i, k)
    PROVE  Piece(Append(t, l[k + 1]), l, i, k + 1)
<1>1. /\ t \in Seq(Char) /\ Len(t) = k - i + 1
      /\ \A j \in 1..Len(t) : t[j] = l[i + j - 1]
      /\ l[k + 1] \in Char
  BY DEF Piece
<1>2. /\ Append(t, l[k + 1]) \in Seq(Char)
      /\ Len(Append(t, l[k + 1])) = Len(t) + 1
      /\ Append(t, l[k + 1])[Len(t) + 1] = l[k + 1]
      /\ \A j \in 1..Len(t) : Append(t, l[k + 1])[j] = t[j]
  BY <1>1
<1>3. ASSUME NEW j \in 1..(Len(t) + 1)
      PROVE  Append(t, l[k + 1])[j] = l[i + j - 1]
  <2>1. CASE j \in 1..Len(t)
    BY <1>1, <1>2, <2>1
  <2>2. CASE j = Len(t) + 1
    <3>1. i + j - 1 = k + 1
      BY <1>1, <2>2
    <3> QED
      BY <1>2, <2>2, <3>1
  <2> QED
    BY <1>1, <2>1, <2>2
<1> QED
  BY <1>1, <1>2, <1>3 DEF Piece

LEMMA PieceOfOne ==
    ASSUME NEW l \in Seq(Char), NEW k \in 1..Len(l)
    PROVE  Piece(<<l[k]>>, l, k, k) /\ Piece(<<>>, l, k + 1, k)
<1>1. /\ <<l[k]>> \in Seq(Char) /\ Len(<<l[k]>>) = 1 /\ <<l[k]>>[1] = l[k]
      /\ <<>> \in Seq(Char) /\ Len(<<>>) = 0
  OBVIOUS
<1> QED
  BY <1>1 DEF Piece

\* A read keeps a command in progress a piece of its line.
LEMMA CutReadStep ==
    ASSUME ProgramCommands, DeviceInv, TableInv, FeedInv, CutInv, host.paced, Received
    PROVE  CutInv'
<1>1. /\ pc = "wait" /\ Read \in 0..(Len(line) - 1) /\ Read' = Read + 1
      /\ rdr = line[Read + 1]
      /\ rdr \in Newline <=> Read + 1 = Len(line)
      /\ simpleserial_get(rdr) /\ Remember(rdr) /\ line' = line
  BY ReadStep
<1>2. line \in Seq(Char) /\ Len(line) \in Nat
  BY PacedLine DEF DeviceInv
<1>3. PICK k \in Nat : k = Read
  BY <1>1
<1>4. SUFFICES ASSUME stage' # "command"
               PROVE  /\ k + 1 < Len(line)
                      /\ \E i \in 1..(k + 1) : Piece(taken', line, i, k + 1)
  BY <1>1, <1>3 DEF CutInv
<1>5. CASE Command(rdr)
  <2>1. Matches(rdr) # {}
    BY <1>4, <1>5 DEF Command
  <2>2. rdr \notin Newline
    BY <1>1, <2>1, MatchesLetter DEF DeviceInv
  <2>3. taken' = <<rdr>>
    BY <1>1, <1>5 DEF Command, Remember
  <2>4. Piece(taken', line, k + 1, k + 1)
    BY <1>1, <1>2, <1>3, <2>3, PieceOfOne
  <2> QED
    BY <1>1, <1>2, <1>3, <2>2, <2>4
<1>6. CASE Data(rdr)
  <2>1. rdr \notin Newline /\ stage = "data"
    BY <1>4, <1>6 DEF Data
  <2>2. taken' = Append(taken, rdr)
    BY <1>1, <2>1 DEF Remember
  <2>3. PICK i \in 1..k : Piece(taken, line, i, k)
    BY <1>3, <2>1 DEF CutInv
  <2>4. Piece(taken', line, i, k + 1)
    BY <1>1, <1>2, <1>3, <2>2, <2>3, PieceGrows
  <2> QED
    BY <1>1, <1>2, <1>3, <2>1, <2>4
<1>7. CASE End(rdr)
  BY <1>4, <1>7 DEF End
<1> QED
  BY <1>1, <1>5, <1>6, <1>7 DEF simpleserial_get

PacedInv == host.paced => FeedInv /\ CutInv

LEMMA PacedInit == Init => PacedInv
<1> SUFFICES ASSUME Init PROVE FeedInv /\ CutInv
  BY DEF PacedInv
<1>1. Len(rest) = 0 /\ rdr = None /\ stage = "command"
  BY DEF Init
<1> QED
  BY <1>1 DEF FeedInv, CutInv

LEMMA PacedStep ==
    ASSUME ProgramCommands, DeviceInv, TableInv, PacedInv, [Next]_vars
    PROVE  PacedInv'
<1>1. host' = host
  BY DEF Next, Device, Register, Registered, Receive, Received, ReceiveTimeout, Callback,
         Acknowledge, Sender, SendByte, NextLine, vars, sender
<1>2. SUFFICES ASSUME host.paced, FeedInv, CutInv
               PROVE  FeedInv' /\ CutInv'
  BY <1>1 DEF PacedInv
<1>3. CASE Received
  BY <1>2, <1>3, ReadStep, CutReadStep
<1>4. CASE SendByte
  BY <1>2, <1>4, SendStep DEF CutInv, device
<1>5. ASSUME NEW l \in host.lines, NextLine(l)
      PROVE  FeedInv' /\ CutInv'
  <2>1. FeedInv' /\ Read = Len(line) /\ stage' = stage
    BY <1>2, <1>5, LineStep DEF device
  <2>2. stage = "command"
    <3>1. Len(line) \in Nat
      BY <1>2, PacedLine DEF DeviceInv
    <3> QED
      BY <1>2, <2>1, <3>1 DEF CutInv
  <2> QED
    BY <2>1, <2>2 DEF CutInv
<1>6. CASE UNCHANGED <<line, rest, rdr, stage, taken>>
  BY <1>2, <1>6 DEF FeedInv, CutInv, Read
<1> QED
  BY <1>2, <1>3, <1>4, <1>5, <1>6, PacedSteps DEF Callback, Acknowledge, sender

LEMMA PacedInvariance == ProgramCommands /\ Spec => []PacedInv
<1> SUFFICES ASSUME ProgramCommands PROVE Spec => []PacedInv
  OBVIOUS
<1>1. DeviceInv /\ TableInv /\ PacedInv /\ [Next]_vars => PacedInv'
  BY PacedStep
<1> QED
  BY <1>1, PacedInit, DeviceInvariance, TableInvariance, PTL DEF Spec

\* SimpleSerial.CallbackEndsLine: for any paced host and any commands that keep
\* to simpleserial.h, a callback runs only once the whole line has been read,
\* on characters that end it.
THEOREM CallbackOnWholeLine == ProgramCommands /\ Spec => CallbackEndsLine
<1> SUFFICES ASSUME ProgramCommands PROVE Spec => CallbackEndsLine
  OBVIOUS
<1>1. ASSUME DeviceInv, PacedInv, [Next]_vars, host.paced,
             pc' = "callback", pc # "callback"
      PROVE  /\ rest = <<>>
             /\ \E i \in DOMAIN line : taken' = SubSeq(line, i, Len(line))
  <2>1. FeedInv /\ CutInv
    BY <1>1 DEF PacedInv
  <2>2. Received
    BY <1>1, PacedSteps DEF SendByte, NextLine, Callback, Acknowledge, device
  <2>3. /\ Read \in 0..(Len(line) - 1) /\ rdr = line[Read + 1]
        /\ rdr \in Newline <=> Read + 1 = Len(line)
        /\ Read + 1 = Len(line) => rest = <<>>
        /\ simpleserial_get(rdr) /\ Remember(rdr)
    BY <1>1, <2>1, <2>2, ReadStep
  <2>4. stage = "end" /\ rdr \in Newline
    BY <1>1, <2>3 DEF simpleserial_get, Command, Data, End
  <2>5. line \in Seq(Char) /\ Len(line) \in Nat
    BY <1>1, PacedLine DEF DeviceInv
  <2>6. PICK k \in Nat : k = Read
    BY <2>3
  <2>7. PICK i \in 1..k : Piece(taken, line, i, k)
    BY <2>1, <2>4, <2>6 DEF CutInv
  <2>8. taken' = Append(taken, line[k + 1])
    BY <2>3, <2>4, <2>6 DEF Remember
  <2>9. Piece(taken', line, i, k + 1) /\ k + 1 = Len(line)
    BY <2>3, <2>4, <2>5, <2>6, <2>7, <2>8, PieceGrows
  <2>10. i \in 1..Len(line) /\ Len(line) \in i..Len(line)
    BY <2>5, <2>6, <2>7, <2>9
  <2>11. taken' = SubSeq(line, i, Len(line))
    BY <2>5, <2>9, <2>10, PieceIsSubSeq
  <2>12. rest = <<>>
    BY <2>3, <2>4
  <2>13. i \in DOMAIN line
    BY <2>5, <2>10
  <2> QED
    BY <2>11, <2>12, <2>13
<1>2. DeviceInv /\ PacedInv /\ [Next]_vars
          => [host.paced /\ pc' = "callback" /\ pc # "callback" =>
                 /\ rest = <<>>
                 /\ \E i \in DOMAIN line : taken' = SubSeq(line, i, Len(line))]_vars
  BY <1>1
<1> QED
  BY <1>2, DeviceInvariance, PacedInvariance, PTL DEF Spec, CallbackEndsLine


-----------------------------------------------------------------------------
(* A paced host none of whose lines holds a second command: the device's    *)
(* command is the line's, and its key the host's.                           *)

OneCommandHost == host.paced /\ \A l \in host.lines : OneCommand(l)

\* Where the device is in the line: before its command, within it, behind it.
Before == \A j \in 1..Read : line[j] \notin Letters
Behind ==
    /\ Known(line) # {}
    /\ Read = Len(line) \/ Read > Start(line) + 2 * Meant(line).len
Within ==
    /\ Known(line) # {} /\ Start(line) <= Read /\ Read < Len(line)
    /\ commands[cmd] = Meant(line)
    /\ Piece(taken, line, Start(line), Read)
    /\ Piece(ascii_buf, line, Start(line) + 1, Read)
    /\ sent = <<>>
ParseInv == IF stage = "command" THEN Before \/ Behind ELSE Within

\* A callback runs on a sound line, and decodes it as the host meant it.
AnswerInv ==
    pc \in {"callback", "ack"} =>
        /\ Read \in {0, Len(line)}
        /\ Sound(taken) /\ commands[cmd] = Meant(taken)
        /\ Decoded.data = DataOf(taken)
        /\ pc = "callback" => sent = <<>>

\* The end of a sound line is in the register.
LineComing == rdr # None /\ rest = <<>> /\ Sound(line)

\* The host's new key is on its way: its line's end is not read yet, or its
\* callback is not run.
KeyComing == LineComing /\ Meant(line).fp = "get_key"
KeyCall == pc = "callback" /\ commands[cmd].fp = "get_key"
KeyInv ==
    /\ KeyComing => hostKey = DataOf(line)
    /\ KeyCall => hostKey = DataOf(taken)
    /\ ~KeyComing /\ ~KeyCall => key = hostKey
    /\ pc = "ack" => sent = IF commands[cmd].fp = "get_pt"
                            THEN <<<<"r", hostKey, DataOf(taken)>>>> ELSE <<>>

\* A line's one command is in its Stripped part; no letter comes behind it.
LEMMA NoLetterBehind ==
    ASSUME NEW l \in Seq(Char), OneCommand(l), Known(l) # {}, NEW k \in 1..Len(l),
           l[k] \in Letters
    PROVE  k \in Start(l)..(Start(l) + 2 * Meant(l).len + 1)
<1>1. /\ Start(l) \in 1..Len(l)
      /\ \A j \in 1..(Start(l) - 1) : l[j] \notin Letters
      /\ Piece(Stripped(l), l, Start(l), Len(l))
  BY StartOfLine
<1>2. k >= Start(l)
  BY <1>1
<1>3. PICK j \in Nat : j = k - Start(l) + 1
  BY <1>1, <1>2
<1>4. j \in DOMAIN Stripped(l) /\ Stripped(l)[j] = l[k]
  <2>1. /\ Stripped(l) \in Seq(Char) /\ Len(Stripped(l)) = Len(l) - Start(l) + 1
        /\ \A i \in 1..Len(Stripped(l)) : Stripped(l)[i] = l[Start(l) + i - 1]
    BY <1>1 DEF Piece
  <2>2. j \in 1..Len(Stripped(l)) /\ Start(l) + j - 1 = k
    BY <1>1, <1>2, <1>3, <2>1
  <2> QED
    BY <2>1, <2>2
<1>5. j <= 2 * Meant(l).len + 2
  BY <1>4 DEF OneCommand
<1>6. Meant(l).len \in Nat
  BY <1>1, KnownCommand
<1> QED
  BY <1>1, <1>2, <1>3, <1>5, <1>6

\* A sound line has its letter, the characters of its data and its end.
LEMMA SoundLength ==
    ASSUME NEW l \in Seq(Char), Sound(l)
    PROVE  /\ Known(l) # {} /\ Len(l) = Start(l) + 2 * Meant(l).len + 1
           /\ Meant(l).len \in Nat /\ Start(l) \in 1..Len(l)
<1>1. Stripped(l) # <<>> /\ Len(Stripped(l)) = 2 * Meant(l).len + 2
  BY DEF Sound
<1>2. Known(l) # {}
  BY <1>1, StartOfLine
<1>3. Start(l) \in 1..Len(l) /\ Len(Stripped(l)) = Len(l) - Start(l) + 1
  BY <1>2, StartOfLine
<1>4. Meant(l).len \in Nat
  BY <1>2, KnownCommand
<1> QED
  BY <1>1, <1>2, <1>3, <1>4

\* A command read to the line's end is sound and is decoded as it was meant if
\* hex_decode accepts it; and hex_decode accepts every sound one.
LEMMA WholeCommand ==
    ASSUME NEW l \in Seq(Char), Known(l) # {}, commands[cmd] = Meant(l),
           Len(l) > Start(l), l[Len(l)] \in Newline,
           Piece(ascii_buf, l, Start(l) + 1, Len(l) - 1),
           Len(ascii_buf) = 2 * Meant(l).len
    PROVE  /\ Decoded.ok <=> Sound(l)
           /\ Sound(l) => Decoded.data = DataOf(l)
<1>1. PICK s : s = Stripped(l)
  OBVIOUS
<1>2. PICK n \in Nat : n = Meant(l).len
  BY KnownCommand
<1>3. /\ Start(l) \in 1..Len(l) /\ Piece(s, l, Start(l), Len(l))
  BY <1>1, StartOfLine
<1>4. /\ Len(ascii_buf) = 2 * n /\ Len(l) - Start(l) = 2 * n + 1
      /\ s \in Seq(Char) /\ Len(s) = 2 * n + 2 /\ s[Len(s)] = l[Len(l)]
  <2>1. Len(l) \in Nat /\ Len(ascii_buf) = 2 * n
    BY <1>2
  <2>2. Len(ascii_buf) = Len(l) - 1 - (Start(l) + 1) + 1
    BY DEF Piece
  <2>3. Len(l) - Start(l) = 2 * n + 1
    BY <1>3, <2>1, <2>2
  <2>4. /\ s \in Seq(Char) /\ Len(s) = Len(l) - Start(l) + 1
        /\ \A j \in 1..Len(s) : s[j] = l[Start(l) + j - 1]
    BY <1>3 DEF Piece
  <2>5. Len(s) = 2 * n + 2 /\ Len(s) \in 1..Len(s) /\ Start(l) + Len(s) - 1 = Len(l)
    BY <1>3, <2>1, <2>3, <2>4, SMTT(30)
  <2> QED
    BY <2>1, <2>3, <2>4, <2>5
<1>5. \A j \in 1..(2 * n) : ascii_buf[j] = s[j + 1] /\ ascii_buf[j] \in Char
  <2> TAKE j \in 1..(2 * n)
  <2>1. /\ ascii_buf \in Seq(Char) /\ ascii_buf[j] = l[Start(l) + 1 + j - 1]
    BY <1>4 DEF Piece
  <2>2. j + 1 \in 1..Len(s) /\ s[j + 1] = l[Start(l) + (j + 1) - 1]
    <3>1. \A i \in 1..Len(s) : s[i] = l[Start(l) + i - 1]
      BY <1>3 DEF Piece
    <3>2. j + 1 \in 1..Len(s)
      BY <1>4
    <3> QED
      BY <3>1, <3>2
  <2>3. Start(l) + 1 + j - 1 = Start(l) + (j + 1) - 1
    BY <1>3
  <2> QED
    BY <1>4, <2>1, <2>2, <2>3
<1>6. Decoded.ok <=> \A j \in 1..(2 * n) : ascii_buf[j] \in HexDigit
  BY <1>2 DEF Decoded, hex_decode
<1>7. Sound(l) <=> \A j \in 2..(2 * n + 1) : \E m \in 0..15 : Upcase(s[j]) = hex_lookup[m]
  <2>1. s # <<>> /\ Len(s) - 1 = 2 * n + 1
    BY <1>4
  <2> QED
    BY <1>1, <1>2, <1>4, <2>1 DEF Sound
<1>8. ASSUME Decoded.ok PROVE Sound(l)
  <2> SUFFICES ASSUME NEW j \in 2..(2 * n + 1)
               PROVE  \E m \in 0..15 : Upcase(s[j]) = hex_lookup[m]
    BY <1>7
  <2>1. j - 1 \in 1..(2 * n) /\ (j - 1) + 1 = j
    OBVIOUS
  <2>2. s[j] \in HexDigit
    BY <1>5, <1>6, <1>8, <2>1
  <2> QED
    BY <2>2, DigitWritten
<1>9. ASSUME Sound(l) PROVE Decoded.ok
  <2> SUFFICES ASSUME NEW j \in 1..(2 * n)
               PROVE  ascii_buf[j] \in HexDigit
    BY <1>6
  <2>1. j + 1 \in 2..(2 * n + 1)
    OBVIOUS
  <2>2. PICK m \in 0..15 : Upcase(s[j + 1]) = hex_lookup[m]
    BY <1>7, <1>9, <2>1
  <2> QED
    BY <1>5, <2>2, WrittenIsDigit
<1>10. ASSUME Decoded.ok PROVE Decoded.data = DataOf(l)
  <2>1. Decoded.data = [i \in 1..n |-> 16 * Nibble(ascii_buf[2 * i - 1])
                                          + Nibble(ascii_buf[2 * i])]
    BY <1>2, <1>6, <1>10 DEF Decoded, hex_decode
  <2>2. DataOf(l) = [i \in 1..n |-> ByteOf(s[2 * i], s[2 * i + 1])]
    BY <1>1, <1>2 DEF DataOf, ByteOf
  <2>3. ASSUME NEW i \in 1..n
        PROVE  16 * Nibble(ascii_buf[2 * i - 1]) + Nibble(ascii_buf[2 * i])
                  = ByteOf(s[2 * i], s[2 * i + 1])
    <3>1. 2 * i - 1 \in 1..(2 * n) /\ 2 * i \in 1..(2 * n) /\ (2 * i - 1) + 1 = 2 * i
      OBVIOUS
    <3>2. /\ ascii_buf[2 * i - 1] = s[2 * i] /\ ascii_buf[2 * i] = s[2 * i + 1]
          /\ ascii_buf[2 * i - 1] \in HexDigit /\ ascii_buf[2 * i] \in HexDigit
      BY <1>5, <1>6, <1>10, <3>1
    <3> QED
      BY <3>2, ByteWritten
  <2> QED
    BY <2>1, <2>2, <2>3
<1> QED
  BY <1>8, <1>9, <1>10


\* simpleserial_get on the next character of the line.
LEMMA ParseReadStep ==
    ASSUME ProgramCommands, DeviceInv, TableInv, FeedInv, ParseInv, OneCommandHost,
           Received
    PROVE  /\ ParseInv' /\ AnswerInv'
           /\ pc' = "callback" =>
                 /\ rest = <<>> /\ Sound(line)
                 /\ commands[cmd]' = Meant(line) /\ DataOf(taken)' = DataOf(line)
                 /\ taken' = Stripped(line)
           /\ LineComing => pc' = "callback"
<1> DEFINE l == line  k == Read
<1>1. /\ pc = "wait" /\ k \in 0..(Len(l) - 1) /\ Read' = k + 1
      /\ rdr \in Char /\ rdr = l[k + 1]
      /\ rdr \in Newline <=> k + 1 = Len(l)
      /\ k + 1 = Len(l) => rest = <<>>
      /\ simpleserial_get(rdr) /\ Remember(rdr) /\ line' = l
      /\ UNCHANGED <<commands, rest>>
  BY ReadStep DEF OneCommandHost
<1>2. l \in Seq(Char) /\ Len(l) \in Nat /\ k + 1 \in 1..Len(l) /\ k \in Nat
  BY <1>1, PacedLine DEF DeviceInv, OneCommandHost
<1>3. OneCommand(l)
  <2>1. l # <<>>
    BY <1>2
  <2> QED
    BY <2>1 DEF DeviceInv, HostInv, OneCommandHost
<1>4. /\ Known(l) # {} => /\ Start(l) \in 1..Len(l) /\ l[Start(l)] \in Letters
                          /\ \A j \in 1..(Start(l) - 1) : l[j] \notin Letters
                          /\ Meant(l).len \in Nat
                          /\ Piece(Stripped(l), l, Start(l), Len(l))
  BY <1>2, StartOfLine, KnownCommand
<1> HIDE DEF k
<1>5. ASSUME Command(rdr)
      PROVE  ParseInv' /\ pc' = "getch" /\ ~LineComing
  <2>1. stage = "command" /\ pc' = "getch" /\ sent' = <<>> /\ ascii_buf' = <<>>
        /\ taken' = <<rdr>>
    BY <1>1, <1>5 DEF Command, Remember
  <2>2. Before \/ Behind
    BY <2>1 DEF ParseInv
  <2>3. ASSUME rdr \notin Letters
        PROVE  ParseInv'
    <3>1. stage' = "command"
      BY <1>1, <1>5, <2>1, <2>3, MatchesLetter DEF DeviceInv, Command
    <3>2. ASSUME Before
          PROVE  Before'
      <4>1. \A j \in 1..(k + 1) : l[j] \notin Letters
        BY <1>1, <1>2, <2>3, <3>2 DEF Before, k
      <4> QED
        BY <1>1, <4>1 DEF Before
    <3>3. ASSUME Behind
          PROVE  Behind'
      <4>1. Known(l) # {} /\ (k = Len(l) \/ k > Start(l) + 2 * Meant(l).len)
        BY <3>3 DEF Behind, k
      <4>2. k + 1 > Start(l) + 2 * Meant(l).len
        BY <1>2, <1>4, <4>1
      <4> QED
        BY <1>1, <4>1, <4>2 DEF Behind
    <3> QED
      BY <2>2, <3>1, <3>2, <3>3 DEF ParseInv
  <2>4. ASSUME rdr \in Letters
        PROVE  ParseInv'
    <3>1. k + 1 \in Known(l)
      BY <1>1, <1>2, <2>4 DEF Known
    <3>2. k + 1 \in Start(l)..(Start(l) + 2 * Meant(l).len + 1)
      BY <1>1, <1>2, <1>3, <2>4, <3>1, NoLetterBehind
    <3>3. Before
      <4>1. SUFFICES ASSUME Behind PROVE FALSE
        BY <2>2
      <4>2. k = Len(l) \/ k > Start(l) + 2 * Meant(l).len
        BY <4>1 DEF Behind, k
      <4> QED
        BY <1>2, <1>4, <3>1, <3>2, <4>2
    <3>4. Start(l) = k + 1
      <4>1. Start(l) \in 1..Len(l) /\ l[Start(l)] \in Letters
        BY <1>4, <3>1
      <4>2. \A j \in 1..k : l[j] \notin Letters
        BY <3>3 DEF Before, k
      <4> QED
        BY <1>2, <3>2, <4>1, <4>2
    <3>5. PICK i \in DOMAIN Registrations :
             i = First(Matches(rdr)) /\ Registrations[i].c = rdr
      <4>1. /\ Matches(rdr) = {i \in DOMAIN Registrations : Registrations[i].c = rdr}
            /\ Matches(rdr) # {}
        BY <1>1, <2>4, MatchesLetter DEF DeviceInv
      <4>2. Matches(rdr) \subseteq Nat
        <5>1. DOMAIN Registrations = 1..Len(Registrations) /\ Len(Registrations) \in Nat
          BY SimpleSerialAssumption
        <5> QED
          BY <4>1, <5>1
      <4> QED
        BY <4>1, <4>2, FirstIn
    <3>6. cmd' = i /\ stage' \in {"data", "end"}
      BY <1>1, <1>5, <2>4, <3>5, MatchesLetter DEF DeviceInv, Command
    <3>7. commands'[cmd'] = Meant(l)
      <4>1. commands[i] = Registrations[i]
        <5>1. DOMAIN Registrations = 1..Len(Registrations)
          BY SimpleSerialAssumption
        <5> QED
          BY <1>1, <5>1 DEF TableInv
      <4>2. Meant(l) = Registrations[i]
        BY <1>1, <1>2, <3>1, <3>4, <3>5, MeantCommand
      <4> QED
        BY <1>1, <3>6, <4>1, <4>2
    <3>8. k + 1 < Len(l)
      BY <1>1, <1>2, <2>4, MatchesLetter DEF DeviceInv
    <3>9. Piece(taken', l, k + 1, k + 1) /\ Piece(ascii_buf', l, k + 2, k + 1)
      <4>1. Piece(<<l[k + 1]>>, l, k + 1, k + 1) /\ Piece(<<>>, l, (k + 1) + 1, k + 1)
        BY <1>2, PieceOfOne
      <4>2. (k + 1) + 1 = k + 2
        BY <1>2
      <4> QED
        BY <1>1, <2>1, <4>1, <4>2
    <3>10. Within'
      <4>1. Start(l) + 1 = k + 2
        BY <1>2, <3>4
      <4> QED
        BY <1>1, <1>2, <2>1, <3>1, <3>4, <3>7, <3>8, <3>9, <4>1 DEF Within
    <3> QED
      BY <3>6, <3>10 DEF ParseInv
  <2>5. ~LineComing
    <3> SUFFICES ASSUME LineComing PROVE FALSE
      OBVIOUS
    <3>1. Sound(l) /\ k + 1 = Len(l)
      <4>1. Len(rest) = 0
        BY DEF LineComing
      <4>2. rdr # None
        BY DEF LineComing
      <4> QED
        BY <1>1, <1>2, <4>1, <4>2 DEF LineComing, Read, k
    <3>2. Known(l) # {} /\ Len(l) = Start(l) + 2 * Meant(l).len + 1
      BY <1>2, <1>4, <3>1, SoundLength
    <3>3. ASSUME Before PROVE FALSE
      <4>1. Start(l) \in 1..k /\ l[Start(l)] \in Letters
        BY <1>2, <1>4, <3>1, <3>2
      <4> QED
        BY <3>3, <4>1 DEF Before, k
    <3>4. ASSUME Behind PROVE FALSE
      <4>1. k = Len(l) \/ k > Start(l) + 2 * Meant(l).len
        BY <3>4 DEF Behind, k
      <4> QED
        BY <1>2, <1>4, <3>1, <3>2, <4>1
    <3> QED
      BY <2>2, <3>3, <3>4
  <2> QED
    BY <2>1, <2>3, <2>4, <2>5
<1>6. ASSUME Data(rdr)
      PROVE  ParseInv' /\ pc' = "getch" /\ ~LineComing
  <2>1. stage = "data" /\ pc' = "getch" /\ UNCHANGED <<cmd, sent>>
    BY <1>6 DEF Data
  <2>2. /\ Known(l) # {} /\ Start(l) <= k /\ commands[cmd] = Meant(l)
        /\ Piece(taken, l, Start(l), k) /\ Piece(ascii_buf, l, Start(l) + 1, k)
        /\ sent = <<>>
    BY <2>1 DEF ParseInv, Within, k
  <2>3. taken' = Append(taken, rdr)
    BY <1>1, <2>1 DEF Remember
  <2>4. /\ Start(l) \in Nat /\ Start(l) + 1 \in Nat /\ Start(l) + 1 <= k + 1
        /\ Len(ascii_buf) = k - Start(l)
        /\ Len(ascii_buf) < 2 * Meant(l).len /\ Meant(l).len \in Nat
    <3>1. Start(l) \in 1..Len(l) /\ Meant(l).len \in Nat
      BY <1>4, <2>2
    <3>2. Len(ascii_buf) = k - (Start(l) + 1) + 1
      BY <2>2 DEF Piece
    <3>3. Len(ascii_buf) < 2 * commands[cmd].len
      BY <2>1 DEF DeviceInv, BufferInv
    <3> QED
      BY <1>2, <2>2, <3>1, <3>2, <3>3
  <2>5. ASSUME rdr \in Newline
        PROVE  ParseInv'
    <3>1. stage' = "command" /\ k + 1 = Len(l)
      BY <1>1, <1>6, <2>5 DEF Data
    <3> QED
      BY <1>1, <2>2, <3>1 DEF ParseInv, Behind
  <2>6. ASSUME rdr \notin Newline
        PROVE  ParseInv'
    <3>1. ascii_buf' = Append(ascii_buf, rdr) /\ stage' \in {"data", "end"}
      BY <1>6, <2>6 DEF Data
    <3>2. k + 1 < Len(l)
      BY <1>1, <1>2, <2>6
    <3>3. Piece(taken', l, Start(l), k + 1) /\ Piece(ascii_buf', l, Start(l) + 1, k + 1)
      <4>1. Start(l) \in Nat /\ Start(l) <= k + 1
        BY <1>2, <2>2, <2>4
      <4>2. Piece(Append(taken, l[k + 1]), l, Start(l), k + 1)
        BY <1>2, <2>2, <4>1, PieceGrows
      <4>3. Piece(Append(ascii_buf, l[k + 1]), l, Start(l) + 1, k + 1)
        BY <1>2, <2>2, <2>4, PieceGrows
      <4> QED
        BY <1>1, <2>3, <3>1, <4>2, <4>3
    <3>4. Start(l) <= k + 1
      BY <1>2, <2>4
    <3>5. Within'
      BY <1>1, <2>1, <2>2, <3>2, <3>3, <3>4 DEF Within
    <3> QED
      BY <3>1, <3>5 DEF ParseInv
  <2>7. ~LineComing
    <3> SUFFICES ASSUME LineComing PROVE FALSE
      OBVIOUS
    <3>1. Len(l) = Start(l) + 2 * Meant(l).len + 1
      BY <1>2, SoundLength DEF LineComing
    <3>2. k + 1 = Len(l)
      <4>1. Len(rest) = 0 /\ rdr # None
        BY DEF LineComing
      <4> QED
        BY <1>2, <4>1 DEF Read, k
    <3> QED
      BY <1>2, <2>4, <3>1, <3>2
  <2> QED
    BY <2>1, <2>5, <2>6, <2>7
<1>7. ASSUME End(rdr)
      PROVE  /\ ParseInv' /\ pc' \in {"getch", "callback"}
             /\ pc' = "callback" =>
                   /\ Read' = Len(l) /\ Sound(l) /\ Sound(taken')
                   /\ commands'[cmd'] = Meant(taken') /\ Meant(taken') = Meant(l)
                   /\ Decoded.data' = DataOf(taken') /\ DataOf(taken') = DataOf(l)
                   /\ sent' = <<>> /\ taken' = Stripped(l)
             /\ LineComing => pc' = "callback"
  <2>1. /\ stage = "end" /\ stage' = "command" /\ UNCHANGED <<cmd, sent, ascii_buf>>
        /\ pc' = IF rdr \in Newline /\ Decoded.ok THEN "callback" ELSE "getch"
    BY <1>7 DEF End
  <2>2. /\ Known(l) # {} /\ Start(l) <= k /\ commands[cmd] = Meant(l)
        /\ Piece(taken, l, Start(l), k) /\ Piece(ascii_buf, l, Start(l) + 1, k)
        /\ sent = <<>>
    BY <2>1 DEF ParseInv, Within, k
  <2>3. taken' = Append(taken, rdr)
    BY <1>1, <2>1 DEF Remember
  <2>4. /\ Start(l) \in 1..Len(l) /\ Meant(l).len \in Nat
        /\ Len(ascii_buf) = k - Start(l) /\ Len(ascii_buf) = 2 * Meant(l).len
    <3>1. Start(l) \in 1..Len(l) /\ Meant(l).len \in Nat
      BY <1>4, <2>2
    <3>2. Len(ascii_buf) = k - (Start(l) + 1) + 1
      BY <2>2 DEF Piece
    <3>3. Len(ascii_buf) = 2 * commands[cmd].len
      BY <2>1 DEF DeviceInv, BufferInv
    <3> QED
      BY <1>2, <2>2, <3>1, <3>2, <3>3
  <2>5. ParseInv'
    <3>1. k + 1 > Start(l) + 2 * Meant(l).len
      BY <1>2, <2>4
    <3> QED
      BY <1>1, <2>1, <2>2, <3>1 DEF ParseInv, Behind
  <2>6. ASSUME k + 1 = Len(l)
        PROVE  (Decoded.ok <=> Sound(l)) /\ (Sound(l) => Decoded.data = DataOf(l))
    <3>1. Len(l) - 1 = k /\ Len(l) > Start(l) /\ l[Len(l)] \in Newline
      BY <1>1, <1>2, <2>2, <2>4, <2>6
    <3> QED
      BY <1>2, <2>2, <2>4, <3>1, WholeCommand
  <2>7. LineComing => pc' = "callback"
    <3> SUFFICES ASSUME LineComing PROVE pc' = "callback"
      OBVIOUS
    <3>1. k + 1 = Len(l)
      <4>1. Len(rest) = 0 /\ rdr # None
        BY DEF LineComing
      <4> QED
        BY <1>2, <4>1 DEF Read, k
    <3> QED
      BY <1>1, <2>1, <2>6, <3>1 DEF LineComing
  <2>8. ASSUME pc' = "callback"
        PROVE  /\ Read' = Len(l) /\ Sound(l) /\ Sound(taken')
               /\ commands'[cmd'] = Meant(taken') /\ Meant(taken') = Meant(l)
               /\ Decoded.data' = DataOf(taken') /\ DataOf(taken') = DataOf(l)
               /\ sent' = <<>> /\ taken' = Stripped(l)
    <3>1. rdr \in Newline /\ Decoded.ok /\ k + 1 = Len(l)
      BY <1>1, <2>1, <2>8
    <3>2. Sound(l) /\ Decoded.data = DataOf(l)
      BY <2>6, <3>1
    <3>3. Piece(taken', l, Start(l), Len(l))
      <4>1. Start(l) \in Nat /\ Start(l) <= k + 1
        BY <1>2, <2>2, <2>4
      <4>2. Piece(Append(taken, l[k + 1]), l, Start(l), k + 1)
        BY <1>2, <2>2, <4>1, PieceGrows
      <4> QED
        BY <1>1, <2>3, <3>1, <4>2
    <3>4. taken' = Stripped(l)
      <4>1. taken' = SubSeq(l, Start(l), Len(l))
        BY <1>2, <2>4, <3>3, PieceIsSubSeq
      <4> QED
        BY <1>2, <2>2, <4>1, StartOfLine
    <3>5. Sound(taken') /\ Meant(taken') = Meant(l) /\ DataOf(taken') = DataOf(l)
      BY <1>2, <2>2, <3>2, <3>4, StrippedTwice
    <3>6. Decoded' = Decoded
      BY <1>1, <2>1 DEF Decoded
    <3> QED
      BY <1>1, <2>1, <2>2, <3>1, <3>2, <3>4, <3>5, <3>6
  <2> QED
    BY <2>1, <2>5, <2>7, <2>8
<1>8. CASE pc' = "getch" /\ ParseInv' /\ ~LineComing
  BY <1>8 DEF AnswerInv
<1>9. CASE End(rdr)
  <2>1. CASE pc' = "getch"
    BY <1>7, <1>9, <2>1 DEF AnswerInv
  <2>2. CASE pc' = "callback"
    <3>1. AnswerInv'
      BY <1>1, <1>7, <1>9, <2>2 DEF AnswerInv
    <3> QED
      BY <1>1, <1>7, <1>9, <2>2, <3>1
  <2> QED
    BY <1>7, <1>9, <2>1, <2>2
<1> QED
  BY <1>1, <1>5, <1>6, <1>8, <1>9 DEF simpleserial_get


\* While a host's key is on its way, the device is not in a callback.
LEMMA KeyComingRead ==
    ASSUME DeviceInv, FeedInv, AnswerInv, host.paced, KeyComing
    PROVE  pc \notin {"callback", "ack"}
<1>1. line \in Seq(Char) /\ Len(line) \in Nat
  BY PacedLine DEF DeviceInv
<1>2. Sound(line) /\ rdr # None /\ Len(rest) = 0
  BY DEF KeyComing, LineComing
<1>3. Len(line) >= 2
  BY <1>1, <1>2, SoundLength
<1>4. Read = Len(line) - 1
  BY <1>1, <1>2 DEF Read
<1> QED
  BY <1>1, <1>3, <1>4 DEF AnswerInv

LineInv == ParseInv /\ AnswerInv /\ KeyInv
SerialInv == OneCommandHost => LineInv

LEMMA SerialInit == Init => SerialInv
<1> SUFFICES ASSUME Init PROVE ParseInv /\ AnswerInv /\ KeyInv
  BY DEF SerialInv, LineInv
<1>1. /\ pc = "register" /\ stage = "command" /\ rdr = None /\ key = hostKey
      /\ Len(line) = 0 /\ Len(rest) = 0
  BY DEF Init
<1>2. Before
  BY <1>1 DEF Before, Read
<1> QED
  BY <1>1, <1>2 DEF ParseInv, AnswerInv, KeyInv, KeyComing, LineComing, KeyCall

LEMMA SerialReadStep ==
    ASSUME ProgramCommands, DeviceInv, TableInv, FeedInv, LineInv, OneCommandHost,
           Received
    PROVE  LineInv'
<1>1. /\ ParseInv' /\ AnswerInv'
      /\ pc' = "callback" => /\ rest = <<>> /\ Sound(line)
                             /\ commands'[cmd'] = Meant(line)
                             /\ DataOf(taken') = DataOf(line)
      /\ KeyComing => pc' = "callback"
  BY ParseReadStep DEF LineInv, KeyComing
<1>2. /\ pc = "wait" /\ rdr # None /\ rdr' = None
      /\ UNCHANGED <<key, hostKey>>
      /\ simpleserial_get(rdr)
  BY DEF Received, sender
<1>3. pc' # "ack"
  BY <1>2 DEF simpleserial_get, Command, Data, End
<1>4. ~KeyComing' /\ ~KeyCall
  BY <1>2 DEF KeyComing, LineComing, KeyCall
<1>5. KeyCall' <=> KeyComing
  BY <1>1, <1>2 DEF KeyComing, LineComing, KeyCall
<1>6. KeyCall' => hostKey' = DataOf(taken')
  BY <1>1, <1>2, <1>5 DEF LineInv, KeyInv, KeyCall
<1>7. ~KeyCall' => key' = hostKey'
  BY <1>2, <1>4, <1>5 DEF LineInv, KeyInv
<1>8. KeyInv'
  BY <1>3, <1>4, <1>6, <1>7 DEF KeyInv
<1> QED
  BY <1>1, <1>8 DEF LineInv

LEMMA SerialSendStep ==
    ASSUME DeviceInv, FeedInv, LineInv, host.paced, SendByte
    PROVE  LineInv'
<1>1. /\ Read' = Read /\ Read \in 0..(Len(line) - 1)
      /\ rdr = None /\ rdr' # None
      /\ rest' = <<>> => Read = Len(line) - 1
      /\ UNCHANGED <<device, taken, line>>
  BY SendStep
<1>2. /\ UNCHANGED <<pc, commands, stage, cmd, ascii_buf, key, sent>>
      /\ Decoded' = Decoded
  BY <1>1 DEF device, Decoded
<1>3. ParseInv'
  BY <1>1, <1>2 DEF LineInv, ParseInv, Before, Behind, Within
<1>4. AnswerInv'
  BY <1>1, <1>2 DEF LineInv, AnswerInv
<1>5. KeyInv'
  <2>1. ~KeyComing /\ KeyCall' = KeyCall
    BY <1>1, <1>2 DEF KeyComing, LineComing, KeyCall
  <2>2. CASE rest' = <<>> /\ Sound(line) /\ Meant(line).fp = "get_key"
    <3>1. KeyComing' /\ hostKey' = DataOf(line)
      BY <1>1, <2>2 DEF KeyComing, LineComing, SendByte
    <3>2. pc \notin {"callback", "ack"}
      <4>1. line \in Seq(Char)
        BY PacedLine DEF DeviceInv
      <4>2. Len(line) >= 2
        BY <2>2, <4>1, SoundLength
      <4>3. Len(line) \in Nat /\ Read = Len(line) - 1
        BY <1>1, <2>2, <4>1
      <4> QED
        BY <4>2, <4>3 DEF LineInv, AnswerInv
    <3> QED
      BY <1>1, <1>2, <3>1, <3>2 DEF KeyInv, KeyCall
  <2>3. CASE ~(rest' = <<>> /\ Sound(line) /\ Meant(line).fp = "get_key")
    <3>1. ~KeyComing' /\ hostKey' = hostKey
      BY <1>1, <2>3 DEF KeyComing, LineComing, SendByte
    <3> QED
      BY <1>1, <1>2, <2>1, <3>1 DEF LineInv, KeyInv, KeyCall
  <2> QED
    BY <2>2, <2>3
<1> QED
  BY <1>3, <1>4, <1>5 DEF LineInv

LEMMA SerialLineStep ==
    ASSUME DeviceInv, FeedInv, LineInv, host.paced, NEW l \in host.lines, NextLine(l)
    PROVE  LineInv'
<1>1. /\ Read = Len(line) /\ Read' = 0 /\ rdr = None
      /\ UNCHANGED <<device, taken, rdr, hostKey>>
  BY LineStep
<1>2. /\ UNCHANGED <<pc, commands, stage, cmd, ascii_buf, key, sent>>
      /\ Decoded' = Decoded
  BY <1>1 DEF device, Decoded
<1>3. ParseInv'
  <2>1. Len(line) \in Nat
    BY PacedLine DEF DeviceInv
  <2>2. stage = "command"
    BY <1>1, <2>1 DEF LineInv, ParseInv, Within
  <2>3. Before'
    BY <1>1 DEF Before
  <2> QED
    BY <1>2, <2>2, <2>3 DEF ParseInv
<1>4. AnswerInv'
  BY <1>1, <1>2 DEF LineInv, AnswerInv
<1>5. KeyInv'
  <2>1. ~KeyComing /\ ~KeyComing' /\ KeyCall' = KeyCall
    BY <1>1, <1>2 DEF KeyComing, LineComing, KeyCall
  <2> QED
    BY <1>1, <1>2, <2>1 DEF LineInv, KeyInv, KeyCall
<1> QED
  BY <1>3, <1>4, <1>5 DEF LineInv

LEMMA SerialAnswerStep ==
    ASSUME DeviceInv, FeedInv, LineInv, host.paced, Callback \/ Acknowledge
    PROVE  LineInv'
<1>1. /\ UNCHANGED <<commands, stage, cmd, ascii_buf, taken, rdr, line, rest, hostKey>>
      /\ pc \in {"callback", "ack"}
      /\ Decoded' = Decoded
  BY DEF Callback, Acknowledge, sender, Decoded
<1>2. Read' = Read /\ ~KeyComing /\ ~KeyComing'
  <2>1. ~KeyComing
    BY <1>1, KeyComingRead DEF LineInv
  <2> QED
    BY <1>1, <2>1 DEF Read, KeyComing, LineComing
<1>3. stage = "command" /\ ParseInv'
  BY <1>1, <1>2 DEF LineInv, ParseInv, Before, Behind, DeviceInv, BufferInv
<1>4. CASE Callback
  <2>1. /\ pc = "callback" /\ pc' = "ack"
        /\ key' = IF commands[cmd].fp = "get_key" THEN Decoded.data ELSE key
        /\ sent' = IF commands[cmd].fp = "get_pt"
                   THEN Append(sent, <<"r", key, Decoded.data>>) ELSE sent
    BY <1>4 DEF Callback
  <2>2. AnswerInv'
    BY <1>1, <1>2, <2>1 DEF LineInv, AnswerInv
  <2>3. sent = <<>> /\ Decoded.data = DataOf(taken)
    BY <2>1 DEF LineInv, AnswerInv
  <2>4. key' = hostKey' /\ (commands[cmd].fp # "get_key" => key = hostKey)
    BY <1>1, <1>2, <2>1, <2>3 DEF LineInv, KeyInv, KeyCall
  <2>5. sent' = IF commands[cmd].fp = "get_pt"
                THEN <<<<"r", hostKey, DataOf(taken)>>>> ELSE <<>>
    BY <2>1, <2>3, <2>4
  <2>6. KeyInv'
    BY <1>1, <1>2, <2>1, <2>4, <2>5 DEF KeyInv, KeyCall
  <2> QED
    BY <1>3, <2>2, <2>6 DEF LineInv
<1>5. CASE Acknowledge
  <2>1. pc = "ack" /\ pc' = "getch" /\ key' = key
    BY <1>5 DEF Acknowledge
  <2>2. KeyInv' /\ AnswerInv'
    BY <1>1, <1>2, <2>1 DEF LineInv, KeyInv, KeyCall, AnswerInv
  <2> QED
    BY <1>3, <2>2 DEF LineInv
<1> QED
  BY <1>4, <1>5

LEMMA SerialStep ==
    ASSUME ProgramCommands, DeviceInv, TableInv, PacedInv, SerialInv, [Next]_vars
    PROVE  SerialInv'
<1>1. host' = host
  BY DEF Next, Device, Register, Registered, Receive, Received, ReceiveTimeout, Callback,
         Acknowledge, Sender, SendByte, NextLine, vars, sender
<1>2. SUFFICES ASSUME OneCommandHost, host.paced, FeedInv, LineInv
               PROVE  LineInv'
  BY <1>1 DEF SerialInv, PacedInv, OneCommandHost
<1>3. CASE /\ UNCHANGED <<key, taken, stage, cmd, ascii_buf, sent, rdr, sender>>
           /\ pc' = pc \/ {pc, pc'} \subseteq {"register", "getch", "wait"}
           /\ pc = "register" \/ UNCHANGED commands
  <2>1. /\ UNCHANGED <<key, taken, stage, cmd, ascii_buf, sent, rdr, line, rest, hostKey>>
        /\ Read' = Read /\ KeyComing' = KeyComing
    BY <1>3 DEF sender, Read, KeyComing, LineComing
  <2>2. CASE pc = "register"
    <3>1. pc' \notin {"callback", "ack"} /\ ~KeyCall /\ ~KeyCall' /\ stage = "command"
      BY <1>3, <2>2 DEF KeyCall, DeviceInv, BufferInv
    <3>2. ParseInv' /\ AnswerInv'
      BY <1>2, <2>1, <3>1 DEF LineInv, ParseInv, Before, Behind, AnswerInv
    <3>3. KeyInv'
      BY <1>2, <2>1, <3>1 DEF LineInv, KeyInv
    <3> QED
      BY <3>2, <3>3 DEF LineInv
  <2>3. CASE UNCHANGED commands
    <3>1. ParseInv'
      BY <1>2, <2>1, <2>3 DEF LineInv, ParseInv, Before, Behind, Within
    <3>2. AnswerInv' /\ KeyInv'
      <4>1. Decoded' = Decoded
        BY <2>1, <2>3 DEF Decoded
      <4> QED
        BY <1>2, <1>3, <2>1, <2>3, <4>1 DEF LineInv, AnswerInv, KeyInv, KeyCall
    <3> QED
      BY <3>1, <3>2 DEF LineInv
  <2> QED
    BY <1>3, <2>2, <2>3
<1> QED
  BY <1>2, <1>3, SerialReadStep, SerialSendStep, SerialLineStep, SerialAnswerStep,
     PacedSteps

LEMMA SerialInvariance == ProgramCommands /\ Spec => []SerialInv
<1> SUFFICES ASSUME ProgramCommands PROVE Spec => []SerialInv
  OBVIOUS
<1>1. DeviceInv /\ TableInv /\ PacedInv /\ SerialInv /\ [Next]_vars => SerialInv'
  BY SerialStep
<1> QED
  BY <1>1, SerialInit, DeviceInvariance, TableInvariance, PacedInvariance, PTL DEF Spec

\* The safety part of SoundLineAnswered, under the same hypotheses: when the
\* device reads the end of a line, it calls a callback exactly if the line is
\* sound, and then on all of it from its letter on; no line and no rest of one
\* is passed over or run at another place.
THEOREM SoundLinesRun ==
    ProgramCommands /\ Spec =>
        [][OneCommandHost /\ Received =>
              /\ pc' = "callback" <=> rest = <<>> /\ Sound(line)
              /\ pc' = "callback" => taken' = Stripped(line)]_vars
<1> SUFFICES ASSUME ProgramCommands
             PROVE  Spec => [][OneCommandHost /\ Received =>
                                  /\ pc' = "callback" <=> rest = <<>> /\ Sound(line)
                                  /\ pc' = "callback" => taken' = Stripped(line)]_vars
  OBVIOUS
<1>1. ASSUME DeviceInv, TableInv, PacedInv, SerialInv, OneCommandHost, Received
      PROVE  /\ pc' = "callback" <=> rest = <<>> /\ Sound(line)
             /\ pc' = "callback" => taken' = Stripped(line)
  <2>1. FeedInv /\ ParseInv
    BY <1>1 DEF PacedInv, SerialInv, LineInv, OneCommandHost
  <2>2. /\ pc' = "callback" =>
              rest = <<>> /\ Sound(line) /\ taken' = Stripped(line)
        /\ LineComing => pc' = "callback"
    BY <1>1, <2>1, ParseReadStep
  <2>3. rdr # None
    BY <1>1 DEF Received
  <2> QED
    BY <2>2, <2>3 DEF LineComing
<1>2. DeviceInv /\ TableInv /\ PacedInv /\ SerialInv
          => [OneCommandHost /\ Received =>
                 /\ pc' = "callback" <=> rest = <<>> /\ Sound(line)
                 /\ pc' = "callback" => taken' = Stripped(line)]_vars
  BY <1>1
<1> QED
  BY <1>2, DeviceInvariance, TableInvariance, PacedInvariance, SerialInvariance, PTL

\* SimpleSerial.AnswerUnderHostsKey: for any commands that keep to
\* simpleserial.h and any paced host that puts one command on a line, each
\* block is answered with the host's last sound key, whatever unsound lines
\* came before or between.
THEOREM AnsweredUnderHostsKey == ProgramCommands /\ Spec => []AnswerUnderHostsKey
<1> SUFFICES ASSUME ProgramCommands PROVE Spec => []AnswerUnderHostsKey
  OBVIOUS
<1>1. ASSUME DeviceInv, PacedInv, SerialInv
      PROVE  AnswerUnderHostsKey
  <2> SUFFICES ASSUME OneCommandHost, pc = "ack"
               PROVE  /\ key = hostKey
                      /\ sent = IF commands[cmd].fp = "get_pt"
                                THEN <<<<"r", hostKey, DataOf(taken)>>>> ELSE <<>>
    BY DEF AnswerUnderHostsKey, OneCommandHost
  <2>1. FeedInv /\ LineInv /\ host.paced
    BY <1>1 DEF PacedInv, SerialInv, OneCommandHost
  <2>2. ~KeyComing /\ ~KeyCall
    BY <1>1, <2>1, KeyComingRead DEF LineInv, KeyCall
  <2> QED
    BY <2>1, <2>2 DEF LineInv, KeyInv
<1> QED
  BY <1>1, DeviceInvariance, PacedInvariance, SerialInvariance, PTL

=============================================================================
