---------------------------- MODULE SimpleSerial ----------------------------
(***************************************************************************)
(* The companion target simpleserial-aes.c over the line protocol of       *)
(* simpleserial.c over the UART functions of the platform (getch of        *)
(* stm32f3_hal.c, HAL_UART_Receive and UART_WaitOnFlagUntilTimeout).       *)
(*                                                                         *)
(* The host and the receiver's one-byte register are external: the host    *)
(* sends lines byte by byte, and a byte that arrives before the last one   *)
(* is read is lost.  Characters are their ASCII codes.                     *)
(***************************************************************************)
EXTENDS Hex, FiniteSets

CONSTANTS
    MaxCmds,       \* MAX_SS_CMDS (10)
    Registrations, \* the commands the program adds, in order
    DefaultKey,    \* DEFAULT_KEY, the data of a key line
    Hosts          \* kinds of hosts: the lines such a host sends; whether it is
                   \* paced, leaving the device the time to read each byte; and
                   \* the garbage a getch that times out may return (none: it
                   \* never waits so long)

ASSUME SimpleSerialAssumption ==
    /\ MaxCmds \in Nat
    /\ Registrations \in
          Seq([c : 0..255, len : Nat,
               fp : {"check_version", "get_key", "get_pt", "reset"}])
    /\ \A h \in Hosts : /\ h.lines \subseteq Seq(0..255) /\ h.paced \in BOOLEAN
                        /\ h.garbage \subseteq 0..255

VARIABLES
    pc,        \* registering commands; in getch; waiting there; in a callback
    tried,     \* registrations made
    commands,  \* the command table
    rxReady, locked, \* the UART handle: RxState is READY, Lock
    stage,     \* where simpleserial_get is in its line
    cmd,       \* the command found, an index of the table
    ascii_buf, \* the characters after it
    key,       \* the AES key
    sent,      \* what the command has put so far
    taken,     \* history: all characters of the command, its letter first
    rdr,       \* the receive register: one character or None
    host,      \* the host's kind
    line, rest,\* the host: its line, and what is left to send of it
    hostKey    \* history: the key of the host's last sound key line

device == <<pc, tried, commands, rxReady, locked, stage, cmd, ascii_buf, key, sent>>
sender == <<host, line, rest, hostKey>>
vars == <<device, taken, rdr, sender>>

None == -1
MAX_SS_LEN == 64
LF == 10
CR == 13
Newline == {LF, CR}

\* A line of a paced host ends with its only newline.
ASSUME HostAssumption ==
    \A h \in Hosts : h.paced =>
        /\ h.garbage = {}
        /\ \A l \in h.lines : /\ l # <<>>
                              /\ \A i \in DOMAIN l : l[i] \in Newline <=> i = Len(l)

Init ==
    /\ pc = "register" /\ tried = 0 /\ commands = <<>>
    /\ rxReady = TRUE /\ locked = FALSE
    /\ stage = "command" /\ cmd = 0 /\ ascii_buf = <<>>
    /\ key = DefaultKey /\ sent = <<>>
    /\ taken = <<>>
    /\ rdr = None
    /\ host \in Hosts
    /\ line = <<>> /\ rest = <<>> /\ hostKey = DefaultKey

-----------------------------------------------------------------------------
(* main, simpleserial_addcmd *)

\* The table is taken for full only when it holds one command too many.
simpleserial_addcmd(new) ==
    commands' = IF Len(commands) > MaxCmds \/ new.len > MAX_SS_LEN
                THEN commands
                ELSE Append(commands, new)

Register ==
    /\ pc = "register"
    /\ tried < Len(Registrations)
    /\ simpleserial_addcmd(Registrations[tried + 1])
    /\ tried' = tried + 1
    /\ UNCHANGED <<pc, rxReady, locked, stage, cmd, ascii_buf, key, sent,
                   taken, rdr, sender>>

Registered ==
    /\ pc = "register"
    /\ tried = Len(Registrations)
    /\ pc' = "getch"
    /\ UNCHANGED <<tried, commands, rxReady, locked, stage, cmd, ascii_buf, key, sent,
                   taken, rdr, sender>>

-----------------------------------------------------------------------------
(* simpleserial_get: what it does with the next character *)

Matches(c) == {i \in DOMAIN commands : commands[i].c = c}
First(I) == CHOOSE i \in I : \A j \in I : i <= j

Command(c) ==
    /\ stage = "command"
    /\ IF Matches(c) = {}
       THEN UNCHANGED <<stage, cmd>>
       ELSE /\ cmd' = First(Matches(c))
            /\ stage' = IF commands[cmd'].len = 0 THEN "end" ELSE "data"
    /\ ascii_buf' = <<>> /\ sent' = <<>>
    /\ pc' = "getch"

\* Variants: an early end of line is taken for data; the data loop runs once
\* too often.
Data_Newlines(c) ==
    /\ stage = "data"
    /\ ascii_buf' = Append(ascii_buf, c)
    /\ stage' = IF Len(ascii_buf') = 2 * commands[cmd].len THEN "end" ELSE "data"
    /\ pc' = "getch"
    /\ UNCHANGED <<cmd, sent>>

Data_Late(c) ==
    /\ stage = "data"
    /\ IF c \in Newline
       THEN stage' = "command" /\ UNCHANGED ascii_buf
       ELSE /\ ascii_buf' = Append(ascii_buf, c)
            /\ stage' = IF Len(ascii_buf) = 2 * commands[cmd].len
                        THEN "end" ELSE "data"
    /\ pc' = "getch"
    /\ UNCHANGED <<cmd, sent>>

\* An early end of line gives the command up.
Data(c) ==
    /\ stage = "data"
    /\ IF c \in Newline
       THEN stage' = "command" /\ UNCHANGED ascii_buf
       ELSE /\ ascii_buf' = Append(ascii_buf, c)
            /\ stage' = IF Len(ascii_buf') = 2 * commands[cmd].len
                        THEN "end" ELSE "data"
    /\ pc' = "getch"
    /\ UNCHANGED <<cmd, sent>>

Decoded == hex_decode(commands[cmd].len, ascii_buf)

\* Variants: any character ends the data; illegal characters are let through.
End_Any(c) ==
    /\ stage = "end"
    /\ stage' = "command"
    /\ pc' = IF Decoded.ok THEN "callback" ELSE "getch"
    /\ UNCHANGED <<cmd, ascii_buf, sent>>
End_Unchecked(c) ==
    /\ stage = "end"
    /\ stage' = "command"
    /\ pc' = IF c \in Newline THEN "callback" ELSE "getch"
    /\ UNCHANGED <<cmd, ascii_buf, sent>>

\* The callback is called for a line that ends here and decodes.
End(c) ==
    /\ stage = "end"
    /\ stage' = "command"
    /\ pc' = IF c \in Newline /\ Decoded.ok THEN "callback" ELSE "getch"
    /\ UNCHANGED <<cmd, ascii_buf, sent>>

simpleserial_get(c) == Command(c) \/ Data(c) \/ End(c)

Remember(c) == taken' = IF stage = "command" THEN <<c>> ELSE Append(taken, c)

-----------------------------------------------------------------------------
(* getch, over HAL_UART_Receive *)

\* RxState is READY and the handle unlocked: wait for RXNE.
Receive ==
    /\ pc = "getch"
    /\ rxReady /\ ~locked
    /\ rxReady' = FALSE /\ locked' = TRUE
    /\ pc' = "wait"
    /\ UNCHANGED <<tried, commands, stage, cmd, ascii_buf, key, sent, taken, rdr, sender>>

\* Each way out of the wait makes the handle READY and unlocks it.
Restore == rxReady' = TRUE /\ locked' = FALSE

Received ==
    /\ pc = "wait"
    /\ rdr # None
    /\ Restore
    /\ simpleserial_get(rdr)
    /\ Remember(rdr)
    /\ rdr' = None
    /\ UNCHANGED <<tried, commands, key, sender>>

\* Variant: the wait that times out leaves the handle busy.
ReceiveTimeout_Busy(c) ==
    /\ pc = "wait"
    /\ rdr = None
    /\ UNCHANGED <<rxReady, locked>>
    /\ simpleserial_get(c)
    /\ Remember(c)
    /\ UNCHANGED <<tried, commands, key, rdr, sender>>

\* No character in 5000 ticks: getch ignores the status and returns d, which
\* was never written.
ReceiveTimeout(c) ==
    /\ pc = "wait"
    /\ rdr = None
    /\ Restore
    /\ simpleserial_get(c)
    /\ Remember(c)
    /\ UNCHANGED <<tried, commands, key, rdr, sender>>

-----------------------------------------------------------------------------
(* The callbacks of simpleserial-aes.c, and the acknowledgement of v1.1 *)

Callback ==
    /\ pc = "callback"
    /\ key' = IF commands[cmd].fp = "get_key" THEN Decoded.data ELSE key
    /\ sent' = IF commands[cmd].fp = "get_pt"
               THEN Append(sent, <<"r", key, Decoded.data>>) ELSE sent
    /\ pc' = "ack"
    /\ UNCHANGED <<tried, commands, rxReady, locked, stage, cmd, ascii_buf, taken,
                   rdr, sender>>

Acknowledge ==
    /\ pc = "ack"
    /\ sent' = Append(sent, <<"z">>)
    /\ pc' = "getch"
    /\ UNCHANGED <<tried, commands, rxReady, locked, stage, cmd, ascii_buf, key, taken,
                   rdr, sender>>

-----------------------------------------------------------------------------
(* The host (external) *)

\* A line is sound as simpleserial.h describes it, if letters of no command at
\* its beginning are skipped, as the device does.
Upcase(c) == IF c \in 97..122 THEN c - 32 ELSE c
Letters == {Registrations[i].c : i \in DOMAIN Registrations}
Stripped(l) ==
    LET known == {i \in DOMAIN l : l[i] \in Letters}
    IN  IF known = {} THEN <<>> ELSE SubSeq(l, First(known), Len(l))
Meant(l) ==
    Registrations[CHOOSE i \in DOMAIN Registrations :
                      Registrations[i].c = Stripped(l)[1]]
Sound(l) ==
    LET s == Stripped(l)
    IN  /\ s # <<>>
        /\ Len(s) = 2 * Meant(l).len + 2
        /\ s[Len(s)] \in Newline
        /\ \A j \in 2..(Len(s) - 1) :
              \E n \in 0..15 : Upcase(s[j]) = hex_lookup[n]
\* No command's letter follows the end of the line's own command: there the
\* device would take it for the start of another.
OneCommand(l) ==
    \A j \in DOMAIN Stripped(l) :
        Stripped(l)[j] \in Letters => j <= 2 * Meant(l).len + 2
\* The bytes simpleserial_put would write like this.
DataOf(l) ==
    [i \in 1..Meant(l).len |->
        CHOOSE b \in 0..255 :
            PutByte(b) = <<Upcase(Stripped(l)[2 * i]), Upcase(Stripped(l)[2 * i + 1])>>]

NextLine(l) ==
    /\ rest = <<>>
    /\ host.paced => rdr = None
    /\ line' = l /\ rest' = l
    /\ UNCHANGED <<device, taken, rdr, host, hostKey>>

\* One byte reaches the receiver; it is lost if the last was not read yet.
SendByte ==
    /\ rest # <<>>
    /\ host.paced => rdr = None
    /\ rdr' = IF rdr = None THEN Head(rest) ELSE rdr
    /\ rest' = Tail(rest)
    /\ hostKey' = IF rest' = <<>> /\ Sound(line) /\ Meant(line).fp = "get_key"
                  THEN DataOf(line) ELSE hostKey
    /\ UNCHANGED <<device, taken, host, line>>

-----------------------------------------------------------------------------

Device ==
    \/ Register \/ Registered \/ Receive \/ Received
    \/ \E c \in host.garbage : ReceiveTimeout(c)
    \/ Callback \/ Acknowledge

Sender == SendByte \/ \E l \in host.lines : NextLine(l)

Next == Device \/ Sender

Spec == Init /\ [][Next]_vars

\* The device runs on.  Nothing is asked of the host.
LiveSpec == Spec /\ WF_vars(Device)

-----------------------------------------------------------------------------
(* Properties *)

\* What simpleserial.h asks of a program's commands, each letter once and none
\* an end of line.
ProgramCommands ==
    /\ Len(Registrations) <= MaxCmds
    /\ \A i \in DOMAIN Registrations :
          /\ Registrations[i].len <= MAX_SS_LEN
          /\ Registrations[i].c \notin Newline
          /\ \A j \in DOMAIN Registrations :
                Registrations[i].c = Registrations[j].c => i = j

TypeOK ==
    /\ pc \in {"register", "getch", "wait", "callback", "ack"}
    /\ tried \in 0..Len(Registrations)
    /\ Len(commands) <= tried
    /\ rxReady \in BOOLEAN /\ locked \in BOOLEAN
    /\ stage \in {"command", "data", "end"}
    /\ cmd \in 0..Len(commands)
    /\ Len(ascii_buf) <= 2 * MAX_SS_LEN
    /\ cmd # 0 => Len(ascii_buf) <= 2 * commands[cmd].len
    /\ rdr \in 0..255 \cup {None}
    /\ host \in Hosts
    /\ line \in host.lines \cup {<<>>} /\ Len(rest) <= Len(line)

\* However lines are cut, spliced or garbled by lost bytes and timeouts, the
\* next end of line the device reads puts it at the start of a command: one
\* bad line never spoils the line after the next newline.
NewlineResynchronises ==
    [][rdr' = None /\ rdr \in Newline => stage' = "command"]_vars

\* getch always gets its turn: no path leaves the handle busy or locked, which
\* would make every later getch return garbage at once.
ReceiverNeverBusy == pc = "getch" => rxReady /\ ~locked

\* With a host that leaves the device its time, a callback runs only when a
\* line has ended, on characters that end this line: never across two lines
\* and never on a piece from the middle of one.
CallbackEndsLine ==
    [][host.paced /\ pc' = "callback" /\ pc # "callback" =>
          /\ rest = <<>>
          /\ \E i \in DOMAIN line : taken' = SubSeq(line, i, Len(line))]_vars

\* And then the answer to a block is under the key of the host's last sound
\* key line, whatever unsound lines came before or between, and the bytes are
\* those simpleserial_put would write so, in either case of the letters.  The
\* lines may be too long, but with no second command behind the first: the
\* device does not skip the rest of a line, and would run it.
AnswerUnderHostsKey ==
    host.paced /\ (\A l \in host.lines : OneCommand(l)) /\ pc = "ack" =>
        /\ key = hostKey
        /\ sent = IF commands[cmd].fp = "get_pt"
                  THEN <<<<"r", hostKey, DataOf(taken)>>>> ELSE <<>>

\* And every sound line is answered, whatever lines came before it.
SoundLineAnswered ==
    \A l \in UNION {h.lines : h \in Hosts} :
        host.paced /\ Sound(l) /\ line = l /\ rest = <<>> /\ rdr # None
            ~> pc = "ack" /\ taken = Stripped(l)

=============================================================================
