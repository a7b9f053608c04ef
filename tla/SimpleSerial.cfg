SPECIFICATION LiveSpec
CONSTANTS
    MaxCmds = 10
    Registrations <- AesCommands
    DefaultKey <- MCDefaultKey
    Hosts <- MCHosts
INVARIANTS TypeOK AnswerUnderHostsKey ReceiverNeverBusy
PROPERTIES CallbackEndsLine NewlineResynchronises SoundLineAnswered
