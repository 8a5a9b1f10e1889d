------------------------------- MODULE CommandLine -------------------------------
(* The command lines of wisp-cli and of the broker, as sequences of words.        *)
(* Models src/cli/options.cpp, src/cli/main.cpp and the loop over argv of         *)
(* src/server/main.cpp.                                                           *)
EXTENDS Integers, Sequences, SequencesExt, TLC

CONSTANTS CliWords, MaxWords      \* the words tried, and how many of them

VARIABLE argv

Stoi == ("0" :> 0) @@ ("1" :> 1) @@ ("7x" :> 7) @@ ("-1" :> -1) @@ ("65536" :> 65536)
    \* a number may be followed by anything; other words throw, or are 0 to strtol

COMMANDS == [pub |-> <<"Publish", 1, 2>>, publish |-> <<"Publish", 1, 2>>,
             sub |-> <<"Subscribe", 1, MaxWords>>, subscribe |-> <<"Subscribe", 1, MaxWords>>,
             req |-> <<"Request", 1, 2>>, request |-> <<"Request", 1, 2>>,
             stats |-> <<"Stats", 0, 0>>, tap |-> <<"Tap", 0, 1>>,
             record |-> <<"Record", 1, 2>>, replay |-> <<"Replay", 1, 1>>]

TakesValue == ("-a" :> "address") @@ ("--address" :> "address") @@ ("--id" :> "clientId")
              @@ ("-f" :> "format") @@ ("--format" :> "format") @@ ("-n" :> "count")
              @@ ("--count" :> "count") @@ ("-t" :> "timeoutMs") @@ ("--timeout" :> "timeoutMs")
              @@ ("--origin" :> "origin") @@ ("--max-bytes" :> "maxBytes") @@ ("--speed" :> "speed")
Flags == ("-v" :> "verbose") @@ ("--verbose" :> "verbose")
         @@ ("--include-control" :> "includeControl") @@ ("--preserve-uuids" :> "preserveUuids")
OptionNames == Range(TakesValue) \cup Range(Flags)

MinValue == [count |-> 0, timeoutMs |-> 1, maxBytes |-> 1, speed |-> 0]
ValueOk(option, word) ==
    CASE option \in {"address", "clientId"} -> TRUE
      [] option = "format" -> word \in {"auto", "text", "hex", "raw"}
      [] option = "origin" -> word \in {"any", "local", "mesh"}
      [] OTHER -> word \in DOMAIN Stoi /\ Stoi[word] >= MinValue[option]

isOption(word) == word \in DOMAIN TakesValue \cup DOMAIN Flags \cup {"--unknown", "-1", "--inspector-port"}
    \* of more than one character, the first a dash
--------------------------------------------------------------------------------
(* The loop, one word at a time; an option that takes a value waits for it.       *)
Start == [status |-> "reads", command |-> "none", args |-> <<>>, waits |-> "",
          given |-> [o \in OptionNames |-> "unset"]]
Fails(s) == [s EXCEPT !.status = "error"]

AfterValue(s, word) ==
    IF ValueOk(s.waits, word) THEN [s EXCEPT !.given[s.waits] = word, !.waits = ""] ELSE Fails(s)

AfterOption(s, word) ==
    CASE word \in DOMAIN Flags -> [s EXCEPT !.given[Flags[word]] = "set"]
      [] word \in DOMAIN TakesValue -> [s EXCEPT !.waits = TakesValue[word]]
      [] OTHER -> Fails(s)

AfterWord(s, word) ==
    IF s.command # "none" THEN [s EXCEPT !.args = Append(@, word)]
    ELSE IF word \in DOMAIN COMMANDS THEN [s EXCEPT !.command = word]
    ELSE Fails(s)

ReadsInPlace(s, word) ==      \* options end at the first argument of the command
    IF s.status # "reads" THEN s
    ELSE IF s.waits # "" THEN AfterValue(s, word)
    ELSE IF s.args # <<>> THEN AfterWord(s, word)
    ELSE IF word \in {"-h", "--help"} THEN [s EXCEPT !.status = "help"]
    ELSE IF isOption(word) THEN AfterOption(s, word)
    ELSE AfterWord(s, word)
Reads(s, word) ==
    IF s.status # "reads" THEN s
    ELSE IF s.waits # "" THEN AfterValue(s, word)
    ELSE IF word \in {"-h", "--help"} THEN [s EXCEPT !.status = "help"]
    ELSE IF isOption(word) THEN AfterOption(s, word)
    ELSE AfterWord(s, word)

ArgumentsOk(s) == Len(s.args) \in COMMANDS[s.command][2] .. COMMANDS[s.command][3]

parseArguments(words) ==
    LET s == FoldLeft(Reads, Start, words)
    IN  IF s.status # "reads" THEN s
        ELSE IF s.waits # "" \/ s.command = "none" THEN Fails(s)
        ELSE IF ~ ArgumentsOk(s) THEN Fails(s)
        ELSE [s EXCEPT !.status = "ok",
                       !.given["address"] = IF @ = "unset" THEN "default" ELSE @]

(* The arguments a command reads: those it reads unasked, and all it ever reads.  *)
(* record hands the tap its arguments without the first.                          *)
ReadsUnasked == [Publish |-> 1, Subscribe |-> 1, Request |-> 1, Stats |-> 0, Tap |-> 0,
                 Record |-> 1, Replay |-> 1]
ReadsAtMost == [Publish |-> 2, Subscribe |-> MaxWords, Request |-> 2, Stats |-> 0, Tap |-> 1,
                Record |-> 2, Replay |-> 1]
--------------------------------------------------------------------------------
(* The broker's: a port, and endpoints to bind.                                   *)
ServerStart == [status |-> "reads", waits |-> FALSE, port |-> 0, bindings |-> <<>>]
ServerTakesPort(s, port) ==
    IF port \in 1 .. 65535 THEN [s EXCEPT !.port = port, !.waits = FALSE]
    ELSE [s EXCEPT !.status = "error"]
Strtol(word) == IF word \in DOMAIN Stoi THEN Stoi[word] ELSE 0
ServerReads(s, word) ==
    IF s.status # "reads" THEN s
    ELSE IF s.waits THEN ServerTakesPort(s, Strtol(word))
    ELSE IF word \in {"-h", "--help"} THEN [s EXCEPT !.status = "help"]
    ELSE IF word = "--inspector-port" THEN [s EXCEPT !.waits = TRUE]
    ELSE [s EXCEPT !.bindings = Append(@, word)]
ServerArguments(words) ==
    LET s == FoldLeft(ServerReads, ServerStart, words)
    IN  IF s.status # "reads" THEN s
        ELSE IF s.waits THEN [s EXCEPT !.status = "error"]
        ELSE [s EXCEPT !.status = "ok",
                       !.bindings = IF @ = <<>> THEN <<"tcp://*:5555", "ipc:///tmp/broker.sock">> ELSE @]
--------------------------------------------------------------------------------
CommandLineInit == argv = <<>>
CommandLineNext == Len(argv) < MaxWords /\ \E w \in CliWords : argv' = Append(argv, w)

(* Of a command line that is accepted, the command finds every argument it reads  *)
(* and reads every argument there is.                                             *)
AcceptedCanRun ==
    LET s == parseArguments(argv)
        does == COMMANDS[s.command][1]
    IN  s.status = "ok" => Len(s.args) \in ReadsUnasked[does] .. ReadsAtMost[does]

(* An option may stand anywhere: moving one with its value to the end changes     *)
(* nothing, as the examples of the usage text rely on.                            *)
Without(i, n) == SubSeq(argv, 1, i - 1) \o SubSeq(argv, i + n, Len(argv))
Moved(i, n) == Without(i, n) \o SubSeq(argv, i, i + n - 1)
OptionsStandAnywhere ==
    \A i \in DOMAIN argv :
        LET before == FoldLeft(Reads, Start, SubSeq(argv, 1, i - 1))
            atWord == before.status = "reads" /\ before.waits = ""
            value == argv[i] \in DOMAIN TakesValue
            n == IF value THEN 2 ELSE 1
            once == \A j \in DOMAIN argv \ {i} :
                       argv[j] \in DOMAIN TakesValue => TakesValue[argv[j]] # TakesValue[argv[i]]
        IN  (/\ atWord /\ argv[i] \in DOMAIN TakesValue \cup DOMAIN Flags
             /\ value => once /\ i < Len(argv)
             /\ parseArguments(argv).status = "ok")
                => parseArguments(Moved(i, n)) = parseArguments(argv)

(* The broker never starts on a port that is none, and never without a binding.   *)
BrokerCanStart ==
    LET s == ServerArguments(argv)
    IN  s.status = "ok" => /\ s.port \in 0 .. 65535 /\ s.bindings # <<>>
                           /\ (s.port = 0) = ("--inspector-port" \notin Range(argv))
================================================================================
