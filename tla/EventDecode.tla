---------------------------- MODULE EventDecode ----------------------------
(***************************************************************************)
(* From the reply to eth_getLogs to the events that are saved: the         *)
(* declarations of config.yaml are compiled to tables from signatures to   *)
(* events, one for each address (eventMapper.go, types/abiCompiler.go,     *)
(* types/event.go), and each log is decoded by the event its signature     *)
(* names (types/log.go, utils/events/logger.go, utils/encode/decoder.go,   *)
(* eventLog/eventLogger.go).  One panic loses the whole reply: the         *)
(* collector recovers and asks for the same range again.                   *)
(*                                                                         *)
(* A declaration's text is its words; a signature's hash is the name and   *)
(* the types it is made of (Keccak-256 has no collisions here); a word of  *)
(* 32 bytes is a number, the hash of a string or a list in a topic, or the *)
(* head of one in the data.  The Go value it is decoded to is an integer   *)
(* of the machine, a *big.Int or a list of them, or something that is text *)
(* in JSON (strings, addresses).                                           *)
(***************************************************************************)
EXTENDS Naturals, Sequences, SequencesExt, FiniteSets

CONSTANTS
    Words,      \* what declarations are made of
    Interfaces, \* what a collection may be configured with: address -> texts of declarations
    Contract,   \* the events that the contracts of the chain declare
    Arguments,  \* the values of their parameters
    Canonical,  \* of a type that the compiler writes otherwise in a signature: its name
    Machine,    \* the types of up to 64 bits: int8 .. int64, uint8 .. uint64
    Big,        \* the wider ones
    Lists,      \* lists of integers
    MaxExact,   \* up to it every integer is a float64 (2^53)
    Float64(_), \* the float64 nearest to an integer
    MaxLogs     \* logs in a reply

VARIABLES interface, emitted
decodeVars == <<interface, emitted>>

\* A declaration: its words before the parameters, the second of which is the name, and those of
\* each parameter.  What a contract declares.
Declarations == {text \in [head : Seq(Words), params : Seq(Seq(Words))] : Len(text.head) >= 2}
Events == [name : Words, anonymous : BOOLEAN, inputs : Seq([type : Words, indexed : BOOLEAN])]

ASSUME InterfacesAssumption ==
    /\ "" \notin Words
    /\ \A i \in Interfaces : i \in [DOMAIN i -> Seq(Declarations)]
    /\ Contract \subseteq Events

\* What go-ethereum decodes a type to; "word" is all that takes one word and is no integer.
Kind(type) ==
    CASE type \in Machine -> "machine"
      [] type \in Big -> "big"
      [] type \in Lists -> "list"
      [] type = "string" -> "string"
      [] OTHER -> "word"

\* Two names of a type are one kind; arguments are numbers, strings and lists of numbers.
ASSUME ArgumentsAssumption ==
    /\ \A type \in DOMAIN Canonical : Kind(type) = Kind(Canonical[type])
    /\ Arguments \subseteq [number : Nat] \cup [text : Nat] \cup [list : Seq(Nat)]
    /\ Machine \cap Big = {} /\ Lists \cap (Machine \cup Big) = {}

ASSUME FloatAssumption == \A n \in 0 .. MaxExact : Float64(n) = n

Static(type) == Kind(type) \notin {"string", "list"}
Hash(v) == [hash |-> v]
Text(v) == [text |-> v]
Number(n) == [number |-> n]
List(numbers) == [list |-> numbers]
IsList(word) == "list" \in DOMAIN word
IsHead(word) == DOMAIN word \cap {"text", "list"} # {}

\* The compiler of the contract lets only such an argument through.
Suits(arg, type) == (Static(type) = ~IsHead(arg)) /\ (IsList(arg) = (Kind(type) = "list"))

\* What is left of a sequence at the places of a set, and which place is the n-th of them.
Place(P, n) == CHOOSE i \in P : Cardinality({j \in P : j <= i}) = n
Picked(s, P) == [n \in 1 .. Cardinality(P) |-> s[Place(P, n)]]

------------------------------------------------------------------------------
\* tokenizeParams, for one parameter: three words are type, indexed and name; two are type and
\* name, whatever the second one says; one is a type, and more make an empty argument.
Param(words) ==
    [type    |-> IF Len(words) \in 1 .. 3 THEN words[1] ELSE "",
     indexed |-> Len(words) = 3 /\ words[2] = "indexed",
     name    |-> IF Len(words) \in 2 .. 3 THEN Last(words) ELSE ""]

\* CompileEvent: words after the list of parameters are ignored.
CompileEvent(text) ==
    [name |-> text.head[2], inputs |-> [i \in DOMAIN text.params |-> Param(text.params[i])]]

\* TEvent.Sig and EncodeSig: the types as they are written in the configuration.
EncodeSig(event) ==
    [name |-> event.name, types |-> [i \in DOMAIN event.inputs |-> event.inputs[i].type]]

\* compileEvents: what is no event is left out, and of two with one signature the later stays.
CompileEvents(texts) ==
    LET events == Picked(texts, {i \in DOMAIN texts : texts[i].head[1] = "event"})
        compiled == [i \in DOMAIN events |-> CompileEvent(events[i])]
        last(sig) == CHOOSE i \in DOMAIN compiled :
                        /\ EncodeSig(compiled[i]) = sig
                        /\ \A j \in DOMAIN compiled : EncodeSig(compiled[j]) = sig => j <= i
    IN  [sig \in {EncodeSig(compiled[i]) : i \in DOMAIN compiled} |-> compiled[last(sig)]]

\* getEventMapper: a table for every address of the collection.
EventMapper == [address \in DOMAIN interface |-> CompileEvents(interface[address])]

------------------------------------------------------------------------------
\* A log as a contract emits it (the chain): the hash of the signature unless the event is
\* anonymous, then a topic for every indexed parameter; the others are the data.
TrueSig(event) ==
    [name |-> event.name, types |-> [i \in DOMAIN event.inputs |->
        LET type == event.inputs[i].type
        IN  IF type \in DOMAIN Canonical THEN Canonical[type] ELSE type]]

Log(event, args, address, block, index) ==
    LET indexed == {i \in DOMAIN event.inputs : event.inputs[i].indexed}
        rest == {i \in DOMAIN event.inputs : ~event.inputs[i].indexed}
        topics == [i \in DOMAIN args |-> IF Static(event.inputs[i].type) THEN args[i] ELSE Hash(args[i])]
    IN  [address |-> address, block |-> block, index |-> index,
         topics |-> (IF event.anonymous THEN <<>> ELSE <<TrueSig(event)>>)
                    \o Picked(topics, indexed),
         data |-> Picked(args, rest)]

\* MapToLog: the fields of a log of a pending block (0) are null, and their conversion panics.
Pending(log) == log.block = 0

\* Unpack of go-ethereum (external): a word read as another static type gives some number, but a
\* hash is too large for the machine; a string or a list needs its head in the data, and a list its
\* items, of which a string has too few; too few words are an error, words that are left over not.
Readable(type, word) ==
    CASE Kind(type) = "list" -> IsList(word)
      [] Kind(type) = "string" -> IsHead(word)
      [] Kind(type) = "machine" -> "hash" \notin DOMAIN word
      [] OTHER -> TRUE

Unreadable(params, words) ==
    \/ Len(words) < Len(params)
    \/ \E i \in DOMAIN params : ~Readable(params[i].type, words[i])

GoValue(type, word) ==
    LET read == IF IsHead(word) THEN Number(0) ELSE word
    IN  CASE Kind(type) = "machine" -> [machine |-> read]
          [] Kind(type) = "big" -> [big |-> read]
          [] Kind(type) = "word" -> read
          [] Kind(type) = "string" /\ IsList(word) -> Text(0)
          [] OTHER -> word

Unpack(params, words) == [i \in DOMAIN params |-> GoValue(params[i].type, words[i])]

\* GetTopicOption: the signature stands before the parameters, as if it were an indexed one.
GetTopicOption(inputs) == <<[type |-> "function", indexed |-> TRUE, name |-> "method"]>> \o inputs

Indexed(inputs) == Picked(inputs, {i \in DOMAIN inputs : inputs[i].indexed})
NonIndexed(inputs) == Picked(inputs, {i \in DOMAIN inputs : ~inputs[i].indexed})

\* The panics of DecodeLog: a topic that is not there, an argument that cannot be read.
DecodePanics(inputs, log) ==
    \/ Len(Indexed(inputs)) > Len(log.topics)
    \/ \E i \in 2 .. Len(Indexed(inputs)) : Unreadable(<<Indexed(inputs)[i]>>, <<log.topics[i]>>)
    \/ Unreadable(NonIndexed(inputs), log.data)

\* DecodeLog: the indexed arguments from the topics, the first being the hash as it is; the others
\* from the data; then both by name, in the order of the declaration.
DecodeLog(inputs, log) ==
    LET decodedNonIndexed == Unpack(NonIndexed(inputs), log.data)
        nth(i) == Cardinality({j \in 1 .. i : inputs[j].indexed = inputs[i].indexed})
        value(i) == IF ~inputs[i].indexed THEN decodedNonIndexed[nth(i)]
                    ELSE IF nth(i) = 1 THEN log.topics[1]
                    ELSE Unpack(<<inputs[i]>>, <<log.topics[nth(i)]>>)[1]
        last(name) == CHOOSE i \in DOMAIN inputs :
                        /\ inputs[i].name = name
                        /\ \A j \in DOMAIN inputs : inputs[j].name = name => j <= i
    IN  [name \in {inputs[i].name : i \in DOMAIN inputs} |-> value(last(name))]

\* GetDecodedLog: the table of the log's address, and in it the event of its signature; one that the
\* table does not hold is the event without a name and parameters.
NoEvent == [name |-> "", inputs |-> <<>>]

EventOfAnyAddress(log) ==
    LET holding == {a \in DOMAIN EventMapper : log.topics[1] \in DOMAIN EventMapper[a]}
    IN  IF holding = {} THEN NoEvent ELSE EventMapper[CHOOSE a \in holding : TRUE][log.topics[1]]

EventOf(log) ==
    IF log.address \in DOMAIN EventMapper /\ log.topics[1] \in DOMAIN EventMapper[log.address]
    THEN EventMapper[log.address][log.topics[1]]
    ELSE NoEvent

\* _getEventName.
EventName(log) == EventOf(log).name

LogPanics(log) ==
    \/ Pending(log)
    \/ DecodePanics(GetTopicOption(<<>>), log)
    \/ DecodePanics(GetTopicOption(EventOf(log).inputs), log)

\* GetEventLogs turns a big integer into text, against the errors of floats, but none in a list.
BigIntKept(v) == v

BigIntToText(v) == IF "big" \in DOMAIN v THEN v.big ELSE v

\* GetEventLogs: one log's panic is the panic of the call; one without an event name is left out.
ReplyPanics(logs) == \E i \in DOMAIN logs : LogPanics(logs[i])

GetEventLogs(logs) ==
    LET kept == Picked(logs, {i \in DOMAIN logs : EventName(logs[i]) # ""})
        decoded(n) == DecodeLog(GetTopicOption(EventOf(kept[n]).inputs), kept[n])
    IN  [n \in DOMAIN kept |->
            [block |-> kept[n].block, index |-> kept[n].index, eventName |-> EventName(kept[n]),
             decodeLog |-> [name \in DOMAIN decoded(n) |-> BigIntToText(decoded(n)[name])]]]

\* GetBlockLog: the events of a block in the order of the reply, the blocks in any order.
GetBlockLog(eventLogs) ==
    {[block |-> b, eventLogs |-> Picked(eventLogs, {i \in DOMAIN eventLogs : eventLogs[i].block = b})]
        : b \in {eventLogs[i].block : i \in DOMAIN eventLogs}}

\* InterfaceToJsonString: the JSON of a value is read back into a map, where every number is a
\* float64, and written again.  What is text by then stays as it is.
ThroughFloat(v) ==
    LET nearest(word) == IF "number" \in DOMAIN word THEN Number(Float64(word.number)) ELSE word
    IN  CASE "machine" \in DOMAIN v -> nearest(v.machine)
          [] "big" \in DOMAIN v -> nearest(v.big)
          [] IsList(v) -> List([i \in DOMAIN v.list |-> Float64(v.list[i])])
          [] OTHER -> v

\* SaveToFile, of one block: what its file says.
SaveToFile(blockLog) ==
    [block |-> blockLog.block,
     eventLogs |-> [n \in DOMAIN blockLog.eventLogs |->
        LET e == blockLog.eventLogs[n]
        IN  [block |-> e.block, index |-> e.index, eventName |-> e.eventName,
             decodeLog |-> [name \in DOMAIN e.decodeLog |-> ThroughFloat(e.decodeLog[name])]]]]

------------------------------------------------------------------------------
DecodeInit == interface = <<>> /\ emitted = <<>>

\* The configuration is read: the interfaces of a collection.
Configure == DOMAIN interface = {} /\ interface' \in Interfaces /\ UNCHANGED emitted

\* A contract emits an event, in the block of the last one or in a later one, or in a block that is
\* not mined yet.
EmitEvent ==
    /\ Len(emitted) < MaxLogs
    /\ \E event \in Contract, address \in DOMAIN interface, block \in 0 .. 2 :
       \E args \in [DOMAIN event.inputs -> Arguments] :
         /\ \A i \in DOMAIN args : Suits(args[i], event.inputs[i].type)
         /\ block = 0 \/ \A i \in DOMAIN emitted : emitted[i].log.block <= block
         /\ emitted' = Append(emitted,
                [event |-> event, args |-> args,
                 log |-> Log(event, args, address, block, Len(emitted))])
    /\ UNCHANGED interface

DecodeNext == Configure \/ EmitEvent

DecodeSpec == DecodeInit /\ [][DecodeNext]_decodeVars

------------------------------------------------------------------------------
Logs == [i \in DOMAIN emitted |-> emitted[i].log]

\* The collection has the event in the table of its contract, and declares it as the contract does
\* as far as decoding looks.
Registered(e) ==
    e.log.address \in DOMAIN EventMapper /\ TrueSig(e.event) \in DOMAIN EventMapper[e.log.address]

Declared(e) == EventMapper[e.log.address][TrueSig(e.event)].inputs

SameIndexed(e) ==
    \A i \in DOMAIN e.event.inputs : Declared(e)[i].indexed = e.event.inputs[i].indexed

\* A number that takes the way through float64 is one itself: any, unless it is an integer of the
\* machine or stands in a list.
Precise(type, arg) ==
    /\ Kind(type) = "machine" => arg.number \in 0 .. MaxExact
    /\ Kind(type) = "list" => \A i \in DOMAIN arg.list : arg.list[i] \in 0 .. MaxExact

\* What is saved is what the contracts emitted (worker.go:279-286 saves what GetEventLogs gives): a
\* block with events that the collection declares as their contract does gets one entry for each of
\* them, in the order of the chain, with every parameter's own value under its own name - whichever
\* are indexed, whatever stands between them in the reply, and although other logs are dropped.  An
\* integer beyond 64 bits keeps its value whatever its size; one of up to 64 bits, or in a list, is
\* promised only as far as 2^53 (convert.go:312-328, eventLogger.go:181-190).
DecodedAsEmitted ==
    LET ours == Picked(emitted, {i \in DOMAIN emitted : ~emitted[i].event.anonymous /\ Registered(emitted[i])})
        saved == {SaveToFile(blockLog) : blockLog \in GetBlockLog(GetEventLogs(Logs))}
        alone(e, p) == \A q \in DOMAIN Declared(e) \ {p} : Declared(e)[q].name # Declared(e)[p].name
    IN  ~ReplyPanics(Logs) /\ (\A i \in DOMAIN ours : SameIndexed(ours[i])) =>
          /\ {s.block : s \in saved} = {ours[i].log.block : i \in DOMAIN ours}
          /\ \A s \in saved :
               LET here == Picked(ours, {i \in DOMAIN ours : ours[i].log.block = s.block})
               IN  /\ Len(s.eventLogs) = Len(here)
                   /\ \A n \in DOMAIN here :
                        /\ s.eventLogs[n].index = here[n].log.index
                        /\ \A p \in DOMAIN here[n].args :
                             alone(here[n], p) /\ Declared(here[n])[p].name # "method"
                             /\ Precise(here[n].event.inputs[p].type, here[n].args[p]) =>
                               s.eventLogs[n].decodeLog[Declared(here[n])[p].name] = here[n].args[p]

\* A reply is lost to a panic, and its range asked for again for ever, only by a log of a block that
\* is not mined, by an anonymous event, or by a registered one that the contract declares with other
\* parameters indexed, or with a string or a list indexed: never by an event that nobody registered, nor by
\* one that is registered for another contract only.
PanicsOnlyWhen ==
    ReplyPanics(Logs) =>
        \E i \in DOMAIN emitted :
            \/ Pending(emitted[i].log)
            \/ emitted[i].event.anonymous
            \/ /\ Registered(emitted[i])
               /\ \/ ~SameIndexed(emitted[i])
                  \/ \E p \in DOMAIN emitted[i].event.inputs :
                       /\ emitted[i].event.inputs[p].indexed
                       /\ ~Static(emitted[i].event.inputs[p].type)
=============================================================================
