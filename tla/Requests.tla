------------------------------ MODULE Requests ------------------------------
(***************************************************************************)
(* One request pipe and its response pipe at the level of CBOR data items: *)
(* libudi encodes a request as a type and a map, and the debuggee decodes  *)
(* it one item at a time with the callbacks of libudirt/src/udirt-msg.c.   *)
(* libudi writes integers in the shortest encoding that holds them, so the *)
(* width of an integer on the wire depends on its value; the debuggee      *)
(* chooses a callback by that width.                                       *)
(***************************************************************************)
EXTENDS Naturals, Sequences, FiniteSets

CONSTANTS
    Uses,      \* sets of request types; a debugger sends those of one set
    Byte       \* the values of the one-byte integers in its requests

VARIABLES
    chan,      \* whose pipe this is: "process" or "thread"
    uses,      \* the types of request that this debugger sends
    request,   \* libudi: the type of the request it waits for, or Idle
    pipe,      \* the items in the request pipe
    reader,    \* the debuggee's decoder
    responses, \* the responses in the response pipe
    breakpoints \* the addresses to which the debugger's requests have given an
               \* entry in the breakpoint table

vars == <<chan, uses, request, pipe, reader, responses, breakpoints>>

NoKey == "none"
Idle == "idle"
Lost == "lost"     \* libudi read a response that was not for its request
Broken == "broken" \* libudi read the end of the response pipe

-----------------------------------------------------------------------------
(* The messages. *)

\* The request types, in the order of their numbers.
Types == <<"continue", "read_mem", "write_mem", "read_register",
           "write_register", "state", "init", "create_breakpoint",
           "install_breakpoint", "remove_breakpoint", "delete_breakpoint",
           "thread_suspend", "thread_resume", "next_instruction",
           "single_step">>

Type == {Types[i] : i \in DOMAIN Types}
Invalid == "invalid"
Number(t) == CHOOSE i \in DOMAIN Types : Types[i] = t
TypeOf(n) == IF n \in DOMAIN Types THEN Types[n] ELSE Invalid

Uints == <<"uint8", "uint16", "uint32", "uint64">>
UpTo(w) == {Uints[i] : i \in 1..w}

Item(kind, val) == [kind |-> kind, val |-> val, key |-> NoKey]
Key(key) == [kind |-> "string", val |-> 0, key |-> key]

\* The items an integer declared with the w-th width may be encoded as.
\* Only the value of a one-byte integer is kept.
Integers(w) == {<<Item("uint8", b)>> : b \in Byte}
               \cup {<<Item(Uints[i], 0)>> : i \in 2..w}

\* &[u8] is a sequence to serde: an array header and one integer per byte.
Slices == {<<Item("array", 0)>>} \cup {<<Item("array", 1), Item("uint8", b)>> : b \in Byte}

Field(key, values) == [key |-> key, values |-> values]

\* The fields libudi serializes for each request, in their order.  A register
\* is declared with four bytes, but the numbers of Register fit in two.
Continue == <<Field("sig", Integers(3))>>
ReadMemory == <<Field("addr", Integers(4)), Field("len", Integers(3))>>
WriteMemory == <<Field("addr", Integers(4)), Field("data", Slices)>>
ReadRegister == <<Field("reg", Integers(2))>>
WriteRegister == <<Field("reg", Integers(2)), Field("value", Integers(4))>>
Breakpoint == <<Field("addr", Integers(4))>>
SingleStep == <<Field("value", {<<Item("boolean", 0)>>})>>

BreakpointTypes == {"create_breakpoint", "install_breakpoint",
                    "remove_breakpoint", "delete_breakpoint"}

Fields(t) ==
    CASE t = "continue"       -> Continue
      [] t = "read_mem"       -> ReadMemory
      [] t = "write_mem"      -> WriteMemory
      [] t = "read_register"  -> ReadRegister
      [] t = "write_register" -> WriteRegister
      [] t \in BreakpointTypes -> Breakpoint
      [] t = "single_step"    -> SingleStep
      [] OTHER                -> <<>>

\* What serialize may produce for a request of type t.
Encodings(t) ==
    LET typ == <<Item("uint8", Number(t))>>
        Pair(f, v) == <<Key(f.key)>> \o v
    IN  CASE Fields(t) = <<>> -> {typ}
          [] Len(Fields(t)) = 1 ->
               {typ \o <<Item("map", 1)>> \o Pair(Fields(t)[1], v) : v \in Fields(t)[1].values}
          [] OTHER ->
               {typ \o <<Item("map", 2)>> \o Pair(Fields(t)[1], v) \o Pair(Fields(t)[2], w) :
                   v \in Fields(t)[1].values, w \in Fields(t)[2].values}

\* Mutant: the breakpoint requests have no callbacks for shorter addresses.
breakpoint_init_config_wide == [addr |-> {"uint64"}]

\* The keys each handler expects, with the items its callbacks accept.
continue_init_config == [sig |-> UpTo(3)]
read_init_config == [addr |-> {"uint64"}, len |-> {"uint32"}]
write_config_init == [addr |-> {"uint64"}, data |-> {"bytes"}]
breakpoint_init_config == [addr |-> UpTo(4)]
read_reg_init_config == [reg |-> UpTo(2)]
write_reg_init_config == [reg |-> UpTo(2), value |-> UpTo(4)]
single_step_init_config == [value |-> {"boolean"}]

Config(t) ==
    CASE t = "continue"       -> continue_init_config
      [] t = "read_mem"       -> read_init_config
      [] t = "write_mem"      -> write_config_init
      [] t = "read_register"  -> read_reg_init_config
      [] t = "write_register" -> write_reg_init_config
      [] t \in BreakpointTypes -> breakpoint_init_config
      [] t = "single_step"    -> single_step_init_config

HasData(t) == Fields(t) # <<>>

process_handlers == {"continue", "read_mem", "write_mem", "state", "create_breakpoint",
                     "install_breakpoint", "remove_breakpoint", "delete_breakpoint"}
thr_handlers == {"read_register", "write_register", "state", "thread_suspend",
                 "thread_resume", "next_instruction", "single_step"}
Handlers == IF chan = "process" THEN process_handlers ELSE thr_handlers

-----------------------------------------------------------------------------
(* libudi. *)

\* send_request and send_request_no_data write the whole request at once.
send_request(t) ==
    /\ request = Idle
    /\ t \in uses \cap Handlers
    /\ \E message \in Encodings(t) : pipe' = pipe \o message
    /\ request' = t
    /\ UNCHANGED <<chan, uses, reader, responses, breakpoints>>

\* Both then read one response.  It is parsed as the one to this request
\* (its second item is only used in error messages), so after a response
\* to another request what libudi reads next is unspecified.
read_response ==
    /\ request \in Type
    /\ responses # <<>>
    /\ request' = IF Head(responses).to = request THEN Idle ELSE Lost
    /\ responses' = Tail(responses)
    /\ UNCHANGED <<chan, uses, pipe, reader, breakpoints>>

\* The process has ended, and with it the response pipe.
read_response_eof ==
    /\ request \in Type
    /\ responses = <<>>
    /\ reader.phase \in {"aborted", "killed"}
    /\ request' = Broken
    /\ UNCHANGED <<chan, uses, pipe, reader, responses, breakpoints>>

-----------------------------------------------------------------------------
(* The debuggee's decoder.                                                 *)

\* The state of a decoder that has read nothing of the next request.
AtType(error) == [phase |-> "type", type |-> Invalid, current |-> NoKey,
                  keys |-> {}, count |-> 0, error |-> error]

\* A response to a request of type t; "label" is the type it names.
Response(ok, t, label) == [ok |-> ok, to |-> t, label |-> label]
Respond(response) == responses' = Append(responses, response)

\* The type that a handler's own response names.
Label(t) == IF t = "delete_breakpoint" THEN "remove_breakpoint" ELSE t

\* The reply of a handler, which may itself refuse the request.
Answer(t) ==
    \/ Respond(Response(TRUE, t, Label(t)))
    \/ Respond(Response(FALSE, t, t))

\* The handlers that need a breakpoint at the address they are given.
NeedsBreakpoint == {"install_breakpoint", "remove_breakpoint", "delete_breakpoint"}

\* read_request_type, and the dispatch in handle_process_request and
\* handle_thread_request.  A number whose handler is invalid_handler ends the
\* command loop with an error, and the library aborts; one beyond the table
\* is undefined behaviour, taken to end the process too.
read_request_type ==
    /\ reader.phase = "type"
    /\ pipe # <<>>
    /\ pipe' = Tail(pipe)
    /\ LET item == Head(pipe)
           t == TypeOf(item.val)
       IN  \/ /\ item.kind \notin {"uint8", "uint16"}
              /\ Respond(Response(FALSE, Invalid, Invalid))
              /\ reader' = AtType(TRUE)
           \/ /\ item.kind \in {"uint8", "uint16"}
              /\ t \notin Handlers
              /\ Respond(Response(FALSE, t, t))
              /\ reader' = [AtType(TRUE) EXCEPT !.phase = "aborted"]
           \/ /\ item.kind \in {"uint8", "uint16"}
              /\ t \in Handlers
              /\ HasData(t)
              /\ reader' = [AtType(FALSE) EXCEPT !.phase = "data", !.type = t]
              /\ UNCHANGED responses
           \/ /\ item.kind \in {"uint8", "uint16"}
              /\ t \in Handlers
              /\ ~HasData(t)
              /\ Answer(t)
              /\ reader' = AtType(FALSE)
    /\ UNCHANGED <<chan, uses, request, breakpoints>>

\* Mutants: reading ends one value too early, or one too late.
Complete_early == reader.count + 2 >= Cardinality(DOMAIN Config(reader.type))
Complete_late == reader.count + 1 > Cardinality(DOMAIN Config(reader.type))

\* complete_item: the value of the current key is stored.
Complete == reader.count + 1 >= Cardinality(DOMAIN Config(reader.type))

\* Reading ends when a callback sets done: the request is refused if an item
\* was unexpected, and handled otherwise.
Refuse ==
    /\ Respond(Response(FALSE, reader.type, reader.type))
    /\ reader' = AtType(TRUE)
    /\ UNCHANGED breakpoints

\* The handlers without an effect on the breakpoint table.
HandlePlain ==
    /\ reader.type \notin {"create_breakpoint"} \cup NeedsBreakpoint
    /\ Answer(reader.type)
    /\ reader' = AtType(FALSE)
    /\ UNCHANGED breakpoints

\* breakpoint_create_handler
breakpoint_create_handler(addr) ==
    /\ reader.type = "create_breakpoint"
    /\ \/ /\ addr \notin breakpoints
          /\ Respond(Response(TRUE, reader.type, reader.type))
          /\ breakpoints' = breakpoints \cup {addr}
       \/ /\ Respond(Response(FALSE, reader.type, reader.type))
          /\ UNCHANGED breakpoints
    /\ reader' = AtType(FALSE)

\* breakpoint_install_handler, breakpoint_remove_handler and
\* breakpoint_delete_handler.  delete_breakpoint loses the entries chained
\* behind the first one of a bucket when it deletes that one (Breakpoints);
\* which addresses share a bucket is left open.
HandleBreakpoint(addr) ==
    /\ reader.type \in NeedsBreakpoint
    /\ addr \in breakpoints
    /\ \/ /\ Answer(reader.type)
          /\ UNCHANGED breakpoints
          /\ reader.type = "delete_breakpoint" => ~responses'[Len(responses')].ok
       \/ /\ reader.type = "delete_breakpoint"
          /\ Respond(Response(TRUE, reader.type, Label(reader.type)))
          /\ breakpoints' \in SUBSET (breakpoints \ {addr})
    /\ reader' = AtType(FALSE)

\* The same for an address without a breakpoint: read_breakpoint tests bp and
\* not *bp, so the handler goes on with NULL, and the fault kills the process.
HandleNull(addr) ==
    /\ reader.type \in NeedsBreakpoint
    /\ addr \notin breakpoints
    /\ reader' = [AtType(FALSE) EXCEPT !.phase = "killed"]
    /\ UNCHANGED <<responses, breakpoints>>

Handle(item) ==
    \/ HandlePlain
    \/ breakpoint_create_handler(item)
    \/ HandleBreakpoint(item)
    \/ HandleNull(item)

\* Reading goes on with this decoder state.
Proceed(next) == reader' = next /\ UNCHANGED <<responses, breakpoints>>

\* After an error that did not end the reading, every item is dropped.
Drop == reader.error /\ Proceed(reader)

\* request_data_map_start: a map of the wrong size is an error, but does not
\* end the reading.
request_data_map_start(item) ==
    /\ ~reader.error /\ reader.current = NoKey
    /\ item.kind = "map"
    /\ Proceed([reader EXCEPT !.error = item.val # Cardinality(DOMAIN Config(reader.type))])

\* request_data_string: a key selects the callbacks of the value that comes
\* next; an unknown one is an error that does not end the reading.
request_data_string(item) ==
    /\ ~reader.error /\ reader.current = NoKey
    /\ item.kind = "string"
    /\ IF item.key \in DOMAIN Config(reader.type)
       THEN Proceed([reader EXCEPT !.current = item.key])
       ELSE Proceed([reader EXCEPT !.error = TRUE])

\* check_state: anything else where a key should be.
Unexpected(item) ==
    /\ ~reader.error /\ reader.current = NoKey
    /\ item.kind \notin {"map", "string"}
    /\ Refuse

\* The value of a key, for the callback its msg_item has for this kind of
\* item: one that stores it, or one of invalid_callbacks.
Value(item) ==
    /\ ~reader.error /\ reader.current # NoKey
    /\ IF item.kind \notin Config(reader.type)[reader.current] THEN Refuse
       ELSE IF Complete THEN Handle(item)
       ELSE Proceed([reader EXCEPT !.count = @ + 1, !.current = NoKey,
                                   !.keys = @ \cup {reader.current}])

\* read_cbor_items with the callbacks of read_request_data.
read_request_data ==
    /\ reader.phase = "data"
    /\ pipe # <<>>
    /\ pipe' = Tail(pipe)
    /\ \/ Drop
       \/ request_data_map_start(Head(pipe))
       \/ request_data_string(Head(pipe))
       \/ Unexpected(Head(pipe))
       \/ Value(Head(pipe))
    /\ UNCHANGED <<chan, uses, request>>

-----------------------------------------------------------------------------
Init ==
    /\ chan \in {"process", "thread"}
    /\ uses \in Uses
    /\ request = Idle
    /\ pipe = <<>>
    /\ reader = AtType(FALSE)
    /\ responses = <<>>
    /\ breakpoints = {}

Next ==
    \/ \E t \in uses : send_request(t)
    \/ read_response
    \/ read_response_eof
    \/ read_request_type
    \/ read_request_data

Spec == Init /\ [][Next]_vars

\* The library reads a request while the process is stopped, and libudi
\* blocks in the read of a response.
FairSpec ==
    /\ Spec
    /\ WF_vars(read_response) /\ WF_vars(read_response_eof)
    /\ WF_vars(read_request_type \/ read_request_data)

-----------------------------------------------------------------------------
(* Properties. *)

Kind == UpTo(4) \cup {"map", "string", "array", "boolean"}
Keys == {"sig", "addr", "len", "data", "reg", "value"}

\* Type invariant.
TypeOK ==
    /\ chan \in {"process", "thread"}
    /\ uses \in Uses
    /\ request \in Type \cup {Idle, Lost, Broken}
    /\ pipe \in Seq([kind : Kind, val : Nat, key : Keys \cup {NoKey}])
    /\ reader \in [phase : {"type", "data", "aborted", "killed"}, type : Type \cup {Invalid},
                   current : Keys \cup {NoKey}, keys : SUBSET Keys,
                   count : Nat, error : BOOLEAN]
    /\ responses \in Seq([ok : BOOLEAN, to : Type \cup {Invalid}, label : Type \cup {Invalid}])
    /\ breakpoints \subseteq {v[1] : v \in Integers(4)}

\* The debugger neither reads nor writes memory.
NoMemory == uses \cap {"read_mem", "write_mem"} = {}

\* Every request that libudi can encode, the memory ones aside, is one the
\* debuggee's callbacks accept, whatever the widths of its integers (the
\* *_init_config functions of udirt-msg.c against the Serialize impls of
\* protocol.rs).  When libudi has its response, the request has been consumed
\* to its last item and nothing else was answered: both sides stand at a
\* message boundary.
Framed ==
    /\ TypeOK
    /\ NoMemory =>
         /\ ~reader.error
         /\ request = Idle =>
              pipe = <<>> /\ responses = <<>> /\ reader.phase = "type"

\* A handler is called only once every field of its request has been stored,
\* although complete_item only counts the values it has seen.
AllFields ==
    [][ (reader.phase = "data" /\ reader'.phase # "data" /\ ~reader'.error)
        => reader.keys \cup {reader.current} = DOMAIN Config(reader.type) ]_vars

\* The request of libudi needs a breakpoint and names an address without an
\* entry.
\* The address is the last item of its message.
Dangling ==
    /\ request \in NeedsBreakpoint
    /\ IF pipe = <<>> THEN reader.phase = "killed"
       ELSE pipe[Len(pipe)] \notin breakpoints

\* Every request is answered, the memory ones aside, unless it names an
\* address without a breakpoint: that one kills the process, although
\* read_breakpoint means to refuse it (udirt-msg.c:942).
Answered == (NoMemory /\ request \in Type /\ ~Dangling) ~> (request = Idle)

=============================================================================
