----------------------------- MODULE ComParams -----------------------------
(***************************************************************************)
(* A stack of communication parameters on its way to the driver.  The      *)
(* program fills a stack with setters or JSON, builds the definitions of   *)
(* its set and its table (types/pdu_com_param/stack), and hands them to a  *)
(* logical link, which sets them in the driver and notes them in its       *)
(* working buffer (types/pdu_com_logical_link.rs), first filled from the   *)
(* module description file (types/pdu_vci.rs).  It may refresh the set     *)
(* from the driver (types/pdu_com_param/table.rs).  One task does all      *)
(* this; LogicalLink has the setters of several.                           *)
(*                                                                         *)
(* An instance follows the parameters it watches: the code treats each     *)
(* field apart from the others, but for the ECU's name, the row of the     *)
(* table.                                                                  *)
(***************************************************************************)
EXTENDS ComParamStacks, FiniteSets, TLC

CONSTANTS
  Watches,     \* sets of parameters to follow, one of which each run follows
  Inputs,      \* values given to a setter, by the type of the parameter
  JsonValues,  \* values found in a JSON map
  ResponseIds, \* identifiers given to configure_for_receive_*()
  MaxKeys,     \* bound: the keys of such a map
  MaxEdits,    \* bound: the changes made to the stack
  MdfValues    \* what the MDF has of a parameter: a subset of MdfKinds

\* It names no such parameter, or not its name, or has a value the code
\* cannot represent, or one it can.
MdfKinds == {"absent", "unnamed", "uncategorized", "value"}

ASSUME ComParamsAssumption ==
  /\ DOMAIN Inputs = Types
  /\ \A t \in Types : \A v \in Inputs[t] : Fits(t, v)
  /\ \A j \in JsonValues : IsJson(j)
  /\ \A id \in ResponseIds : id \in Nat /\ IsU32(Word(id))
  /\ MdfValues \subseteq MdfKinds
  /\ \A s \in Stacks : \A p, q \in Fields(s) : p.name = q.name => p = q

VARIABLES
  stack,        \* which composite stack
  watched,      \* the parameters followed, fields of the stack
  supported,    \* those of them the driver knows
  fields,       \* their values in the stack
  edits,        \* how often the stack was changed
  panicked,     \* the program called configure_from_serde_json_map() in vain
  ignored,      \* history: those a JSON map named and did not change
  set,          \* the set built last, or refreshed since
  table,        \* the table built last
  origin,       \* history: the fields they were built from
  stale,        \* history: those a refresh left different from the driver's
  todo,         \* the parameters set_com_params() has still to set
  delivered,    \* "set" and "table", of origin, set or accepted without error
  passed,       \* history: parameters of the set the driver knows, passed over
  refused,      \* a call with parameters of the wrong class
  driver,       \* the driver's values of the parameters set one by one
  driverTable,  \* the driver's table: the row and its parameters
  workingSet,   \* working_buffer.set
  workingTable  \* working_buffer.table: from pairs <<row, parameter>>

givenVars == <<stack, watched, supported>>
builtVars == <<set, table, origin>>
stackVars == <<fields, edits>>
jsonVars == <<panicked, ignored>>
linkVars == <<driver, driverTable, workingSet, workingTable>>
sentVars == <<todo, delivered, passed, refused>>
vars == <<givenVars, stackVars, jsonVars, builtVars, stale, sentVars, linkVars>>

Empty == [p \in {} |-> Zero(p)]
Pick(f, S) == [p \in DOMAIN f \cap S |-> f[p]]

\* The row of the table: 0 is <<>>, the hash of an ECU's name is the name.
Row(f) ==
  IF CpEcuLayerShortName \in DOMAIN f THEN f[CpEcuLayerShortName].n ELSE <<>>

-----------------------------------------------------------------------------
(***************************************************************************)
(* The stack.                                                              *)
(***************************************************************************)
Edit == edits < MaxEdits /\ edits' = edits + 1

Set(p) ==
  /\ Edit
  /\ p \in watched \cap Setters(stack)
  /\ \E v \in Inputs[p.type] : fields' = [fields EXCEPT ![p] = v]
  /\ UNCHANGED <<givenVars, jsonVars, builtVars, stale, sentVars, linkVars>>

ReceiveFields == {CpCanRespUudtFormat, CpCanRespUudtId, CpCanRespUudtExtAddr}

\* configure_for_receive_11_bit()
Receive11(id) ==
  /\ Edit
  /\ stack = "raw" /\ ReceiveFields \subseteq watched
  /\ fields' = [fields EXCEPT ![CpCanRespUudtFormat] = Num(0),
                              ![CpCanRespUudtId] = Num(id),
                              ![CpCanRespUudtExtAddr] = Num(0)]
  /\ UNCHANGED <<givenVars, jsonVars, builtVars, stale, sentVars, linkVars>>

\* configure_for_receive_29_bit()
Receive29(id) ==
  /\ Edit
  /\ stack = "raw" /\ ReceiveFields \subseteq watched
  /\ fields' = [fields EXCEPT ![CpCanRespUudtFormat] = Num(2),
                              ![CpCanRespUudtId] = Of(<<Ones>>),
                              ![CpCanRespUudtExtAddr] = Num(id)]
  /\ UNCHANGED <<givenVars, jsonVars, builtVars, stale, sentVars, linkVars>>

\* The maps the program may hold: a key of a field, a parameter's name or a
\* key nobody knows.
JsonMaps ==
  LET keys == {Key(stack, p) : p \in watched} \cup {p.name : p \in watched}
                \cup {"CP_Unknown"}
  IN UNION {[K -> JsonValues] :
              K \in {L \in SUBSET keys : Cardinality(L) \in 1..MaxKeys}}

\* The stack as JSON, with the keys it has replaced by those of the map.
Overlaid(map, p) ==
  IF Key(stack, p) \in DOMAIN map THEN map[Key(stack, p)]
                                  ELSE Serialize(p, fields[p])

\* configure_from_serde_json_map()
Configure(map) ==
  /\ Edit
  /\ IF \A p \in watched : Accepts(p, Overlaid(map, p))
     THEN /\ fields' = [p \in watched |-> Deserialize(p, Overlaid(map, p))]
          /\ ignored' = ignored \cup
               {p \in watched : /\ p.name \in DOMAIN map
                                /\ Key(stack, p) \notin DOMAIN map}
          /\ UNCHANGED panicked
     ELSE /\ panicked' = TRUE
          /\ UNCHANGED <<fields, ignored>>
  /\ UNCHANGED <<givenVars, builtVars, stale, sentVars, linkVars>>

-----------------------------------------------------------------------------
(***************************************************************************)
(* The definitions.                                                        *)
(***************************************************************************)
BuildSet == [p \in watched \cap SetOf(stack) |-> Variant(p, fields[p])]
BuildTable == [p \in watched \cap TableOf(stack) |-> Variant(p, fields[p])]

Build ==
  /\ todo = {}
  /\ set' = BuildSet
  /\ table' = BuildTable
  /\ origin' = fields
  /\ stale' = {}
  /\ delivered' = {} /\ passed' = {}
  /\ UNCHANGED <<givenVars, stackVars, jsonVars, todo, refused, linkVars>>

\* refresh_full(): a parameter the driver does not know is left alone, an
\* error ends it.  Without a worker the set is copied and the copy refreshed.
Refreshed(R) == [p \in DOMAIN set |-> IF p \in R THEN driver[p] ELSE set[p]]

Refresh(api, R) ==
  /\ todo = {} /\ origin # Empty
  /\ R \subseteq DOMAIN set \cap supported
  /\ set' = IF api THEN set ELSE Refreshed(R)
  /\ stale' = {p \in R : set'[p] # driver[p]}
  /\ origin' = Empty
  /\ delivered' = {} /\ passed' = {}
  /\ UNCHANGED <<givenVars, stackVars, jsonVars, table, todo, refused,
                 linkVars>>

-----------------------------------------------------------------------------
(***************************************************************************)
(* The link.                                                               *)
(***************************************************************************)
\* blocking_set_com_params() of the set takes its parameters in any order.
SendSet ==
  /\ todo = {} /\ origin # Empty /\ "set" \notin delivered
  /\ todo' = DOMAIN set
  /\ passed' = {}
  /\ delivered' = delivered \cup (IF DOMAIN set = {} THEN {"set"} ELSE {})
  /\ UNCHANGED <<givenVars, stackVars, jsonVars, builtVars, stale, refused,
                 linkVars>>

Done(p) ==
  /\ todo' = todo \ {p}
  /\ delivered' = delivered \cup (IF todo = {p} THEN {"set"} ELSE {})

\* A parameter the driver does not support is skipped, and so is one it knows
\* whose value it refuses: pdu_set_com_param() turns INVALID_PARAMETERS into
\* ComParamNotSupported, after it has refused a UniqueId by itself.
SkipOne(p) ==
  /\ p \in todo
  /\ p \in supported => p.class # "UniqueId"
  /\ Done(p)
  /\ passed' = passed \cup ({p} \cap supported)
  /\ UNCHANGED <<givenVars, stackVars, jsonVars, builtVars, stale, refused,
                 linkVars>>

\* pdu_set_com_param(), then update_buffer_set_param(), which writes only what
\* the buffer has.
SetOne(p) ==
  /\ p \in todo \cap supported /\ p.class # "UniqueId"
  /\ driver' = [driver EXCEPT ![p] = set[p]]
  /\ workingSet' = [q \in DOMAIN workingSet |->
                      IF q = p THEN set[p] ELSE workingSet[q]]
  /\ Done(p)
  /\ UNCHANGED <<givenVars, stackVars, jsonVars, builtVars, stale, passed, refused,
                 driverTable, workingTable>>

\* Mutant: the buffer is written before the driver's answer is known.
FailOneNoted(p) ==
  /\ p \in todo \cap supported
  /\ todo' = {}
  /\ workingSet' = [q \in DOMAIN workingSet |->
                      IF q = p THEN set[p] ELSE workingSet[q]]
  /\ refused' = (refused \/ p.class = "UniqueId")
  /\ UNCHANGED <<givenVars, stackVars, jsonVars, builtVars, stale, delivered, passed,
                 driver, driverTable, workingTable>>

\* pdu_set_com_param() refuses a UniqueId; any other error ends the call too.
FailOne(p) ==
  /\ p \in todo \cap supported
  /\ todo' = {}
  /\ refused' = (refused \/ p.class = "UniqueId")
  /\ UNCHANGED <<givenVars, stackVars, jsonVars, builtVars, stale, delivered, passed,
                 linkVars>>

\* update_buffer_table_param() of some of the table's parameters.  The rows of
\* other names stay in the buffer.
Note(S) ==
  LET new == {Row(origin)} \X S IN
  workingTable' = [e \in DOMAIN workingTable \cup new |->
                     IF e \in new THEN table[e[2]] ELSE workingTable[e]]

\* blocking_set_unique_com_params_table(): every parameter is built and noted
\* before the driver gets the table, which replaces its own.
SendTable(ok) ==
  /\ todo = {} /\ origin # Empty /\ "table" \notin delivered
  /\ DOMAIN table \subseteq supported
  /\ Note(DOMAIN table)
  /\ driverTable' = IF ok THEN [row |-> Row(origin), params |-> table]
                          ELSE driverTable
  /\ delivered' = delivered \cup (IF ok THEN {"table"} ELSE {})
  /\ refused' = (refused \/ \E p \in DOMAIN table : p.class # "UniqueId")
  /\ UNCHANGED <<givenVars, stackVars, jsonVars, builtVars, stale, todo, passed,
                 driver, workingSet>>

\* The driver does not know one of them: those built before it are noted.
SendTableUnsupported(S) ==
  /\ todo = {} /\ origin # Empty
  /\ DOMAIN table \ supported # {}
  /\ S \subseteq DOMAIN table \cap supported
  /\ Note(S)
  /\ UNCHANGED <<givenVars, stackVars, jsonVars, builtVars, stale, sentVars,
                 driver, driverTable, workingSet>>

-----------------------------------------------------------------------------
\* The driver's and the MDF's default of a parameter.
Default(p) == Variant(p, Zero(p))

\* capture_initial_cll_comm_params_from_mdf(): the bus's parameters, then the
\* protocol's; a UniqueId goes to row 0 of the table.
Captured(bus, proto) ==
  {p \in watched : \/ bus = "value" /\ p.class = "BusType"
                   \/ proto = "value"}

Capture(bus, proto) ==
  LET named == Captured(bus, proto) IN
  /\ workingSet = [p \in {q \in named : q.class # "UniqueId"} |-> Default(p)]
  /\ workingTable =
       [e \in {<<>>} \X {q \in named : q.class = "UniqueId"} |-> Default(e[2])]

Init ==
  /\ stack \in Stacks
  /\ watched \in {W \in Watches : W \subseteq Fields(stack)}
  /\ supported \in {watched, {}}
  /\ \E optimized \in BOOLEAN :
       /\ optimized => stack # "raw"
       /\ fields = [p \in watched |-> Preset(stack, optimized, p)]
  /\ edits = 0
  /\ panicked = FALSE /\ ignored = {}
  /\ set = Empty /\ table = Empty /\ origin = Empty /\ stale = {}
  /\ todo = {} /\ delivered = {} /\ passed = {} /\ refused = FALSE
  /\ driver = [p \in watched |-> Default(p)]
  /\ driverTable = [row |-> <<>>, params |-> Empty]
  /\ \E bus, proto \in MdfValues : Capture(bus, proto)

Next ==
  \/ \E p \in watched : Set(p)
  \/ \E id \in ResponseIds : Receive11(id) \/ Receive29(id)
  \/ \E map \in JsonMaps : Configure(map)
  \/ Build
  \/ \E api \in BOOLEAN, R \in SUBSET watched : Refresh(api, R)
  \/ SendSet
  \/ \E p \in watched : SkipOne(p) \/ SetOne(p) \/ FailOne(p)
  \/ \E ok \in BOOLEAN : SendTable(ok)
  \/ \E S \in SUBSET watched : SendTableUnsupported(S)

Spec == Init /\ [][Next]_vars

-----------------------------------------------------------------------------
(***************************************************************************)
(* Properties.                                                             *)
(***************************************************************************)
\* Types: no preset, setter or JSON map puts a value in a field that its type
\* cannot hold.
TypeOK ==
  /\ stack \in Stacks /\ watched \subseteq Fields(stack)
  /\ passed \subseteq supported /\ supported \subseteq watched
  /\ DOMAIN fields = watched /\ \A p \in watched : Fits(p.type, fields[p])
  /\ {panicked, refused} \subseteq BOOLEAN
  /\ ignored \cup stale \subseteq watched
  /\ todo \subseteq DOMAIN set /\ DOMAIN set \cup DOMAIN table \subseteq watched
  /\ delivered \subseteq {"set", "table"}
  /\ DOMAIN driver = watched /\ DOMAIN workingSet \subseteq watched
  /\ \A e \in DOMAIN workingTable : e[2] \in watched

\* What a stack has that the driver should get one by one or in the table: a
\* UniqueId goes to the table, but the ECU's name, which is its row.  UdsStack's
\* loopback is in neither, see SetIsComplete.
Singles ==
  {p \in watched : /\ p.class # "UniqueId"
                   /\ ~(stack = "uds" /\ p = CpLoopback)}
Unique == {p \in watched : p.class = "UniqueId"} \ {CpEcuLayerShortName}

\* Once set_com_params() and set_unique_com_params_table() have returned well,
\* the driver has the value of every field the stack had when its definitions
\* were built, in the unit the driver counts in, under the row of the ECU's
\* name, but for the values it refused as invalid and set_com_params() passed
\* over; and the driver was never sent a parameter in the call for another
\* class: of the 82 parameters none is forgotten by the layer that keeps it or
\* built into the wrong half.
FieldsReachDriver ==
  /\ ~refused
  /\ "set" \in delivered =>
       \A p \in (Singles \cap supported) \ passed :
         driver[p] = Variant(p, origin[p])
  /\ "table" \in delivered =>
       driverTable = [row |-> Row(origin),
                      params |-> [p \in Unique |-> Variant(p, origin[p])]]

\* The link's working buffer shows the driver's value of every parameter it
\* has, whatever was skipped, refused or left undone, and of a table that was
\* accepted every entry under its row.
BufferShowsDriver ==
  /\ \A p \in DOMAIN workingSet : workingSet[p] = driver[p]
  /\ "table" \in delivered =>
       \A p \in DOMAIN driverTable.params :
         LET e == <<driverTable.row, p>> IN
         e \in DOMAIN workingTable /\ workingTable[e] = driverTable.params[p]

\* configure_from_serde_json_map() writes the stack as JSON and reads it back:
\* this never fails for want of a field the map leaves out, and the driver
\* would get the same value of it, though its unit may be another.
ConfigureSparesOthers ==
  \A p \in watched :
    LET j == Serialize(p, fields[p])
    IN Accepts(p, j) /\ Variant(p, Deserialize(p, j)) = Variant(p, fields[p])

-----------------------------------------------------------------------------
(***************************************************************************)
(* What the source says and the code does not do.                          *)
(***************************************************************************)
\* The comments of configure_from_serde_json_map(): "infallible".
ConfigureIsInfallible == ~panicked

\* The trait: "for configuration through JSON", where a parameter goes by its
\* short name.
NamesAreKeys == ignored = {}

\* refresh_full() is "the asynchronous version of" blocking_refresh_full(),
\* which "refreshes the values of the communication parameters in the current
\* set".
RefreshRefreshes == stale = {}

\* build_set() is "for use in PDUSetComParam": it has the stack's loopback.
SetIsComplete ==
  CpLoopback \in watched /\ set # Empty => CpLoopback \in DOMAIN set
=============================================================================
