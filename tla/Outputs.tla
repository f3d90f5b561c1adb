------------------------------ MODULE Outputs ------------------------------
(***************************************************************************)
(* The outputs of src/src/drmmode_display.c: for each connector the        *)
(* snapshot the driver keeps of it, what RandR reports, one property a     *)
(* client may set, and the udev events that announce a change.  A snapshot *)
(* the kernel refused is NULL; using it ends the server.                   *)
(***************************************************************************)
EXTENDS Integers, Sequences, Functions

CONSTANTS
  Connector,    \* the connectors of the device
  Values,       \* the values of the property, numbered as its enums
  MaxUevents,   \* room for events in the socket of the udev monitor
  NoSnapshot    \* a NULL mode_output

VARIABLES
  connector,    \* the kernel's state of each connector
  mode_output,  \* the driver's snapshot of it, for the outputs it has created
  randr,        \* what RandR reports of those outputs
  uevents,      \* the events waiting in the socket of the udev monitor
  missed        \* the connectors whose last change the driver was not told of

outputVars == <<connector, mode_output, randr, uevents, missed>>

State == [connected : BOOLEAN, value : Values]

ASSUME OutputsAssumption ==
  MaxUevents \in Nat \ {0} /\ Values \subseteq Nat /\ NoSnapshot \notin State

Outputs == DOMAIN mode_output

OutputsInit ==
  /\ connector \in [Connector -> State]
  /\ mode_output = << >>
  /\ randr = << >>
  /\ uevents = << >>
  /\ missed = {}

\* RandR reports the connector as it is.
Noticed(o) == randr[o].connected = connector[o].connected

-----------------------------------------------------------------------------
\* drmmode_output_init for every connector: without a connector or an encoder,
\* or without memory, there is no output.  The server then probes them.
CreateOutputs ==
  \E created \in SUBSET Connector :
    /\ mode_output' = [o \in created |-> connector[o]]
    /\ randr' = mode_output'
    /\ UNCHANGED <<connector, uevents, missed>>

\* Mutant: the atom before that of the value is reported.
CreateResourcesOff == randr' = [o \in Outputs |-> [randr[o] EXCEPT !.value = mode_output[o].value - 1]]

\* drmmode_output_create_resources reports the value of the snapshot.
CreateResources == randr' = [o \in Outputs |-> [randr[o] EXCEPT !.value = mode_output[o].value]]

\* The kernel notices a change; it tells those who listen, unless the socket is
\* full and drops the event.
Plug(o, listening) ==
  /\ connector' = [connector EXCEPT ![o].connected = ~@]
  /\ IF listening /\ Len(uevents) < MaxUevents
     THEN uevents' = Append(uevents, "ours") /\ missed' = missed \ {o}
     ELSE uevents' = uevents /\ missed' = missed \cup {o}
  /\ UNCHANGED <<mode_output, randr>>

\* An event of another device, or one without HOTPLUG=1.
OtherUevent(listening) ==
  /\ listening /\ Len(uevents) < MaxUevents
  /\ uevents' = Append(uevents, "other")
  /\ UNCHANGED <<connector, mode_output, randr, missed>>

\* drmmode_output_detect and drmmode_output_get_modes of every output: RandR
\* reports what the new snapshots say.
Probe(outs) ==
  /\ mode_output' = [o \in Outputs |-> IF o \in outs THEN connector[o] ELSE mode_output[o]]
  /\ randr' = [o \in Outputs |-> IF o \in outs THEN [randr[o] EXCEPT !.connected = connector[o].connected]
                                               ELSE randr[o]]
  /\ missed' = missed \ outs

\* Mutant: the test for the device is the wrong way round.
MatchesOther(e) == e = "other"

\* Which events make the handler ask RandR to look again.
Matches(e) == e = "ours"

\* drmmode_handle_uevents.  udev may fail to hand the event over, and while
\* another terminal is active the server does not look: the change goes unnoticed.
HandleUevents(vtSema) ==
  \E received \in BOOLEAN :
    /\ uevents # << >>
    /\ uevents' = Tail(uevents)
    /\ IF received /\ Matches(Head(uevents)) /\ vtSema
       THEN Probe(Outputs)
       ELSE /\ missed' = IF received /\ vtSema THEN missed
                        ELSE missed \cup {o \in Outputs : ~Noticed(o)}
            /\ UNCHANGED <<mode_output, randr>>
    /\ UNCHANGED connector

\* A client asks RandR for the outputs.
Query(vtSema) == vtSema /\ Probe(Outputs) /\ UNCHANGED <<connector, uevents>>

\* drmmode_output_set_property of a value the property has; the kernel refuses
\* it to all but the master.
SetProperty(o, v, master) ==
  /\ o \in Outputs
  /\ master
  /\ connector' = [connector EXCEPT ![o].value = v]
  /\ randr' = [randr EXCEPT ![o].value = v]
  /\ UNCHANGED <<mode_output, uevents, missed>>

\* drmmode_output_get_property: a property the driver knows is reported as the
\* snapshot has it, which is read again only while the terminal is ours.
GetProperty(o, known, vtSema) ==
  \E snapshot \in IF vtSema THEN {connector[o], NoSnapshot} ELSE {mode_output[o]} :
    /\ mode_output' = [mode_output EXCEPT ![o] = snapshot]
    /\ known => snapshot # NoSnapshot
    /\ randr' = IF known THEN [randr EXCEPT ![o].value = snapshot.value] ELSE randr
    /\ UNCHANGED <<connector, uevents, missed>>

\* The calls that use a snapshot the kernel may just have refused:
\* detect and get_property of a known property read it at once, dpms and
\* create_resources take the one there is.
UsesNull(vtSema) ==
  /\ Outputs # {}
  /\ vtSema \/ \E o \in Outputs : mode_output[o] = NoSnapshot

OutputsType ==
  /\ connector \in [Connector -> State]
  /\ Outputs \subseteq Connector
  /\ \A o \in Outputs : mode_output[o] \in State \cup {NoSnapshot}
  /\ randr \in [Outputs -> State]
  /\ uevents \in Seq({"ours", "other"}) /\ Len(uevents) <= MaxUevents
  /\ missed \subseteq Connector

=============================================================================
