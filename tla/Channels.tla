------------------------------- MODULE Channels -------------------------------
(***************************************************************************)
(* The channels of agentkit/graph/channels.py: typed state that the nodes  *)
(* of a run write to, with a merge rule per kind, and ChannelState.apply,  *)
(* which hands every channel all the writes of one step in node-id order.  *)
(***************************************************************************)
EXTENDS Naturals, Sequences
LOCAL INSTANCE SequencesExt

CONSTANTS
  Channel,      \* the names of the declared channels
  Kind,         \* Kind[c]: the class of channel c
  Names,        \* Names[c]: the writers a barrier waits for
  Value,        \* what nodes write; names of writers among them
  Combine(_,_), \* the operator of the reducers
  Initial,      \* Initial[c]: <<>> or <<v>>, what a reducer starts with
  NameOrder,    \* the channels as sorted() lists them
  IdOrder       \* the node ids as sorted() lists them

\* "topic" keeps everything, "latest" is a Topic(accumulate=False).
Kinds == {"last_value", "ephemeral", "topic", "latest", "reducer", "barrier"}

ASSUME ChannelAssumption ==
  /\ Kind \in [Channel -> Kinds]
  /\ Names \in [Channel -> SUBSET Value]
  /\ Initial \in [Channel -> {<<>>} \cup {<<v>> : v \in Value}]
  /\ IsInjective(NameOrder) /\ {NameOrder[i] : i \in DOMAIN NameOrder} = Channel
  /\ IsInjective(IdOrder)

\* One write; `over` marks a value wrapped in Overwrite.
Write == [value: Value, over: BOOLEAN]

\* The state of a channel is the sequence of values it holds (at most one but
\* for a topic), and for a barrier the set of names it has seen.
Fresh(c) ==
  CASE Kind[c] = "barrier" -> {}
    [] Kind[c] = "reducer" -> Initial[c]
    [] OTHER -> <<>>

\* ChannelState: the step counter, and a state and a version per channel.
FreshChannels == [step |-> 0, held |-> [c \in Channel |-> Fresh(c)],
                  version |-> [c \in Channel |-> 0]]

-------------------------------------------------------------------------------
(* update(values) of each kind, for the writes ws of one step              *)

Values(ws) == [i \in DOMAIN ws |-> ws[i].value]

\* The writes that the channel cannot merge (ChannelConflict).
Clashes(c, ws) ==
  CASE Kind[c] \in {"last_value", "ephemeral"} -> Len(ws) > 1
    [] Kind[c] = "reducer" -> Len(SelectSeq(ws, LAMBDA w : w.over)) > 1
    [] Kind[c] = "barrier" -> ~(ToSet(Values(ws)) \subseteq Names[c])
    [] OTHER -> FALSE

\* A topic keeps what it has, unless it is of the latest step only.
TopicUpdated(c, held, ws) == IF Kind[c] = "latest" THEN Values(ws) ELSE held \o Values(ws)

\* A reducer folds each write in; the first one, or an Overwrite, replaces.
FoldedIn(held, w) ==
  IF w.over \/ held = <<>> THEN <<w.value>> ELSE <<Combine(held[1], w.value)>>

\* The names up to the first that is not the barrier's.
BarrierUpdated(c, held, ws) ==
  held \cup {ws[i].value : i \in {j \in DOMAIN ws : \A k \in 1..j : ws[k].value \in Names[c]}}

\* A step without writes ends what lasts for one step and leaves the rest.
Updated(c, held, ws) ==
  IF ws = <<>> THEN IF Kind[c] \in {"ephemeral", "latest"} THEN <<>> ELSE held
  ELSE CASE Kind[c] \in {"last_value", "ephemeral"} -> <<Last(ws).value>>
         [] Kind[c] \in {"topic", "latest"} -> TopicUpdated(c, held, ws)
         [] Kind[c] = "reducer" -> FoldLeft(FoldedIn, held, ws)
         [] Kind[c] = "barrier" -> BarrierUpdated(c, held, ws)

\* Mutant: a channel that nobody wrote has not changed.
ReportedWhenWritten(c, held, ws) == ws # <<>>

\* What update returns: whether the channel is to be given a new version.
Reported(c, held, ws) ==
  CASE Kind[c] \in {"ephemeral", "latest"} -> held # <<>> \/ ws # <<>>
    [] Kind[c] = "barrier" -> Updated(c, held, ws) # held
    [] OTHER -> ws # <<>>

\* get(): what a reader of the channel sees; <<>> stands for NoValue.
Seen(c, held) ==
  CASE Kind[c] = "barrier" -> IF held = Names[c] THEN <<held>> ELSE <<>>
    [] OTHER -> held

-------------------------------------------------------------------------------
(* ChannelState.apply and consume                                          *)

\* The writes of the step to c, in id order; made[n] maps the channels that
\* node n wrote to its writes.
GroupedFor(c, made) ==
  LET writers == SelectSeq(IdOrder, LAMBDA n : n \in DOMAIN made /\ c \in DOMAIN made[n])
  IN [i \in DOMAIN writers |-> made[writers[i]][c]]

Undeclared(made) == \E n \in DOMAIN made : ~(DOMAIN made[n] \subseteq Channel)

Clashing(made) ==
  {i \in DOMAIN NameOrder : Clashes(NameOrder[i], GroupedFor(NameOrder[i], made))}

\* The channels a step merges: all, or those before the first that cannot.
Merged(made) ==
  {NameOrder[i] : i \in {j \in DOMAIN NameOrder : \A k \in Clashing(made) : j < k}}

Conflicts(made) == Undeclared(made) \/ Clashing(made) # {}

\* A conflict undoes nothing: the channels before it are updated, and a
\* barrier has seen the names before the one it refuses.
Touched(made) ==
  Merged(made) \cup
  {c \in Channel : Kind[c] = "barrier" /\
     \E i \in Clashing(made) : NameOrder[i] = c /\ \A k \in Clashing(made) : i <= k}

AppliedTo(ch, made) ==
  IF Undeclared(made) THEN ch
  ELSE [step |-> ch.step + 1,
        held |-> [c \in Channel |-> IF c \in Touched(made)
                                      THEN Updated(c, ch.held[c], GroupedFor(c, made))
                                      ELSE ch.held[c]],
        version |-> [c \in Channel |-> IF /\ c \in Merged(made)
                                          /\ Reported(c, ch.held[c], GroupedFor(c, made))
                                         THEN ch.step + 1 ELSE ch.version[c]]]

\* values(): the channels that have one, as a node reads them.
Visible(ch) == [c \in {d \in Channel : Seen(d, ch.held[d]) # <<>>} |-> Seen(c, ch.held[c])]

\* from_dict on to_dict: each channel is built anew and given back what it had
\* saved; a reducer that had nothing is as new.
Restored(saved) ==
  [saved EXCEPT !.held = [c \in Channel |-> IF Kind[c] = "reducer" /\ @[c] = <<>> THEN Fresh(c) ELSE @[c]]]

\* A barrier that has all its names is armed again.
Consumed(ch, C) ==
  LET full == {c \in C \cap Channel : Kind[c] = "barrier" /\ ch.held[c] = Names[c]}
  IN [ch EXCEPT !.held = [c \in Channel |-> IF c \in full THEN {} ELSE @[c]],
                !.version = [c \in Channel |-> IF c \in full THEN ch.step ELSE @[c]]]

===============================================================================
