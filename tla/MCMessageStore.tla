--------------------------- MODULE MCMessageStore ---------------------------
(* MessageStore and ReactionStore on one message, for TLC: no request      *)
(* touches two messages.  Reactions only need to know whether the message  *)
(* is stored, so that a behaviour is about its snapshots or about them.    *)
EXTENDS ReactionStore

VARIABLE scope

\* The columns as the tables of a run can hold them.
MCProps ==
    [content: Content,
     embeds: [value: Embed \cup {Null}, quotes: 0..MaxQuotes],
     attachments: SUBSET File]

MCInit == ReactionInit /\ scope \in {"snapshots", "reactions"}
Plain == CHOOSE props \in Complete : props.attachments = {} /\ props.embeds = NoEmbeds
MCNext ==
    /\ UNCHANGED scope
    /\ \/ scope = "snapshots" /\ Next /\ UNCHANGED reactions
       \/ /\ scope = "reactions"
          /\ \/ ReactionRequests
             \/ \E m \in Message : AddMessage(m, 0, Plain) /\ UNCHANGED reactions
MCSpec == MCInit /\ [][MCNext]_<<vars, reactions, scope>>
=============================================================================
