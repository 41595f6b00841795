----------------------------- MODULE MCChatStore -----------------------------
(* Instances of ChatStore for TLC. *)
EXTENDS ChatStore, TLC

EveryoneIn == [c \in Chats |-> Users]

OnlyTheFirstIn == [c \in Chats |-> {1}]

\* One member reads, up to the first message and past the last there can be.
OneReader == {CHOOSE c \in Chats : TRUE} \X {1} \X {1, MaxSeq + 1}

AnyRead == Chats \X Users \X (0..MaxSeq + 1)

Symmetry == Permutations(Handlers)
=============================================================================
