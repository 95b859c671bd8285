--------------------------- MODULE MCConversation ---------------------------
EXTENDS Conversation
\* A name, and the name it gets when it is taken.
MCFileName == {<<>>, <<1>>}
=============================================================================
