----------------------- MODULE MCKnowledgeAttachment -----------------------
(* KnowledgeAttachment, and the ProjectGraphs under it, on a small         *)
(* instance.                                                               *)
EXTENDS KnowledgeAttachment
=============================================================================
