--------------------------- MODULE MCPetFileCalls ---------------------------
(* One process on its file, as its caller sees it.                         *)
EXTENDS MCPetFile, PetFileCalls
=============================================================================
