-------------------------- MODULE MCServerThreads --------------------------
(* The threads of the server with the login scripts of the shipped games,  *)
(* which set up the hotbar of the player, and one that sends a message.    *)
EXTENDS ServerThreads

SendingLogin == {<<"entities">>, <<"entities", "enet">>}
=============================================================================
