------------------------ MODULE MCStreamConversion -------------------------
EXTENDS StreamConversion

AllRoutes == {r \in Protocols \X Protocols : r[1] # r[2]}
ChatToResponses == {<<"chat", "responses">>}
=============================================================================
