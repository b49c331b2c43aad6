--------------------------- MODULE MCSmsFailover ---------------------------
EXTENDS SmsFailover

Everything == {"smsfactor", "ovh"}

\* server-essentials as published: nothing adds to Backbone.Model, and the
\* package ovh is not among the dependencies.
AsShipped == [files : {Everything}, logs : {FALSE}, package : {FALSE}]

\* A host that supplies both.
Completed == [files : {Everything}, logs : {TRUE}, package : {TRUE}]
=============================================================================
