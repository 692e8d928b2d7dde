---------------------------- MODULE OpenApiSchemas ----------------------------
(***************************************************************************)
(* The documents the OpenAPI document promises with a status of 200.  A    *)
(* field that may be left out is Absent where it is.                       *)
(***************************************************************************)
EXTENDS GraphDocuments

Optional(T) == T \cup {Absent}

Save == [typename : {"Save"}, id : ID, resolvedUrl : Optional(Maybe(Url)),
         givenUrl : Url, title : Optional(Maybe(String)),
         excerpt : Optional(Maybe(String)), domain : Optional(Maybe(String)),
         wordCount : Optional(Maybe(Int)), timeToRead : Optional(Maybe(Int)),
         topImageUrl : Optional(Maybe(Url))]

PendingSave == [typename : {"PendingSave"}, id : ID, givenUrl : Url]

Recommendation == [typename : {"Recommendation"}, recommendationId : Optional(ID),
                   tileId : Nat, url : Url, title : String, excerpt : String,
                   publisher : String, imageUrl : Url, timeToRead : Optional(Nat)]

\* A URL percent-encoded to be a parameter of another, from which it can be had back.
EncodedUrl == [percentEncoded : Url]

\* The address of the image service, and what it is given to resize.
ResizedImage == [direct : EncodedUrl, resize : {"w450"}]

LegacyFeedItem == [id : Nat, title : String, url : Url, excerpt : String,
                   domain : String, image_src : ResizedImage, raw_image_src : Url,
                   time_to_read : Optional(Nat)]

\* weightPosition and spocsPerNewTabs count in halves; the version never changes.
TimeSegment == [id : {"week", "month"}, startTime : Nat, endTime : Nat,
                weightPosition : Nat]
LegacySettings == [spocsPerNewTabs : Nat, domainAffinityParameterSets : {<<>>},
                   timeSegments : Seq(TimeSegment), recsExpireTime : Nat,
                   version : {"6f605b0212069b4b8d3d040faf55742061a25c16"}]

RecentSavesResponse == [data : Seq(Save \cup PendingSave)]
RecommendationsResponse == [data : Seq(Recommendation)]
GlobalRecsResponse == [status : {1}, spocs : {<<>>}, settings : LegacySettings,
                       recommendations : Seq(LegacyFeedItem)]
==============================================================================
